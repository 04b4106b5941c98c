------------------------------- MODULE SysVProofs -------------------------------
(***************************************************************************)
(* Proofs about calls on System V AMD64, for every interface over every    *)
(* set of types and every number of stack slots.  What PrepareCallInterface*)
(* counts is what Execute uses; Execute places and callbackWrap reads an   *)
(* eightbyte by two rules that differ on one eightbyte of floats with a    *)
(* nested struct and nowhere else, and each is the ABI's wherever no struct*)
(* is split and no nested struct hides a class; and results come back      *)
(* through the registers C returns in.                                     *)
(***************************************************************************)
EXTENDS SysVRoundTrip, SequenceTheorems, FiniteSetTheorems, WellFoundedInduction, TLAPS

\* The interfaces in which everything is counted.
Counted == ~Sret /\ \A i \in DOMAIN sig.args : ~InMemory(sig.args[i])

Regs == [int : Seq(Word), sse : Seq(Word), stack : Seq(Word)]
UpTo(n, limit) == IF n < limit THEN n ELSE limit
\* a integer and b float eightbytes are in r.
Holds(r, a, b) == /\ Len(r.int) = UpTo(a, 6) /\ Len(r.sse) = UpTo(b, 8)
                  /\ Len(r.stack) = Over(a, 6) + Over(b, 8)
--------------------------------------------------------------------------------
(* One eightbyte, one argument.                                             *)

LEMMA AppendGrows ==
  ASSUME NEW s \in Seq(Word), NEW w \in Word
  PROVE  Append(s, w) \in Seq(Word) /\ Len(Append(s, w)) = Len(s) + 1
  BY AppendProperties

LEMMA AddStackKeeps ==
  ASSUME NEW r \in Regs, NEW w \in Word
  PROVE  /\ AddStack(r, w) \in Regs
         /\ AddStack(r, w).int = r.int /\ AddStack(r, w).sse = r.sse
         /\ Len(AddStack(r, w).stack) = Len(r.stack) + 1
<1>1. r.stack \in Seq(Word)
  BY DEF Regs
<1>2. Append(r.stack, w) \in Seq(Word) /\ Len(Append(r.stack, w)) = Len(r.stack) + 1
  BY <1>1, AppendGrows
<1> QED BY <1>2 DEF AddStack, Regs

LEMMA AddIntHolds ==
  ASSUME NEW r \in Regs, NEW w \in Word, NEW a \in Nat, NEW b \in Nat, Holds(r, a, b)
  PROVE  AddInt(r, w) \in Regs /\ Holds(AddInt(r, w), a + 1, b)
<1>0. r.int \in Seq(Word)
  BY DEF Regs
<1>1. Append(r.int, w) \in Seq(Word) /\ Len(Append(r.int, w)) = Len(r.int) + 1
  BY <1>0, AppendGrows
<1>2. CASE a < 6
  <2>1. AddInt(r, w) = [r EXCEPT !.int = Append(@, w)]
    BY <1>2 DEF AddInt, Holds, UpTo
  <2>2. AddInt(r, w) \in Regs
    BY <1>1, <2>1 DEF Regs
  <2>3. /\ AddInt(r, w).int = Append(r.int, w)
        /\ AddInt(r, w).sse = r.sse /\ AddInt(r, w).stack = r.stack
    BY <2>1 DEF Regs
  <2>4. Len(AddInt(r, w).int) = Len(r.int) + 1
    BY <1>1, <2>3
  <2> QED BY <1>2, <2>2, <2>3, <2>4 DEF Holds, UpTo, Over
<1>3. CASE a >= 6
  <2>1. AddInt(r, w) = AddStack(r, w)
    BY <1>3 DEF AddInt, Holds, UpTo
  <2> QED BY <1>3, <2>1, AddStackKeeps DEF Holds, UpTo, Over
<1> QED BY <1>2, <1>3

LEMMA AddFloatHolds ==
  ASSUME NEW r \in Regs, NEW w \in Word, NEW a \in Nat, NEW b \in Nat, Holds(r, a, b)
  PROVE  AddFloat(r, w) \in Regs /\ Holds(AddFloat(r, w), a, b + 1)
<1>0. r.sse \in Seq(Word)
  BY DEF Regs
<1>1. Append(r.sse, w) \in Seq(Word) /\ Len(Append(r.sse, w)) = Len(r.sse) + 1
  BY <1>0, AppendGrows
<1>2. CASE b < 8
  <2>1. AddFloat(r, w) = [r EXCEPT !.sse = Append(@, w)]
    BY <1>2 DEF AddFloat, Holds, UpTo
  <2>2. AddFloat(r, w) \in Regs
    BY <1>1, <2>1 DEF Regs
  <2>3. /\ AddFloat(r, w).sse = Append(r.sse, w)
        /\ AddFloat(r, w).int = r.int /\ AddFloat(r, w).stack = r.stack
    BY <2>1 DEF Regs
  <2>4. Len(AddFloat(r, w).sse) = Len(r.sse) + 1
    BY <1>1, <2>3
  <2> QED BY <1>2, <2>2, <2>3, <2>4 DEF Holds, UpTo, Over
<1>3. CASE b >= 8
  <2>1. AddFloat(r, w) = AddStack(r, w)
    BY <1>3 DEF AddFloat, Holds, UpTo
  <2> QED BY <1>3, <2>1, AddStackKeeps DEF Holds, UpTo, Over
<1> QED BY <1>2, <1>3

\* What is put in for an eightbyte is a word.
LEMMA WordsAreWords ==
  ASSUME NEW i \in Nat
  PROVE  /\ AddressOf(i) \in Word
         /\ \A off, len \in Nat : Bytes(i, off, len) \in Word
         /\ \A n \in Nat : ReadLen(n) \in Nat
  BY DEF AddressOf, Bytes, Word, ReadLen

\* What the assumption on the types says of sizes.
LEMMA SizeIsPositive ==
  ASSUME NEW t \in Types
  PROVE  t.size \in Nat \ {0} /\ (~IsStruct(t) => t.size <= 8)
<1>1. LaidOut(t) /\ (~IsStruct(t) => t.size <= 8)
  BY TypesAssumption
<1> QED BY <1>1 DEF LaidOut

LEMMA MemberSizes ==
  ASSUME NEW t \in Types, IsStruct(t), NEW i \in DOMAIN t.members
  PROVE  Offset(t.members, i) \in 0..(t.size - 1) /\ t.members[i].size \in Nat \ {0}
<1>1. LaidOut(t.members[i]) /\ Offset(t.members, i) \in 0..(t.size - 1)
  BY TypesAssumption
<1> QED BY <1>1 DEF LaidOut

\* classifyArgumentAMD64 counts a scalar as what Execute makes of it.
LEMMA ScalarCounts ==
  ASSUME NEW t \in Types, ~IsStruct(t)
  PROVE  IF IsFloat(t) THEN GprCount(t) = 0 /\ SseCount(t) = 1
                       ELSE GprCount(t) = 1 /\ SseCount(t) = 0
<1>1. t.size \in 1..8
  BY SizeIsPositive
<1>2. Eightbytes(t) = 1
  BY <1>1 DEF Eightbytes
<1> QED BY <1>2 DEF GprCount, SseCount

\* Where the leaves of a struct are: each in one eightbyte, inside the member it is
\* part of; and the leaf of a member that is a scalar is the member.
LEMMA LeafOwner ==
  ASSUME NEW t \in Types, IsStruct(t), NEW j \in DOMAIN t.leaves
  PROVE  \E i \in DOMAIN t.members :
           /\ Offset(t.members, i) <= t.leaves[j].off
           /\ LeafEnd(t, j) <= Offset(t.members, i) + t.members[i].size
           /\ ~IsStruct(t.members[i]) => /\ t.leaves[j].kind = t.members[i].kind
                                         /\ t.leaves[j].off = Offset(t.members, i)
<1>1. PICK i \in DOMAIN t.members : t.leaves[j] \in LeavesOf(t.members, i)
  BY TypesAssumption
<1>2. PICK m, o : m = t.members[i] /\ o = Offset(t.members, i)
  OBVIOUS
<1>3. PICK n \in DOMAIN m.leaves :
        t.leaves[j] = Leaf(m.leaves[n].kind, m.leaves[n].off + o, m.leaves[n].size)
  BY <1>1, <1>2 DEF LeavesOf
<1>4. LaidOut(m) /\ o \in Nat
  BY <1>2, TypesAssumption
<1>5. /\ t.leaves[j].kind = m.leaves[n].kind /\ t.leaves[j].off = m.leaves[n].off + o
      /\ t.leaves[j].size = m.leaves[n].size
  BY <1>3 DEF Leaf
<1>6. CASE IsStruct(m)
  <2>1. PICK off, size, all : /\ off = m.leaves[n].off /\ size = m.leaves[n].size
                             /\ all = m.size
    OBVIOUS
  <2>2. off \in Nat /\ size \in Nat /\ all \in Nat /\ off + size <= all
    BY <1>4, <1>6, <2>1 DEF LaidOut, LeafEnd
  <2>3. o <= off + o /\ off + o + size <= o + all
    BY <1>4, <2>2
  <2> QED BY <1>2, <1>5, <1>6, <2>1, <2>3 DEF LeafEnd
<1>7. CASE ~IsStruct(m)
  <2>1. m.leaves = <<Leaf(m.kind, 0, m.size)>> /\ m.size \in Nat
    BY <1>4, <1>7 DEF LaidOut
  <2>2. n = 1 /\ m.leaves[n] = Leaf(m.kind, 0, m.size)
    BY <1>3, <2>1
  <2>3. m.leaves[n].kind = m.kind /\ m.leaves[n].off = 0 /\ m.leaves[n].size = m.size
    BY <2>2 DEF Leaf
  <2> QED BY <1>2, <1>4, <1>5, <2>1, <2>3 DEF LeafEnd
<1> QED BY <1>6, <1>7

LEMMA ScalarLeaf ==
  ASSUME NEW t \in Types, IsStruct(t), NEW i \in DOMAIN t.members, ~IsStruct(t.members[i])
  PROVE  \E j \in DOMAIN t.leaves : /\ t.leaves[j].kind = t.members[i].kind
                                    /\ t.leaves[j].off = Offset(t.members, i)
<1>1. PICK m, o : m = t.members[i] /\ o = Offset(t.members, i)
  OBVIOUS
<1>2. LaidOut(m) /\ o \in Nat
  BY <1>1, TypesAssumption
<1>3. m.leaves = <<Leaf(m.kind, 0, m.size)>>
  BY <1>1, <1>2 DEF LaidOut
<1>4. Leaf(m.kind, 0, m.size) \in {m.leaves[n] : n \in DOMAIN m.leaves}
  BY <1>3
<1>5. Leaf(m.kind, 0 + o, m.size) \in LeavesOf(t.members, i)
  BY <1>1, <1>4 DEF LeavesOf, Leaf
<1>6. Leaf(m.kind, 0 + o, m.size) \in {t.leaves[j] : j \in DOMAIN t.leaves}
  BY <1>5, TypesAssumption
<1>7. PICK j \in DOMAIN t.leaves : t.leaves[j] = Leaf(m.kind, 0 + o, m.size)
  BY <1>6
<1> QED BY <1>1, <1>2, <1>7 DEF Leaf

LEMMA LeafEightbyte ==
  ASSUME NEW t \in Types, IsStruct(t), NEW j \in DOMAIN t.leaves
  PROVE  /\ t.leaves[j].off \in 0..(t.size - 1)
         /\ LeafEnd(t, j) \in (t.leaves[j].off + 1)..t.size
         /\ \A k \in Nat : (t.leaves[j].off < 8 * k + 8 /\ LeafEnd(t, j) > 8 * k)
                             <=> t.leaves[j].off \in (8 * k)..(8 * k + 7)
<1> PICK off, n : off = t.leaves[j].off /\ n = t.leaves[j].size
  OBVIOUS
<1>0. LaidOut(t) /\ t.leaves[j].off \div 8 = (LeafEnd(t, j) - 1) \div 8
  BY TypesAssumption
<1>1. /\ off \in Nat /\ n \in Nat \ {0} /\ off + n <= t.size /\ t.size \in Nat
      /\ off \div 8 = (off + n - 1) \div 8 /\ LeafEnd(t, j) = off + n
  BY <1>0 DEF LaidOut, LeafEnd
<1>2. PICK q \in Nat : q = off \div 8
  BY <1>1
<1>3. 8 * q <= off /\ off <= 8 * q + 7 /\ off + n - 1 <= 8 * q + 7
  BY <1>1, <1>2
<1>4. ASSUME NEW k \in Nat
      PROVE  off < 8 * k + 8 /\ off + n > 8 * k <=> off \in (8 * k)..(8 * k + 7)
  <2>1. CASE q < k
    BY <1>1, <1>3, <2>1
  <2>2. CASE q = k
    BY <1>1, <1>3, <2>2
  <2>3. CASE q > k
    BY <1>1, <1>3, <2>3
  <2> QED BY <2>1, <2>2, <2>3
<1> QED BY <1>1, <1>4

\* The members of a struct of at most 8 bytes are all in its one eightbyte.
LEMMA SmallCounts ==
  ASSUME NEW t \in Types, IsStruct(t), t.size <= 8
  PROVE  IF IsStructAllFloats(t) THEN GprCount(t) = 0 /\ SseCount(t) = 1
                                 ELSE GprCount(t) = 1 /\ SseCount(t) = 0
<1>1. t.size \in 1..8
  BY SizeIsPositive
<1>2. Eightbytes(t) = 1 /\ ~IsFloat(t)
  BY <1>1 DEF Eightbytes, IsStruct, IsFloat
<1>3. /\ DOMAIN t.members # {}
      /\ \A i \in DOMAIN t.members : Offset(t.members, i) \in 0..(t.size - 1)
  <2>1. 0 \in 0..(Eightbytes(t) - 1)
    BY <1>2
  <2>2. \E j \in DOMAIN t.leaves : t.leaves[j].off \div 8 = 0
    BY <2>1, TypesAssumption
  <2>3. \E i \in DOMAIN t.members : TRUE
    BY <2>2, LeafOwner
  <2>4. \A i \in DOMAIN t.members : Offset(t.members, i) \in 0..(t.size - 1)
    BY MemberSizes
  <2> QED BY <2>3, <2>4
<1>4. SmallEnd(t) = t.size
  BY <1>1, <1>3 DEF SmallEnd
<1>5. ClassifyEightbyte(t, 0, t.size) <=> IsStructAllFloats(t)
  <2>1. PICK here : here = {i \in DOMAIN t.members : Offset(t.members, i) \in 0..(t.size - 1)}
    OBVIOUS
  <2>2. here = DOMAIN t.members
    BY <1>1, <1>3, <2>1
  <2>3. ClassifyEightbyte(t, 0, t.size)
          <=> here # {} /\ \A i \in here : IsFloat(t.members[i])
    BY <2>1 DEF ClassifyEightbyte
  <2>4. t.members # <<>> /\ DOMAIN t.members # {}
    BY <1>1, <1>3
  <2> QED BY <2>2, <2>3, <2>4 DEF IsStructAllFloats
<1>6. 1 \notin SseChunks(t) /\ (0 \in SseChunks(t) <=> IsStructAllFloats(t))
  BY <1>1, <1>3, <1>4, <1>5 DEF SseChunks
<1> QED BY <1>1, <1>3, <1>2, <1>6 DEF GprCount, SseCount

\* Those of a larger one that is not in memory: each eightbyte by itself.
LEMMA PairCounts ==
  ASSUME NEW t \in Types, IsStruct(t), t.size \in 9..16
  PROVE  LET one(sse) == IF sse THEN 1 ELSE 0
             n == one(ClassifyEightbyte(t, 0, 8)) + one(ClassifyEightbyte(t, 8, t.size))
         IN  SseCount(t) = n /\ GprCount(t) = 2 - n
<1>1. Eightbytes(t) = 2 /\ ~IsFloat(t)
  BY DEF Eightbytes, IsStruct, IsFloat
<1>2. SmallEnd(t) = 8
  BY DEF SmallEnd
<1>3. /\ 0 \in SseChunks(t) <=> ClassifyEightbyte(t, 0, 8)
      /\ 1 \in SseChunks(t) <=> ClassifyEightbyte(t, 8, t.size)
  BY <1>2 DEF SseChunks
<1> QED BY <1>1, <1>3 DEF GprCount, SseCount

\* The counts of any argument.
LEMMA CountsAreNat ==
  ASSUME NEW t \in Types
  PROVE  GprCount(t) \in Nat /\ SseCount(t) \in Nat
<1>1. t.size \in Nat \ {0}
  BY SizeIsPositive
<1>2. CASE ~IsStruct(t)
  BY <1>2, ScalarCounts
<1>3. CASE IsStruct(t) /\ t.size <= 8
  BY <1>3, SmallCounts
<1>4. CASE IsStruct(t) /\ t.size \in 9..16
  BY <1>4, PairCounts
<1>5. CASE IsStruct(t) /\ t.size > 16
  BY <1>1, <1>5 DEF GprCount, SseCount, IsStruct, IsFloat
<1> QED BY <1>1, <1>2, <1>3, <1>4, <1>5

\* Execute uses for an argument what classifyArgumentAMD64 counted.
LEMMA ArgHolds ==
  ASSUME NEW t \in Types, ~InMemory(t), NEW i \in Nat,
         NEW r \in Regs, NEW a \in Nat, NEW b \in Nat, Holds(r, a, b)
  PROVE  /\ PlaceArg(r, i, t) \in Regs
         /\ Holds(PlaceArg(r, i, t), a + GprCount(t), b + SseCount(t))
<1>1. t.size \in Nat \ {0}
  BY SizeIsPositive
<1>2. CASE ~IsStruct(t)
  <2>1. PlaceArg(r, i, t) = PlaceScalar(r, i, t)
    BY <1>2 DEF PlaceArg
  <2>2. Bytes(i, 0, t.size) \in Word /\ AddressOf(i) \in Word
    BY <1>1, WordsAreWords
  <2>3. CASE IsFloat(t)
    <3>1. PlaceScalar(r, i, t) = AddFloat(r, Bytes(i, 0, t.size))
      BY <2>3 DEF PlaceScalar, IsFloat
    <3> QED BY <1>2, <2>1, <2>2, <2>3, <3>1, ScalarCounts, AddFloatHolds
  <2>4. CASE ~IsFloat(t)
    <3>1. PICK w \in Word : PlaceScalar(r, i, t) = AddInt(r, w)
      BY <2>2, <2>4 DEF PlaceScalar
    <3> QED BY <1>2, <2>1, <2>4, <3>1, ScalarCounts, AddIntHolds
  <2> QED BY <2>3, <2>4
<1>3. CASE IsStruct(t) /\ t.size <= 8
  <2>1. PlaceArg(r, i, t) = PlaceSmall(r, i, t)
    BY <1>3 DEF PlaceArg
  <2>2. Bytes(i, 0, 8) \in Word /\ Bytes(i, 0, ReadLen(t.size)) \in Word
    BY <1>1, WordsAreWords
  <2>3. CASE IsStructAllFloats(t)
    BY <1>3, <2>1, <2>2, <2>3, SmallCounts, AddFloatHolds DEF PlaceSmall
  <2>4. CASE ~IsStructAllFloats(t)
    BY <1>3, <2>1, <2>2, <2>4, SmallCounts, AddIntHolds DEF PlaceSmall
  <2> QED BY <2>3, <2>4
<1>4. CASE IsStruct(t) /\ t.size \in 9..16
  <2> DEFINE lo == ClassifyEightbyte(t, 0, 8)
             hi == ClassifyEightbyte(t, 8, t.size)
  <2>1. PICK w1 \in Word, w2 \in Word : PlaceArg(r, i, t) = Add(Add(r, lo, w1), hi, w2)
    <3>1. Bytes(i, 0, 8) \in Word /\ Bytes(i, 8, ReadLen(t.size - 8)) \in Word
      <4>1. t.size - 8 \in Nat
        BY <1>4
      <4>2. ReadLen(t.size - 8) \in Nat
        BY <4>1, WordsAreWords
      <4> QED BY <4>2, WordsAreWords
    <3> QED BY <1>4, <3>1 DEF PlaceArg, PlacePair
  <2>2. PICK q : q = Add(r, lo, w1)
    OBVIOUS
  <2>3. /\ q \in Regs
        /\ lo => Holds(q, a, b + 1)
        /\ ~lo => Holds(q, a + 1, b)
    BY <2>2, AddIntHolds, AddFloatHolds DEF Add
  <2>4. PICK s : s = Add(q, hi, w2)
    OBVIOUS
  <2>5. /\ s \in Regs
        /\ lo /\ hi => Holds(s, a, (b + 1) + 1)
        /\ lo /\ ~hi => Holds(s, a + 1, b + 1)
        /\ ~lo /\ hi => Holds(s, a + 1, b + 1)
        /\ ~lo /\ ~hi => Holds(s, (a + 1) + 1, b)
    BY <2>3, <2>4, AddIntHolds, AddFloatHolds DEF Add
  <2>6. /\ lo /\ hi => GprCount(t) = 0 /\ SseCount(t) = 2
        /\ lo /\ ~hi => GprCount(t) = 1 /\ SseCount(t) = 1
        /\ ~lo /\ hi => GprCount(t) = 1 /\ SseCount(t) = 1
        /\ ~lo /\ ~hi => GprCount(t) = 2 /\ SseCount(t) = 0
    BY <1>4, PairCounts
  <2>7. PlaceArg(r, i, t) = s
    BY <2>1, <2>2, <2>4
  <2>8. (a + 1) + 1 = a + 2 /\ (b + 1) + 1 = b + 2 /\ a + 0 = a /\ b + 0 = b
    OBVIOUS
  <2> QED BY <2>5, <2>6, <2>7, <2>8
<1> QED BY <1>1, <1>2, <1>3, <1>4 DEF InMemory
--------------------------------------------------------------------------------
(* The counts and the registers, in step.                                   *)

Counts == [int : Nat, sse : Nat]
After(u, t) == [int |-> u.int + GprCount(t), sse |-> u.sse + SseCount(t)]

\* The loop of preparePlatformSpecific: a count for each argument seen, each made
\* from the one before, none smaller.
CountOK ==
  /\ sig \in Signatures
  /\ next \in 1..(Len(sig.args) + 1)
  /\ totals \in Seq(Counts)
  /\ Len(totals) = IF phase = "prepare" THEN next ELSE Len(sig.args) + 1
  /\ totals[1] = [int |-> 0, sse |-> 0]
  /\ \A k \in 1..(Len(totals) - 1) : totals[k + 1] = After(totals[k], sig.args[k])
  /\ \A j, k \in 1..Len(totals) :
       j <= k => totals[j].int <= totals[k].int /\ totals[j].sse <= totals[k].sse

\* The loop of Execute: the registers hold what was counted so far, and all of it
\* was accepted.
PlaceOK ==
  /\ phase = "prepare" => regs = [int |-> <<>>, sse |-> <<>>, stack |-> <<>>]
  /\ phase = "place" => Accepted(totals[Len(sig.args) + 1])
  /\ phase = "place" /\ Counted => regs \in Regs
                                   /\ Holds(regs, totals[next].int, totals[next].sse)
  /\ phase = "panic" => ~Counted

IInv == CountOK /\ PlaceOK

LEMMA SigType ==
  ASSUME CountOK
  PROVE  sig.args \in Seq(Types) /\ Len(sig.args) \in Nat
  BY SignaturesAssumption DEF CountOK

LEMMA InitIInv == Init => IInv
<1> SUFFICES ASSUME Init PROVE IInv
  OBVIOUS
<1> USE DEF Init, CallInit
<1>1. sig.args \in Seq(Types) /\ Len(sig.args) \in Nat
  BY SignaturesAssumption
<1>2. PICK z : z = [int |-> 0, sse |-> 0]
  OBVIOUS
<1>3. z \in Counts /\ totals = <<z>>
  BY <1>2 DEF Counts
<1>4. totals \in Seq(Counts) /\ Len(totals) = 1 /\ totals[1] = z
  BY <1>3
<1>5. CountOK
  BY <1>1, <1>2, <1>3, <1>4 DEF CountOK, Counts
<1>6. PlaceOK
  BY DEF PlaceOK
<1> QED BY <1>5, <1>6 DEF IInv

LEMMA AppendCount ==
  ASSUME NEW s \in Seq(Counts), NEW c \in Counts
  PROVE  /\ Append(s, c) \in Seq(Counts) /\ Len(Append(s, c)) = Len(s) + 1
         /\ \A k \in 1..Len(s) : Append(s, c)[k] = s[k]
         /\ Append(s, c)[Len(s) + 1] = c
  BY AppendProperties

LEMMA CountArgKeeps == IInv /\ CountArg => IInv'
<1> SUFFICES ASSUME IInv, CountArg PROVE IInv'
  OBVIOUS
<1>1. sig.args \in Seq(Types) /\ Len(sig.args) \in Nat
  BY SigType DEF IInv
<1>2. /\ phase = "prepare" /\ next <= Len(sig.args)
      /\ phase' = phase /\ sig' = sig /\ regs' = regs /\ next' = next + 1
  BY DEF CountArg
<1>3. PICK t : t = sig.args[next]
  OBVIOUS
<1>4. t \in Types /\ GprCount(t) \in Nat /\ SseCount(t) \in Nat
  BY <1>1, <1>2, <1>3, CountsAreNat DEF IInv, CountOK
<1>5. PICK u : u = totals[next]
  OBVIOUS
<1>6. u \in Counts /\ After(u, t) \in Counts
      /\ u.int <= After(u, t).int /\ u.sse <= After(u, t).sse
  <2>1. u \in Counts
    BY <1>2, <1>5 DEF IInv, CountOK
  <2>2. u.int \in Nat /\ u.sse \in Nat
    BY <2>1 DEF Counts
  <2> QED BY <1>4, <2>1, <2>2 DEF After, Counts
<1>7. totals' = Append(totals, After(u, t))
  BY <1>3, <1>5 DEF CountArg, After
<1>8. /\ totals' \in Seq(Counts) /\ Len(totals') = Len(totals) + 1
      /\ \A k \in 1..Len(totals) : totals'[k] = totals[k]
      /\ totals'[Len(totals) + 1] = After(u, t)
  <2>1. totals \in Seq(Counts)
    BY DEF IInv, CountOK
  <2> QED BY <1>6, <1>7, <2>1, AppendCount
<1>9. Len(totals) = next /\ next \in 1..(Len(sig.args) + 1)
  BY <1>2 DEF IInv, CountOK
<1>10. \A k \in 1..(Len(totals') - 1) : totals'[k + 1] = After(totals'[k], sig.args[k])
  <2> SUFFICES ASSUME NEW k \in 1..(Len(totals') - 1)
               PROVE  totals'[k + 1] = After(totals'[k], sig.args[k])
    OBVIOUS
  <2>1. CASE k = next
    BY <1>3, <1>5, <1>8, <1>9, <2>1
  <2>2. CASE k # next
    <3>1. k \in 1..(Len(totals) - 1) /\ k + 1 \in 1..Len(totals) /\ k \in 1..Len(totals)
      BY <1>8, <1>9, <2>2
    <3> QED BY <1>8, <3>1 DEF IInv, CountOK
  <2> QED BY <2>1, <2>2
<1>11. ASSUME NEW j \in 1..Len(totals'), NEW k \in 1..Len(totals'), j <= k
       PROVE  totals'[j].int <= totals'[k].int /\ totals'[j].sse <= totals'[k].sse
  <2>1. CASE k <= next
    <3>1. j \in 1..Len(totals) /\ k \in 1..Len(totals)
      BY <1>8, <1>9, <1>11, <2>1
    <3>2. totals'[j] = totals[j] /\ totals'[k] = totals[k]
      BY <1>8, <3>1
    <3> QED BY <1>11, <3>1, <3>2 DEF IInv, CountOK
  <2>2. CASE k = next + 1 /\ j = next + 1
    BY <1>6, <1>8, <1>9, <2>2 DEF Counts
  <2>3. CASE k = next + 1 /\ j <= next
    <3>1. totals[j].int <= u.int /\ totals[j].sse <= u.sse /\ totals[j] \in Counts
      BY <1>5, <1>9, <2>3 DEF IInv, CountOK
    <3> QED BY <1>6, <1>8, <1>9, <2>3, <3>1 DEF Counts
  <2> QED BY <1>8, <1>9, <1>11, <2>1, <2>2, <2>3
<1>12. CountOK'
  <2>1. totals'[1] = [int |-> 0, sse |-> 0]
    BY <1>8, <1>9 DEF IInv, CountOK
  <2>2. next' \in 1..(Len(sig.args) + 1) /\ Len(totals') = next'
    BY <1>1, <1>2, <1>8, <1>9
  <2> QED BY <1>2, <1>8, <1>10, <1>11, <2>1, <2>2 DEF IInv, CountOK
<1>13. PlaceOK'
  BY <1>2 DEF IInv, PlaceOK
<1> QED BY <1>12, <1>13 DEF IInv

\* A step that leaves the counting alone.
LEMMA CountOKKept ==
  ASSUME CountOK, UNCHANGED <<sig, totals>>, phase # "prepare" \/ next > Len(sig.args),
         phase' # "prepare", next' \in 1..(Len(sig.args) + 1)
  PROVE  CountOK'
<1>1. Len(sig.args) \in Nat
  BY SigType
<1>2. Len(totals') = Len(sig.args) + 1
  BY <1>1 DEF CountOK
<1> QED BY <1>2 DEF CountOK

LEMMA PreparedKeeps == IInv /\ Prepared => IInv'
<1> SUFFICES ASSUME IInv, Prepared PROVE IInv'
  OBVIOUS
<1>1. sig.args \in Seq(Types) /\ Len(sig.args) \in Nat
  BY SigType DEF IInv
<1>2. /\ phase = "prepare" /\ next > Len(sig.args) /\ phase' \in {"place", "rejected"}
      /\ UNCHANGED <<sig, totals>> /\ next' = 1
  BY DEF Prepared
<1>3. CountOK'
  BY <1>1, <1>2, CountOKKept DEF IInv
<1>4. next = Len(sig.args) + 1
  BY <1>1, <1>2 DEF IInv, CountOK
<1>5. phase' = "place" => Accepted(totals[next])
  BY DEF Prepared
<1>6. ASSUME phase' = "place", Counted
      PROVE  regs' \in Regs /\ Holds(regs', 0, 0)
  <2>1. regs' = [regs EXCEPT !.int = <<>>]
    BY <1>6 DEF Prepared, Counted
  <2>2. regs = [int |-> <<>>, sse |-> <<>>, stack |-> <<>>]
    BY <1>2 DEF IInv, PlaceOK
  <2>3. regs' = [int |-> <<>>, sse |-> <<>>, stack |-> <<>>]
    BY <2>1, <2>2
  <2> QED BY <2>3 DEF Regs, Holds, UpTo, Over
<1>7. totals'[next'] = [int |-> 0, sse |-> 0]
  BY <1>2 DEF IInv, CountOK
<1>8. Counted' <=> Counted
  BY <1>2 DEF Counted, Sret
<1>9. PlaceOK'
  BY <1>2, <1>4, <1>5, <1>6, <1>7, <1>8 DEF PlaceOK
<1> QED BY <1>3, <1>9 DEF IInv

LEMMA ExecuteKeeps == IInv /\ Execute => IInv'
<1> SUFFICES ASSUME IInv, Execute PROVE IInv'
  OBVIOUS
<1>1. sig.args \in Seq(Types) /\ Len(sig.args) \in Nat
  BY SigType DEF IInv
<1>2. /\ phase = "place" /\ next <= Len(sig.args) /\ next \in 1..Len(sig.args)
      /\ UNCHANGED <<sig, totals>>
  BY <1>1 DEF Execute, IInv, CountOK
<1>3. PICK t, r : t = sig.args[next] /\ r = PlaceArg(regs, next, t)
  OBVIOUS
<1>4. \/ Len(r.stack) > MaxStackSlots /\ phase' = "panic" /\ next' = next
      \/ regs' = r /\ next' = next + 1 /\ phase' = phase
  BY <1>3 DEF Execute
<1>5. CountOK'
  BY <1>1, <1>2, <1>4, CountOKKept DEF IInv, CountOK
<1>6. Counted' <=> Counted
  BY <1>2 DEF Counted, Sret
<1>7. PICK u, v : u = totals[next] /\ v = totals[next + 1]
  OBVIOUS
<1>8. /\ u \in Counts /\ v \in Counts /\ v = After(u, t)
      /\ totals[Len(sig.args) + 1] \in Counts
      /\ v.int <= totals[Len(sig.args) + 1].int /\ v.sse <= totals[Len(sig.args) + 1].sse
  <2>1. Len(totals) = Len(sig.args) + 1
    BY <1>2 DEF IInv, CountOK
  <2>2. next \in 1..(Len(totals) - 1) /\ next + 1 \in 1..Len(totals)
        /\ Len(sig.args) + 1 \in 1..Len(totals) /\ next + 1 <= Len(sig.args) + 1
        /\ next \in 1..Len(totals)
    BY <1>1, <1>2, <2>1
  <2> QED BY <1>3, <1>7, <2>2 DEF IInv, CountOK
<1>9. ASSUME Counted
      PROVE  r \in Regs /\ Holds(r, v.int, v.sse) /\ Len(r.stack) <= MaxStackSlots
  <2>1. t \in Types /\ ~InMemory(t)
    BY <1>1, <1>2, <1>3, <1>9 DEF Counted
  <2>2. regs \in Regs /\ Holds(regs, u.int, u.sse)
    BY <1>2, <1>7, <1>9 DEF IInv, PlaceOK
  <2>3. v.int = u.int + GprCount(t) /\ v.sse = u.sse + SseCount(t)
    BY <1>8 DEF After
  <2>4. next \in Nat /\ u.int \in Nat /\ u.sse \in Nat
    BY <1>2, <1>8 DEF Counts
  <2>5. r \in Regs /\ Holds(r, v.int, v.sse)
    BY <1>3, <2>1, <2>2, <2>3, <2>4, ArgHolds
  <2>6. Accepted(totals[Len(sig.args) + 1])
    BY <1>2 DEF IInv, PlaceOK
  <2>7. Over(v.int, 6) + Over(v.sse, 8) <= MaxStackSlots
    <3>1. PICK all : all = totals[Len(sig.args) + 1]
      OBVIOUS
    <3>2. /\ v.int \in Nat /\ v.sse \in Nat /\ all.int \in Nat /\ all.sse \in Nat
          /\ v.int <= all.int /\ v.sse <= all.sse
      BY <1>8, <3>1 DEF Counts
    <3>3. Over(all.int, 6) + Over(all.sse, 8) <= MaxStackSlots
      BY <2>6, <3>1 DEF Accepted
    <3>4. Over(v.int, 6) <= Over(all.int, 6) /\ Over(v.sse, 8) <= Over(all.sse, 8)
      BY <3>2 DEF Over
    <3>5. /\ Over(v.int, 6) \in Nat /\ Over(all.int, 6) \in Nat
          /\ Over(v.sse, 8) \in Nat /\ Over(all.sse, 8) \in Nat
      BY <3>2 DEF Over
    <3> QED BY <3>3, <3>4, <3>5, SlotsAssumption
  <2> QED BY <2>5, <2>7 DEF Holds
<1>10. CASE Len(r.stack) > MaxStackSlots /\ phase' = "panic"
  <2>1. ~Counted
    <3> SUFFICES ASSUME Counted PROVE FALSE
      OBVIOUS
    <3>1. Len(r.stack) \in Nat
      BY <1>9 DEF Regs
    <3> QED BY <1>9, <1>10, <3>1, SlotsAssumption
  <2> QED BY <1>5, <1>6, <1>10, <2>1 DEF IInv, PlaceOK
<1>11. CASE regs' = r /\ next' = next + 1 /\ phase' = phase
  <2>1. totals'[next'] = v
    BY <1>2, <1>7, <1>11
  <2>2. Accepted(totals'[Len(sig'.args) + 1])
    BY <1>2 DEF IInv, PlaceOK
  <2> QED BY <1>2, <1>5, <1>6, <1>9, <1>11, <2>1, <2>2 DEF IInv, PlaceOK
<1> QED BY <1>4, <1>10, <1>11

\* The rest of the call neither counts nor places.
LEMMA RestKeeps ==
  ASSUME IInv, UNCHANGED <<sig, totals, next>>, phase # "prepare",
         phase' \notin {"prepare", "place", "panic"}
  PROVE  IInv'
<1>1. next \in 1..(Len(sig.args) + 1)
  BY DEF IInv, CountOK
<1>2. CountOK'
  BY <1>1, CountOKKept DEF IInv
<1>3. PlaceOK'
  BY DEF PlaceOK
<1> QED BY <1>2, <1>3 DEF IInv

LEMMA NextKeeps == IInv /\ [Next]_vars => IInv'
<1> SUFFICES ASSUME IInv, [Next]_vars PROVE IInv'
  OBVIOUS
<1>1. ASSUME UNCHANGED callVars PROVE IInv'
  BY <1>1 DEF callVars, IInv, CountOK, PlaceOK, Counted, Sret
<1>2. CASE CallNext
  <2>1. CASE CountArg
    BY <2>1, CountArgKeeps
  <2>2. CASE Prepared
    BY <2>2, PreparedKeeps
  <2>3. CASE Execute
    BY <2>3, ExecuteKeeps
  <2>4. CASE EnterC
    BY <2>4, RestKeeps DEF EnterC
  <2>5. CASE Return
    BY <2>5, RestKeeps DEF Return
  <2> QED BY <1>2, <2>1, <2>2, <2>3, <2>4, <2>5 DEF CallNext
<1>3. CASE CCallsBack \/ GoEntered
  BY <1>1, <1>3 DEF CCallsBack, GoEntered
<1>4. CASE CReturns
  BY <1>4, RestKeeps DEF CReturns, LeaveC
<1>5. CASE GoReturns
  BY <1>5, RestKeeps DEF GoReturns, LeaveC
<1> QED BY <1>1, <1>2, <1>3, <1>4, <1>5 DEF Next, vars

\* The counting, the placing and the limit stay in step.
THEOREM Invariance == Spec => []IInv
<1> QED BY InitIInv, NextKeeps, PTL DEF Spec

\* A call PrepareCallInterface accepted does not index past the last stack slot in
\* Execute, whatever the interface, unless a struct goes through memory: what
\* classifyArgumentAMD64 counts is what Execute uses.
THEOREM AcceptedFits == Spec => []PreparedCallFits
<1>1. IInv => PreparedCallFits
  BY DEF IInv, PlaceOK, PreparedCallFits, Counted
<1> QED BY <1>1, Invariance, PTL

--------------------------------------------------------------------------------
(* Types and classes: goffi's classifiers are the ABI's.                     *)

Counters == [int : 0..6, sse : 0..8, stack : Nat]

LEMMA SameCounters ==
  ASSUME NEW u \in Counters, NEW v \in Counters,
         u.int = v.int, u.sse = v.sse, u.stack = v.stack
  PROVE  u = v
  BY DEF Counters

\* How far an argument is read.
LEMMA SizeType ==
  ASSUME NEW t \in Types
  PROVE  /\ t.size \in Nat \ {0} /\ Eightbytes(t) \in Nat \ {0}
         /\ Chunks(t) \subseteq Nat
         /\ \A k \in Chunks(t) : /\ Left(t, k) \in 1..8 /\ 8 * k < t.size
                                 /\ (t.size <= 8 => k = 0) /\ (t.size <= 16 => k \in {0, 1})
<1>1. t.size \in Nat \ {0}
  BY SizeIsPositive
<1> PICK n : n = t.size
  OBVIOUS
<1>2. (n + 7) \div 8 \in Nat \ {0} /\ \A k \in 0..((n + 7) \div 8 - 1) : 8 * k < n
  BY <1>1
<1>3. Chunks(t) = 0..((n + 7) \div 8 - 1) /\ Eightbytes(t) = (n + 7) \div 8
  BY DEF Chunks, Eightbytes
<1>4. ASSUME NEW k \in Chunks(t)
      PROVE  /\ Left(t, k) \in 1..8 /\ 8 * k < t.size
             /\ (t.size <= 8 => k = 0) /\ (t.size <= 16 => k \in {0, 1})
  <2>1. k \in Nat /\ 8 * k < n
    BY <1>2, <1>3
  <2>2. n - 8 * k \in Nat \ {0}
    BY <1>1, <2>1
  <2>3. Left(t, k) \in 1..8
    BY <2>2 DEF Left
  <2> QED BY <1>1, <2>1, <2>3
<1> QED BY <1>1, <1>2, <1>3, <1>4

\* Where an eightbyte starts, the first chunk and the second.
LEMMA ChunkNumbers ==
  ASSUME NEW t \in Types, ~InMemory(t)
  PROVE  /\ ~(IsStruct(t) /\ t.size > 8) => Eightbytes(t) = 1 /\ Chunks(t) = {0}
         /\ IsStruct(t) /\ t.size > 8 => t.size \in 9..16 /\ Eightbytes(t) = 2
                                         /\ Chunks(t) = {0, 1}
<1>1. t.size \in Nat \ {0} /\ (~IsStruct(t) => t.size <= 8)
  BY SizeIsPositive
<1>2. CASE ~(IsStruct(t) /\ t.size > 8)
  <2>1. t.size \in 1..8
    BY <1>1, <1>2
  <2> QED BY <1>2, <2>1 DEF Eightbytes, Chunks
<1>3. CASE IsStruct(t) /\ t.size > 8
  <2>1. t.size \in 9..16
    BY <1>1, <1>3 DEF InMemory
  <2> QED BY <1>3, <2>1 DEF Eightbytes, Chunks
<1> QED BY <1>2, <1>3

LEMMA Classes == ASSUME NEW t, NEW k PROVE Class(t, k) \in {"int", "sse"}
  BY DEF Class

\* The two classifiers are the ABI's on an eightbyte whose class no nested struct
\* hides.
LEMMA ClassOfEightbyte ==
  ASSUME NEW t \in Types, IsStruct(t), ~InMemory(t), ~Hides(t), NEW k \in Chunks(t),
         NEW start, NEW end,
         start = 8 * k, end \in {8 * k + 8, t.size}, t.size <= 8 * k + 8 \/ end = 8 * k + 8
  PROVE  /\ ClassifyEightbyte(t, start, end) <=> Class(t, k) = "sse"
         /\ EightbyteIsSse(t, start, end) <=> Class(t, k) = "sse"
<1>1. t.size \in Nat /\ k \in Nat /\ k \in 0..(Eightbytes(t) - 1)
  BY SizeType DEF Chunks
<1> PICK here : here = {i \in DOMAIN t.members : Offset(t.members, i) \in start..(end - 1)}
  OBVIOUS
<1>2. /\ ClassifyEightbyte(t, start, end) <=> here # {} /\ \A i \in here : IsFloat(t.members[i])
      /\ EightbyteIsSse(t, start, end) <=> here # {} /\ \A i \in here : IsFloat(t.members[i])
  BY DEF ClassifyEightbyte, EightbyteIsSse
<1>3. \A i \in DOMAIN t.members :
        /\ Offset(t.members, i) \in 0..(t.size - 1) /\ t.members[i].size \in Nat \ {0}
        /\ i \in here <=> Offset(t.members, i) \in (8 * k)..(8 * k + 7)
  <2> TAKE i \in DOMAIN t.members
  <2>1. Offset(t.members, i) \in 0..(t.size - 1) /\ t.members[i].size \in Nat \ {0}
    BY MemberSizes
  <2> QED BY <1>1, <2>1
<1>4. \A i \in DOMAIN t.members :
        IsStruct(t.members[i]) /\ Offset(t.members, i) < 8 * k + 8
            /\ Offset(t.members, i) + t.members[i].size > 8 * k
          => Class(t, k) # "sse" /\ ~(Offset(t.members, i) < 8 * k)
  BY DEF Hides
<1>5. Class(t, k) = "sse" <=>
        \A j \in DOMAIN t.leaves :
          t.leaves[j].off \in (8 * k)..(8 * k + 7) => IsFloat(t.leaves[j])
  <2>1. Class(t, k) = "sse" <=>
          \A j \in DOMAIN t.leaves :
            t.leaves[j].off < 8 * k + 8 /\ LeafEnd(t, j) > 8 * k => IsFloat(t.leaves[j])
    BY DEF Class
  <2> QED BY <1>1, <2>1, LeafEightbyte
\* The member a leaf of this eightbyte is part of overlaps the eightbyte.
<1>6. ASSUME NEW j \in DOMAIN t.leaves, t.leaves[j].off \in (8 * k)..(8 * k + 7)
      PROVE  \E i \in DOMAIN t.members :
               /\ Offset(t.members, i) < 8 * k + 8
               /\ Offset(t.members, i) + t.members[i].size > 8 * k
               /\ ~IsStruct(t.members[i]) => /\ i \in here
                                             /\ t.leaves[j].kind = t.members[i].kind
  <2>1. PICK i \in DOMAIN t.members :
          /\ Offset(t.members, i) <= t.leaves[j].off
          /\ LeafEnd(t, j) <= Offset(t.members, i) + t.members[i].size
          /\ ~IsStruct(t.members[i]) => /\ t.leaves[j].kind = t.members[i].kind
                                        /\ t.leaves[j].off = Offset(t.members, i)
    BY LeafOwner
  <2>2. PICK o, n, x, y : /\ o = Offset(t.members, i) /\ n = t.members[i].size
                         /\ x = t.leaves[j].off /\ y = LeafEnd(t, j)
    OBVIOUS
  <2>3. o \in Nat /\ n \in Nat /\ x \in (8 * k)..(8 * k + 7) /\ y \in Nat /\ y >= x + 1
    BY <1>1, <1>3, <1>6, <2>2, LeafEightbyte
  <2>4. o < 8 * k + 8 /\ o + n > 8 * k
    BY <1>1, <2>1, <2>2, <2>3
  <2> QED BY <1>3, <1>6, <2>1, <2>2, <2>4
<1>7. ASSUME here # {}, \A i \in here : IsFloat(t.members[i])
      PROVE  Class(t, k) = "sse"
  <2> SUFFICES ASSUME NEW j \in DOMAIN t.leaves, t.leaves[j].off \in (8 * k)..(8 * k + 7)
               PROVE  IsFloat(t.leaves[j])
    BY <1>5
  <2>1. PICK i \in DOMAIN t.members :
          /\ Offset(t.members, i) < 8 * k + 8
          /\ Offset(t.members, i) + t.members[i].size > 8 * k
          /\ ~IsStruct(t.members[i]) => i \in here /\ t.leaves[j].kind = t.members[i].kind
    BY <1>6
  <2>2. CASE ~IsStruct(t.members[i])
    BY <1>7, <2>1, <2>2 DEF IsFloat
  <2>3. CASE IsStruct(t.members[i])
    <3>1. ~(Offset(t.members, i) < 8 * k)
      BY <1>4, <2>1, <2>3
    <3>2. i \in here
      BY <1>1, <1>3, <2>1, <3>1
    <3> QED BY <1>7, <2>3, <3>2 DEF IsFloat, IsStruct
  <2> QED BY <2>2, <2>3
<1>8. ASSUME Class(t, k) = "sse"
      PROVE  here # {} /\ \A i \in here : IsFloat(t.members[i])
  <2>1. PICK j \in DOMAIN t.leaves : t.leaves[j].off \div 8 = k
    BY <1>1, TypesAssumption
  <2>2. t.leaves[j].off \in (8 * k)..(8 * k + 7)
    <3>1. PICK off : off = t.leaves[j].off
      OBVIOUS
    <3>2. off \in Nat /\ off \div 8 = k
      BY <1>1, <2>1, <3>1, LeafEightbyte
    <3>3. off \in (8 * k)..(8 * k + 7)
      BY <1>1, <3>2
    <3> QED BY <3>1, <3>3
  <2>3. here # {}
    BY <1>4, <1>6, <1>8, <2>2
  <2>4. ASSUME NEW i \in here PROVE IsFloat(t.members[i])
    <3>1. PICK o, n : o = Offset(t.members, i) /\ n = t.members[i].size
      OBVIOUS
    <3>2. o \in (8 * k)..(8 * k + 7) /\ n \in Nat \ {0} /\ i \in DOMAIN t.members
      BY <1>3, <3>1
    <3>3. o < 8 * k + 8 /\ o + n > 8 * k
      BY <1>1, <3>2
    <3>4. ~IsStruct(t.members[i])
      BY <1>4, <1>8, <3>1, <3>2, <3>3
    <3>5. PICK l \in DOMAIN t.leaves : t.leaves[l].kind = t.members[i].kind /\ t.leaves[l].off = o
      BY <3>1, <3>2, <3>4, ScalarLeaf
    <3>6. IsFloat(t.leaves[l])
      BY <1>5, <1>8, <3>2, <3>5
    <3> QED BY <3>5, <3>6 DEF IsFloat
  <2> QED BY <2>3, <2>4
<1> QED BY <1>2, <1>7, <1>8

\* callbackWrap's isStructAllFloats is the ABI's rule for one eightbyte; the call
\* path's is, where no nested struct hides the class.
LEMMA ClassOfSmall ==
  ASSUME NEW t \in Types, IsStruct(t), t.size <= 8
  PROVE  /\ AllFloats(t) <=> Class(t, 0) = "sse"
         /\ ~Hides(t) => (IsStructAllFloats(t) <=> Class(t, 0) = "sse")
<1>1. t.size \in 1..8 /\ ~InMemory(t)
  BY SizeIsPositive DEF InMemory
<1>2. 0 \in Chunks(t) /\ Eightbytes(t) = 1
  BY <1>1 DEF Chunks, Eightbytes
<1>3. t.leaves # <<>> /\ DOMAIN t.members # {}
  <2>1. 0 \in 0..(Eightbytes(t) - 1)
    BY <1>2
  <2>2. PICK j \in DOMAIN t.leaves : t.leaves[j].off \div 8 = 0
    BY <2>1, TypesAssumption
  <2> QED BY <2>2, LeafOwner
<1>4. AllFloats(t) <=> Class(t, 0) = "sse"
  <2>1. Class(t, 0) = "sse" <=>
          \A j \in DOMAIN t.leaves :
            t.leaves[j].off < 8 * 0 + 8 /\ LeafEnd(t, j) > 8 * 0 => IsFloat(t.leaves[j])
    BY DEF Class
  <2>2. \A j \in DOMAIN t.leaves : t.leaves[j].off < 8 * 0 + 8 /\ LeafEnd(t, j) > 8 * 0
    BY <1>1, LeafEightbyte
  <2> QED BY <1>3, <2>1, <2>2 DEF AllFloats
<1>5. ASSUME ~Hides(t) PROVE IsStructAllFloats(t) <=> Class(t, 0) = "sse"
  <2>1. ClassifyEightbyte(t, 0, 8) <=> Class(t, 0) = "sse"
    BY <1>1, <1>2, <1>5, ClassOfEightbyte
  <2>2. PICK here : here = {i \in DOMAIN t.members : Offset(t.members, i) \in 0..(8 - 1)}
    OBVIOUS
  <2>3. \A i \in DOMAIN t.members : Offset(t.members, i) \in 0..(t.size - 1)
    BY MemberSizes
  <2>4. here = DOMAIN t.members
    BY <1>1, <2>2, <2>3
  <2>5. ClassifyEightbyte(t, 0, 8) <=> here # {} /\ \A i \in here : IsFloat(t.members[i])
    BY <2>2 DEF ClassifyEightbyte
  <2>6. t.members # <<>>
    BY <1>3
  <2> QED BY <1>3, <2>1, <2>4, <2>5, <2>6 DEF IsStructAllFloats
<1> QED BY <1>4, <1>5

LEMMA ClassOfPair ==
  ASSUME NEW t \in Types, IsStruct(t), t.size \in 9..16, ~Hides(t)
  PROVE  /\ ClassifyEightbyte(t, 0, 8) <=> Class(t, 0) = "sse"
         /\ ClassifyEightbyte(t, 8, t.size) <=> Class(t, 1) = "sse"
         /\ EightbyteIsSse(t, 0, 8) <=> Class(t, 0) = "sse"
         /\ EightbyteIsSse(t, 8, t.size) <=> Class(t, 1) = "sse"
<1>1. Eightbytes(t) = 2 /\ ~InMemory(t)
  BY DEF Eightbytes, InMemory
<1>2. 0 \in Chunks(t) /\ 1 \in Chunks(t)
  BY <1>1 DEF Chunks
<1>3. 0 = 8 * 0 /\ 8 = 8 * 0 + 8 /\ 8 = 8 * 1 /\ t.size <= 8 * 1 + 8
  OBVIOUS
<1>4. /\ ClassifyEightbyte(t, 0, 8) <=> Class(t, 0) = "sse"
      /\ EightbyteIsSse(t, 0, 8) <=> Class(t, 0) = "sse"
  BY <1>1, <1>2, <1>3, ClassOfEightbyte
<1>5. /\ ClassifyEightbyte(t, 8, t.size) <=> Class(t, 1) = "sse"
      /\ EightbyteIsSse(t, 8, t.size) <=> Class(t, 1) = "sse"
  BY <1>1, <1>2, <1>3, ClassOfEightbyte
<1> QED BY <1>4, <1>5

LEMMA ClassOfScalar ==
  ASSUME NEW t \in Types, ~IsStruct(t)
  PROVE  IsFloat(t) <=> Class(t, 0) = "sse"
  BY DEF Class

\* The ABI's counts over the eightbytes of an argument.
LEMMA CountFacts ==
  ASSUME NEW t, NEW c
  PROVE  /\ Count(t, 0, c) = 0
         /\ Count(t, 1, c) = IF Class(t, 0) = c THEN 1 ELSE 0
         /\ Count(t, 2, c) = (IF Class(t, 0) = c THEN 1 ELSE 0)
                               + (IF Class(t, 1) = c THEN 1 ELSE 0)
<1>1. Cardinality({}) = 0 /\ \A x : Cardinality({x}) = 1
  BY FS_EmptySet, FS_Singleton
<1>2. Cardinality({0, 1}) = 2
  <2>1. {0, 1} = {0} \cup {1}
    OBVIOUS
  <2>2. IsFiniteSet({0}) /\ 1 \notin {0} /\ Cardinality({0}) = 1
    BY <1>1, FS_Singleton
  <2>3. Cardinality({0} \cup {1}) = Cardinality({0}) + 1
    BY <2>2, FS_AddElement
  <2> QED BY <2>1, <2>2, <2>3
<1>3. Count(t, 0, c) = 0
  <2>1. {j \in 0..(0 - 1) : Class(t, j) = c} = {}
    OBVIOUS
  <2> QED BY <1>1, <2>1 DEF Count
<1>4. Count(t, 1, c) = IF Class(t, 0) = c THEN 1 ELSE 0
  <2>1. {j \in 0..(1 - 1) : Class(t, j) = c} = IF Class(t, 0) = c THEN {0} ELSE {}
    OBVIOUS
  <2> QED BY <1>1, <2>1 DEF Count
<1>5. Count(t, 2, c) = (IF Class(t, 0) = c THEN 1 ELSE 0) + (IF Class(t, 1) = c THEN 1 ELSE 0)
  <2>0. 0..(2 - 1) = {0, 1}
    OBVIOUS
  <2>1. PICK S : S = {j \in 0..(2 - 1) : Class(t, j) = c}
    OBVIOUS
  <2>2. /\ Class(t, 0) = c /\ Class(t, 1) = c => S = {0, 1}
        /\ Class(t, 0) = c /\ Class(t, 1) # c => S = {0}
        /\ Class(t, 0) # c /\ Class(t, 1) = c => S = {1}
        /\ Class(t, 0) # c /\ Class(t, 1) # c => S = {}
    BY <2>0, <2>1
  <2>3. Count(t, 2, c) = Cardinality(S)
    BY <2>1 DEF Count
  <2>4. CASE Class(t, 0) = c /\ Class(t, 1) = c
    BY <1>2, <2>2, <2>3, <2>4
  <2>5. CASE Class(t, 0) = c /\ Class(t, 1) # c
    BY <1>1, <2>2, <2>3, <2>5
  <2>6. CASE Class(t, 0) # c /\ Class(t, 1) = c
    BY <1>1, <2>2, <2>3, <2>6
  <2>7. CASE Class(t, 0) # c /\ Class(t, 1) # c
    BY <1>1, <2>2, <2>3, <2>7
  <2> QED BY <2>4, <2>5, <2>6, <2>7
<1> QED BY <1>3, <1>4, <1>5

--------------------------------------------------------------------------------
(* goffi's places, eightbyte by eightbyte.                                  *)

\* Registers and stack slots that u counts are used: where the next eightbyte of
\* class c goes, and what is used then.
Slot(u, c) == IF c = "sse"
              THEN IF u.sse < 8 THEN <<"sse", u.sse + 1>> ELSE <<"stack", u.stack + 1>>
              ELSE IF u.int < 6 THEN <<"int", u.int + 1>> ELSE <<"stack", u.stack + 1>>
Bump(u, c) == IF c = "sse"
              THEN IF u.sse < 8 THEN [u EXCEPT !.sse = @ + 1] ELSE [u EXCEPT !.stack = @ + 1]
              ELSE IF u.int < 6 THEN [u EXCEPT !.int = @ + 1] ELSE [u EXCEPT !.stack = @ + 1]

\* A rule says which eightbytes are floats: the call path's, callbackWrap's, and
\* the ABI's.  goffi's two are not the same and neither is the ABI's.
CallSse(t, k) ==
  IF ~IsStruct(t) THEN IsFloat(t)
  ELSE IF t.size <= 8 THEN IsStructAllFloats(t)
  ELSE IF k = 0 THEN ClassifyEightbyte(t, 0, 8) ELSE ClassifyEightbyte(t, 8, t.size)
CbSse(t, k) ==
  IF ~IsStruct(t) THEN IsFloat(t)
  ELSE IF t.size <= 8 THEN AllFloats(t)
  ELSE IF k = 0 THEN EightbyteIsSse(t, 0, 8) ELSE EightbyteIsSse(t, 8, t.size)
CallRule == {p \in Types \X {0, 1} : CallSse(p[1], p[2])}
CbRule == {p \in Types \X {0, 1} : CbSse(p[1], p[2])}
AbiRule == {p \in Types \X {0, 1} : Class(p[1], p[2]) = "sse"}
GoClass(F, t, k) == IF <<t, k>> \in F THEN "sse" ELSE "int"

LEMMA GoClasses == ASSUME NEW F, NEW t, NEW k PROVE GoClass(F, t, k) \in {"int", "sse"}
  BY DEF GoClass

LEMMA CallClass ==
  ASSUME NEW t \in Types, NEW k \in {0, 1}
  PROVE  GoClass(CallRule, t, k) = "sse" <=> CallSse(t, k)
  BY DEF GoClass, CallRule

LEMMA CbClass ==
  ASSUME NEW t \in Types, NEW k \in {0, 1}
  PROVE  GoClass(CbRule, t, k) = "sse" <=> CbSse(t, k)
  BY DEF GoClass, CbRule

LEMMA AbiClass ==
  ASSUME NEW t \in Types, NEW k \in {0, 1}
  PROVE  GoClass(AbiRule, t, k) = Class(t, k)
<1>1. <<t, k>> \in AbiRule <=> Class(t, k) = "sse"
  BY DEF AbiRule
<1> QED BY <1>1, Classes DEF GoClass

\* An argument as goffi passes it by rule F, eightbyte by eightbyte: what is used
\* after it, and where its eightbyte k is.
GoUse(F, t, u) ==
  IF InMemory(t) THEN [u EXCEPT !.stack = @ + Eightbytes(t)]
  ELSE IF Eightbytes(t) = 1 THEN Bump(u, GoClass(F, t, 0))
  ELSE Bump(Bump(u, GoClass(F, t, 0)), GoClass(F, t, 1))
GoPlace(F, t, u, k) ==
  IF InMemory(t) THEN <<"stack", u.stack + k + 1>>
  ELSE IF k = 0 THEN Slot(u, GoClass(F, t, 0))
  ELSE Slot(Bump(u, GoClass(F, t, 0)), GoClass(F, t, 1))

Kinds == {"int", "sse", "stack"}
LEMMA BumpType ==
  ASSUME NEW u \in Counters, NEW c
  PROVE  /\ Bump(u, c) \in Counters
         /\ Bump(u, c).int = IF c # "sse" /\ u.int < 6 THEN u.int + 1 ELSE u.int
         /\ Bump(u, c).sse = IF c = "sse" /\ u.sse < 8 THEN u.sse + 1 ELSE u.sse
         /\ Bump(u, c).stack = IF (c # "sse" /\ u.int >= 6) \/ (c = "sse" /\ u.sse >= 8)
                               THEN u.stack + 1 ELSE u.stack
  BY DEF Bump, Counters

LEMMA GoUseType ==
  ASSUME NEW F, NEW t \in Types, NEW u \in Counters
  PROVE  GoUse(F, t, u) \in Counters
<1>1. CASE InMemory(t)
  <2>1. Eightbytes(t) \in Nat
    BY SizeType
  <2> QED BY <1>1, <2>1 DEF GoUse, Counters
<1>2. CASE ~InMemory(t)
  <2>1. Bump(u, GoClass(F, t, 0)) \in Counters
    BY BumpType
  <2>2. Bump(Bump(u, GoClass(F, t, 0)), GoClass(F, t, 1)) \in Counters
    BY <2>1, BumpType
  <2> QED BY <1>2, <2>1, <2>2 DEF GoUse
<1> QED BY <1>1, <1>2

\* What is used is never freed, and the places of an argument are new ones.
Below(u, v) == u.int <= v.int /\ u.sse <= v.sse /\ u.stack <= v.stack
LEMMA GoUseGrows ==
  ASSUME NEW F, NEW t \in Types, NEW u \in Counters
  PROVE  Below(u, GoUse(F, t, u))
<1>1. CASE InMemory(t)
  <2>1. Eightbytes(t) \in Nat
    BY SizeType
  <2> QED BY <1>1, <2>1 DEF GoUse, Counters, Below
<1>2. CASE ~InMemory(t)
  <2>1. PICK v : v = Bump(u, GoClass(F, t, 0))
    OBVIOUS
  <2>2. v \in Counters /\ Below(u, v)
    BY <2>1, BumpType DEF Below, Counters
  <2>3. PICK w : w = Bump(v, GoClass(F, t, 1))
    OBVIOUS
  <2>4. w \in Counters /\ Below(v, w)
    BY <2>2, <2>3, BumpType DEF Below, Counters
  <2>5. Below(u, w)
    BY <2>2, <2>4 DEF Below, Counters
  <2> QED BY <1>2, <2>1, <2>2, <2>3, <2>5 DEF GoUse
<1> QED BY <1>1, <1>2
--------------------------------------------------------------------------------
\* What is at a place.
Look(r, place) == LET held == r[place[1]]
                  IN  IF place[2] \in DOMAIN held THEN held[place[2]] ELSE Unset
RegsAt(r, u) == /\ r \in Regs
                /\ Len(r.int) = u.int /\ Len(r.sse) = u.sse /\ Len(r.stack) = u.stack
\* s holds what r holds, and perhaps more.
Extends(s, r) == \A x \in Kinds : \A j \in DOMAIN r[x] : j \in DOMAIN s[x] /\ s[x][j] = r[x][j]

LEMMA AppendWord ==
  ASSUME NEW s \in Seq(Word), NEW w \in Word
  PROVE  /\ Append(s, w) \in Seq(Word) /\ Len(Append(s, w)) = Len(s) + 1
         /\ Len(s) + 1 \in DOMAIN Append(s, w) /\ Append(s, w)[Len(s) + 1] = w
         /\ \A j \in DOMAIN s : j \in DOMAIN Append(s, w) /\ Append(s, w)[j] = s[j]
<1>1. /\ Append(s, w) \in Seq(Word) /\ Len(Append(s, w)) = Len(s) + 1
      /\ Append(s, w)[Len(s) + 1] = w
      /\ \A j \in 1..Len(s) : Append(s, w)[j] = s[j]
  BY AppendProperties
<1>2. Len(s) \in Nat /\ DOMAIN s = 1..Len(s)
  OBVIOUS
<1>3. DOMAIN Append(s, w) = 1..(Len(s) + 1)
  BY <1>1
<1> QED BY <1>1, <1>2, <1>3

LEMMA AddWord ==
  ASSUME NEW u \in Counters, NEW r, RegsAt(r, u), NEW w \in Word, NEW c \in {"int", "sse"},
         NEW s, s = Add(r, c = "sse", w)
  PROVE  /\ RegsAt(s, Bump(u, c)) /\ Extends(s, r)
         /\ Look(s, Slot(u, c)) = w
<1>1. r.int \in Seq(Word) /\ r.sse \in Seq(Word) /\ r.stack \in Seq(Word)
  BY DEF RegsAt, Regs
<1>2. PICK i, f, k : i = Append(r.int, w) /\ f = Append(r.sse, w) /\ k = Append(r.stack, w)
  OBVIOUS
<1>3. /\ i \in Seq(Word) /\ Len(i) = Len(r.int) + 1
      /\ Len(r.int) + 1 \in DOMAIN i /\ i[Len(r.int) + 1] = w
      /\ \A j \in DOMAIN r.int : j \in DOMAIN i /\ i[j] = r.int[j]
  BY <1>1, <1>2, AppendWord
<1>4. /\ f \in Seq(Word) /\ Len(f) = Len(r.sse) + 1
      /\ Len(r.sse) + 1 \in DOMAIN f /\ f[Len(r.sse) + 1] = w
      /\ \A j \in DOMAIN r.sse : j \in DOMAIN f /\ f[j] = r.sse[j]
  BY <1>1, <1>2, AppendWord
<1>5. /\ k \in Seq(Word) /\ Len(k) = Len(r.stack) + 1
      /\ Len(r.stack) + 1 \in DOMAIN k /\ k[Len(r.stack) + 1] = w
      /\ \A j \in DOMAIN r.stack : j \in DOMAIN k /\ k[j] = r.stack[j]
  BY <1>1, <1>2, AppendWord
<1>6. r \in Regs /\ Len(r.int) = u.int /\ Len(r.sse) = u.sse /\ Len(r.stack) = u.stack
  BY DEF RegsAt
<1>7. CASE c = "int" /\ u.int < 6
  <2>1. s = [r EXCEPT !.int = i]
    BY <1>2, <1>6, <1>7 DEF Add, AddInt
  <2>2. s \in Regs /\ s.int = i /\ s.sse = r.sse /\ s.stack = r.stack
    BY <1>3, <1>6, <2>1 DEF Regs
  <2>3. RegsAt(s, Bump(u, c))
    BY <1>3, <1>6, <1>7, <2>2, BumpType DEF RegsAt
  <2>4. Extends(s, r)
    BY <1>3, <2>2 DEF Extends, Kinds
  <2>5. Slot(u, c) = <<"int", u.int + 1>>
    BY <1>7 DEF Slot
  <2> QED BY <1>3, <1>6, <2>2, <2>3, <2>4, <2>5 DEF Look
<1>8. CASE c = "sse" /\ u.sse < 8
  <2>1. s = [r EXCEPT !.sse = f]
    BY <1>2, <1>6, <1>8 DEF Add, AddFloat
  <2>2. s \in Regs /\ s.int = r.int /\ s.sse = f /\ s.stack = r.stack
    BY <1>4, <1>6, <2>1 DEF Regs
  <2>3. RegsAt(s, Bump(u, c))
    BY <1>4, <1>6, <1>8, <2>2, BumpType DEF RegsAt
  <2>4. Extends(s, r)
    BY <1>4, <2>2 DEF Extends, Kinds
  <2>5. Slot(u, c) = <<"sse", u.sse + 1>>
    BY <1>8 DEF Slot
  <2> QED BY <1>4, <1>6, <2>2, <2>3, <2>4, <2>5 DEF Look
<1>9. CASE ~(c = "int" /\ u.int < 6) /\ ~(c = "sse" /\ u.sse < 8)
  <2>1. s = [r EXCEPT !.stack = k]
    BY <1>2, <1>6, <1>9 DEF Add, AddInt, AddFloat, AddStack
  <2>2. s \in Regs /\ s.int = r.int /\ s.sse = r.sse /\ s.stack = k
    BY <1>5, <1>6, <2>1 DEF Regs
  <2>3. Bump(u, c).int = u.int /\ Bump(u, c).sse = u.sse /\ Bump(u, c).stack = u.stack + 1
    BY <1>9, BumpType DEF Counters
  <2>4. RegsAt(s, Bump(u, c))
    BY <1>5, <1>6, <2>2, <2>3 DEF RegsAt
  <2>5. Extends(s, r)
    BY <1>5, <2>2 DEF Extends, Kinds
  <2>6. Slot(u, c) = <<"stack", u.stack + 1>>
    BY <1>9 DEF Slot
  <2> QED BY <1>5, <1>6, <2>2, <2>4, <2>5, <2>6 DEF Look
<1> QED BY <1>7, <1>8, <1>9

LEMMA ExtendsTwice ==
  ASSUME NEW r, NEW s, NEW q, Extends(s, r), Extends(q, s)
  PROVE  Extends(q, r)
  BY DEF Extends

\* A word that carries something stays where it is.
LEMMA CarriesStays ==
  ASSUME NEW r, NEW s, Extends(s, r), NEW place, place[1] \in Kinds,
         NEW i, NEW t, NEW k, Carries(Look(r, place), i, t, k)
  PROVE  Carries(Look(s, place), i, t, k)
<1>1. place[2] \in DOMAIN r[place[1]]
  BY DEF Look, Carries, Unset
<1>2. Look(s, place) = Look(r, place)
  BY <1>1 DEF Look, Extends
<1> QED BY <1>2

LEMMA PlaceKind ==
  ASSUME NEW F, NEW t, NEW u, NEW k
  PROVE  GoPlace(F, t, u, k)[1] \in Kinds
  BY DEF GoPlace, Slot, Kinds

\* What is read of an eightbyte is all of it.
LEMMA ReadsAll ==
  ASSUME NEW t \in Types, NEW i \in Nat, NEW k \in Chunks(t)
  PROVE  /\ Bytes(i, 8 * k, 8) \in Word /\ Carries(Bytes(i, 8 * k, 8), i, t, k)
         /\ LET w == Bytes(i, 8 * k, ReadLen(Left(t, k)))
            IN  w \in Word /\ Carries(w, i, t, k)
<1>1. k \in Nat /\ Left(t, k) \in 1..8
  BY SizeType
<1>2. PICK n \in 1..8 : n = Left(t, k)
  BY <1>1
<1>3. ReadLen(n) \in Nat /\ ReadLen(n) >= n
  BY DEF ReadLen
<1>4. 8 * k \in Nat /\ 8 \in Nat
  BY <1>1
<1>5. ASSUME NEW len \in Nat, len >= n
      PROVE  Bytes(i, 8 * k, len) \in Word /\ Carries(Bytes(i, 8 * k, len), i, t, k)
  BY <1>2, <1>4, <1>5 DEF Bytes, Word, Carries
<1> QED BY <1>2, <1>3, <1>5

\* Execute puts a struct in memory on the stack.
LEMMA MemoryArrives ==
  ASSUME NEW F, NEW t \in Types, InMemory(t), NEW i \in Nat, NEW u \in Counters,
         NEW r, RegsAt(r, u), NEW q, q = PlaceArg(r, i, t)
  PROVE  /\ RegsAt(q, GoUse(F, t, u)) /\ Extends(q, r)
         /\ \A k \in Chunks(t) : Carries(Look(q, GoPlace(F, t, u, k)), i, t, k)
<1>1. t.size \in Nat \ {0} /\ IsStruct(t) /\ t.size > 16
  BY SizeType DEF InMemory
<1>2. q = PlaceMemory(r, i, t)
  BY <1>1 DEF PlaceArg
<1>3. PICK n \in Nat \ {0} : n = Eightbytes(t)
  BY SizeType
<1> DEFINE word(k) == Bytes(i, 8 * (k - 1), ReadLen(Left(t, k - 1)))
<1>4. PICK ws : ws = [k \in 1..n |-> word(k)]
  OBVIOUS
<1>5. \A k \in 1..n : k - 1 \in Chunks(t) /\ word(k) \in Word /\ Carries(word(k), i, t, k - 1)
  <2> SUFFICES ASSUME NEW k \in 1..n
               PROVE  k - 1 \in Chunks(t) /\ word(k) \in Word /\ Carries(word(k), i, t, k - 1)
    OBVIOUS
  <2>1. k - 1 \in Chunks(t)
    BY <1>3 DEF Chunks
  <2> QED BY <2>1, ReadsAll
<1> HIDE DEF word
<1>6. ws \in Seq(Word) /\ Len(ws) = n
  BY <1>4, <1>5
<1>7. r.stack \in Seq(Word) /\ r \in Regs /\ Len(r.stack) = u.stack /\ Len(r.stack) \in Nat
  BY DEF RegsAt, Regs
<1>8. PICK st : st = r.stack \o ws
  OBVIOUS
<1>9. /\ st \in Seq(Word) /\ Len(st) = Len(r.stack) + n
      /\ \A j \in 1..(Len(r.stack) + n) :
           st[j] = IF j <= Len(r.stack) THEN r.stack[j] ELSE ws[j - Len(r.stack)]
  <2>1. st \in Seq(Word) /\ Len(st) = Len(r.stack) + Len(ws)
    BY <1>6, <1>7, <1>8, ConcatProperties
  <2>2. \A j \in 1..(Len(r.stack) + Len(ws)) :
          st[j] = IF j <= Len(r.stack) THEN r.stack[j] ELSE ws[j - Len(r.stack)]
    BY <1>6, <1>7, <1>8, ConcatProperties
  <2> QED BY <1>6, <2>1, <2>2
<1>10. q = [r EXCEPT !.stack = st]
  BY <1>2, <1>3, <1>4, <1>8 DEF PlaceMemory, word
<1>11. q \in Regs /\ q.int = r.int /\ q.sse = r.sse /\ q.stack = st
  BY <1>7, <1>9, <1>10 DEF Regs
<1>12. RegsAt(q, GoUse(F, t, u))
  <2>1. GoUse(F, t, u) = [u EXCEPT !.stack = @ + n]
    BY <1>3 DEF GoUse
  <2>2. PICK v : v = [u EXCEPT !.stack = @ + n]
    OBVIOUS
  <2>3. v.int = u.int /\ v.sse = u.sse /\ v.stack = u.stack + n
    BY <2>2 DEF Counters
  <2>4. Len(q.int) = Len(r.int) /\ Len(q.sse) = Len(r.sse) /\ Len(q.stack) = u.stack + n
    BY <1>7, <1>9, <1>11
  <2>5. RegsAt(q, v)
    BY <1>11, <2>3, <2>4 DEF RegsAt
  <2> QED BY <2>1, <2>2, <2>5
<1>13. DOMAIN st = 1..(Len(r.stack) + n) /\ DOMAIN r.stack = 1..Len(r.stack)
  BY <1>7, <1>9
<1>14. Extends(q, r)
  <2>1. \A j \in DOMAIN r.stack : j \in DOMAIN st /\ st[j] = r.stack[j]
    <3>1. PICK l : l = Len(r.stack)
      OBVIOUS
    <3>2. l \in Nat /\ \A j \in 1..l : j \in 1..(l + n) /\ j <= l
      BY <1>7, <3>1
    <3> QED BY <1>9, <1>13, <3>1, <3>2
  <2> QED BY <1>11, <2>1 DEF Extends, Kinds
<1>15. ASSUME NEW k \in Chunks(t)
       PROVE  Carries(Look(q, GoPlace(F, t, u, k)), i, t, k)
  <2>1. k \in 0..(n - 1) /\ GoPlace(F, t, u, k) = <<"stack", Len(r.stack) + k + 1>>
    BY <1>3, <1>7 DEF GoPlace, Chunks
  <2>2. st[Len(r.stack) + k + 1] = ws[k + 1] /\ Len(r.stack) + k + 1 \in DOMAIN st
    <3>1. PICK l : l = Len(r.stack)
      OBVIOUS
    <3>2. PICK j : j = l + k + 1
      OBVIOUS
    <3>3. l \in Nat /\ k \in 0..(n - 1)
      BY <1>7, <2>1, <3>1
    <3>4. j \in 1..(l + n) /\ ~(j <= l) /\ j - l = k + 1
      BY <3>2, <3>3
    <3>5. st[j] = ws[k + 1]
      BY <1>9, <3>1, <3>4
    <3> QED BY <1>13, <3>1, <3>2, <3>4, <3>5
  <2>3. k + 1 \in 1..n /\ (k + 1) - 1 = k
    BY <2>1
  <2>4. Carries(ws[k + 1], i, t, k)
    BY <1>4, <1>5, <2>3
  <2> QED BY <1>11, <2>1, <2>2, <2>4 DEF Look
<1> QED BY <1>12, <1>14, <1>15

\* Execute puts an argument where goffi's counters say, and leaves the others.
LEMMA ArgArrives ==
  ASSUME NEW t \in Types, NEW i \in Nat, NEW u \in Counters,
         NEW r, RegsAt(r, u), NEW q, q = PlaceArg(r, i, t)
  PROVE  /\ RegsAt(q, GoUse(CallRule, t, u)) /\ Extends(q, r)
         /\ t.kind # "int" =>
              \A k \in Chunks(t) : Carries(Look(q, GoPlace(CallRule, t, u, k)), i, t, k)
<1>1. CASE InMemory(t)
  BY <1>1, MemoryArrives
<1>2. CASE ~InMemory(t) /\ ~(IsStruct(t) /\ t.size > 8)
  <2>1. Chunks(t) = {0} /\ Eightbytes(t) = 1 /\ Left(t, 0) \in 1..8 /\ t.size \in 1..8
    <3>1. Chunks(t) = {0} /\ Eightbytes(t) = 1
      BY <1>2, ChunkNumbers
    <3>2. Left(t, 0) \in 1..8 /\ t.size \in Nat \ {0}
      BY <3>1, SizeType
    <3> QED BY <1>2, <3>1, <3>2, SizeIsPositive
  <2>2. PICK c \in {"int", "sse"} : c = GoClass(CallRule, t, 0)
    BY GoClasses
  <2>3. \E w \in Word : /\ q = Add(r, c = "sse", w)
                        /\ t.kind # "int" => Carries(w, i, t, 0)
    <3>1. Bytes(i, 0, 8) \in Word /\ Carries(Bytes(i, 0, 8), i, t, 0)
      <4>1. Bytes(i, 8 * 0, 8) \in Word /\ Carries(Bytes(i, 8 * 0, 8), i, t, 0)
        BY <2>1, ReadsAll
      <4> QED BY <4>1
    <3>2. Left(t, 0) = t.size
      BY <2>1 DEF Left
    <3>3. PICK n \in 1..8 : n = t.size
      BY <2>1
    <3>4. /\ Bytes(i, 0, n) \in Word /\ Carries(Bytes(i, 0, n), i, t, 0)
          /\ Bytes(i, 0, ReadLen(n)) \in Word /\ Carries(Bytes(i, 0, ReadLen(n)), i, t, 0)
      <4>1. ReadLen(n) \in Nat /\ ReadLen(n) >= n
        BY DEF ReadLen
      <4> QED BY <3>2, <3>3, <4>1 DEF Bytes, Word, Carries
    <3>5. CASE ~IsStruct(t)
      <4>1. c = "sse" <=> IsFloat(t)
        BY <2>2, <3>5, CallClass DEF CallSse
      <4>2. q = PlaceScalar(r, i, t)
        BY <3>5 DEF PlaceArg
      <4>3. CASE IsFloat(t)
        <5>1. q = AddFloat(r, Bytes(i, 0, n))
          BY <3>3, <4>2, <4>3 DEF PlaceScalar, IsFloat
        <5> QED BY <3>4, <4>1, <4>3, <5>1 DEF Add
      <4>4. CASE t.kind = "int"
        <5>1. q = AddInt(r, AddressOf(i)) /\ ~IsFloat(t)
          BY <4>2, <4>4 DEF PlaceScalar, IsFloat
        <5> QED BY <4>1, <4>4, <5>1, WordsAreWords DEF Add
      <4>5. CASE ~IsFloat(t) /\ t.kind # "int"
        <5>1. q = AddInt(r, Bytes(i, 0, n))
          BY <3>3, <4>2, <4>5 DEF PlaceScalar
        <5> QED BY <3>4, <4>1, <4>5, <5>1 DEF Add
      <4> QED BY <4>3, <4>4, <4>5
    <3>6. CASE IsStruct(t)
      <4>1. q = PlaceSmall(r, i, t)
        BY <1>2, <3>6, <2>1 DEF PlaceArg
      <4>2. c = "sse" <=> IsStructAllFloats(t)
        BY <2>1, <2>2, <3>6, CallClass DEF CallSse
      <4>3. CASE IsStructAllFloats(t)
        <5>1. q = AddFloat(r, Bytes(i, 0, 8))
          BY <4>1, <4>3 DEF PlaceSmall
        <5> QED BY <3>1, <4>2, <4>3, <5>1 DEF Add
      <4>4. CASE ~IsStructAllFloats(t)
        <5>1. q = AddInt(r, Bytes(i, 0, ReadLen(n)))
          BY <3>3, <4>1, <4>4 DEF PlaceSmall
        <5> QED BY <3>4, <4>2, <4>4, <5>1 DEF Add
      <4> QED BY <4>3, <4>4
    <3> QED BY <3>5, <3>6
  <2>4. PICK w \in Word : /\ q = Add(r, c = "sse", w)
                          /\ t.kind # "int" => Carries(w, i, t, 0)
    BY <2>3
  <2>5. GoUse(CallRule, t, u) = Bump(u, c) /\ GoPlace(CallRule, t, u, 0) = Slot(u, c)
    BY <1>2, <2>1, <2>2 DEF GoUse, GoPlace
  <2>6. RegsAt(q, Bump(u, c)) /\ Extends(q, r) /\ Look(q, Slot(u, c)) = w
    BY <2>4, AddWord
  <2> QED BY <2>1, <2>4, <2>5, <2>6
<1>3. CASE ~InMemory(t) /\ IsStruct(t) /\ t.size > 8
  <2>1. Chunks(t) = {0, 1} /\ Eightbytes(t) = 2 /\ t.size \in 9..16
    BY <1>3, ChunkNumbers
  <2>2. PICK c \in {"int", "sse"}, d \in {"int", "sse"} :
          c = GoClass(CallRule, t, 0) /\ d = GoClass(CallRule, t, 1)
    BY GoClasses
  <2>3. PICK w1, w2 : w1 = Bytes(i, 0, 8) /\ w2 = Bytes(i, 8, ReadLen(t.size - 8))
    OBVIOUS
  <2>4. w1 \in Word /\ Carries(w1, i, t, 0)
    <3>1. Bytes(i, 8 * 0, 8) \in Word /\ Carries(Bytes(i, 8 * 0, 8), i, t, 0)
      BY <2>1, ReadsAll
    <3> QED BY <2>3, <3>1
  <2>5. w2 \in Word /\ Carries(w2, i, t, 1)
    <3>1. /\ Bytes(i, 8 * 1, ReadLen(Left(t, 1))) \in Word
          /\ Carries(Bytes(i, 8 * 1, ReadLen(Left(t, 1))), i, t, 1)
      BY <2>1, ReadsAll
    <3>2. ReadLen(Left(t, 1)) = ReadLen(t.size - 8)
      BY <2>1 DEF ReadLen, Left
    <3> QED BY <2>3, <3>1, <3>2
  <2>6. PICK s : s = Add(r, c = "sse", w1)
    OBVIOUS
  <2>7. q = Add(s, d = "sse", w2)
    <3>1. q = PlacePair(r, i, t)
      BY <1>3, <2>1 DEF PlaceArg
    <3>2. /\ ClassifyEightbyte(t, 0, 8) <=> c = "sse"
          /\ ClassifyEightbyte(t, 8, t.size) <=> d = "sse"
      BY <1>3, <2>1, <2>2, CallClass DEF CallSse
    <3>3. q = Add(Add(r, ClassifyEightbyte(t, 0, 8), w1), ClassifyEightbyte(t, 8, t.size), w2)
      BY <2>3, <3>1 DEF PlacePair
    <3>4. Add(r, ClassifyEightbyte(t, 0, 8), w1) = s
      BY <2>6, <3>2 DEF Add
    <3> QED BY <3>2, <3>3, <3>4 DEF Add
  <2>8. PICK v : v = Bump(u, c)
    OBVIOUS
  <2>9. v \in Counters
    BY <2>8, BumpType
  <2>10. RegsAt(s, v) /\ Extends(s, r) /\ Look(s, Slot(u, c)) = w1
    BY <2>4, <2>6, <2>8, AddWord
  <2>11. RegsAt(q, Bump(v, d)) /\ Extends(q, s) /\ Look(q, Slot(v, d)) = w2
    BY <2>5, <2>7, <2>9, <2>10, AddWord
  <2>12. Extends(q, r)
    BY <2>10, <2>11, ExtendsTwice
  <2>13. /\ GoUse(CallRule, t, u) = Bump(v, d)
         /\ GoPlace(CallRule, t, u, 0) = Slot(u, c) /\ GoPlace(CallRule, t, u, 1) = Slot(v, d)
    BY <1>3, <2>1, <2>2, <2>8 DEF GoUse, GoPlace
  <2>14. Carries(Look(q, Slot(u, c)), i, t, 0)
    <3>1. Slot(u, c)[1] \in Kinds
      BY DEF Slot, Kinds
    <3> QED BY <2>4, <2>10, <2>11, <3>1, CarriesStays
  <2> QED BY <2>1, <2>5, <2>11, <2>12, <2>13, <2>14
<1> QED BY <1>1, <1>2, <1>3

--------------------------------------------------------------------------------
(* What is used before each argument: the recursive functions unfolded.     *)

\* What goffi has used before each argument.
First(s) == [int |-> IF InMemory(s.ret) THEN 1 ELSE 0, sse |-> 0, stack |-> 0]
GoUsed(F, s) ==
  LET used[i \in 1..(Len(s.args) + 1)] ==
        IF i = 1 THEN First(s) ELSE GoUse(F, s.args[i - 1], used[i - 1])
  IN  used

LEMMA NatMin == ASSUME NEW T, T \subseteq Nat, T # {} PROVE \E m \in T : \A k \in T : m <= k
<1>1. IsWellFoundedOn(OpToRel(<, Nat), Nat)
  BY NatLessThanWellFounded
<1>2. PICK m \in T : \A k \in T : ~(<<k, m>> \in OpToRel(<, Nat))
  BY <1>1, WFMin
<1>3. \A k \in T : ~(k < m)
  BY <1>2 DEF OpToRel
<1> QED BY <1>3

\* What holds of 1 and passes on from each number to the next holds up to n.
LEMMA UpToN ==
  ASSUME NEW n \in Nat, NEW S, 1 \in S, \A i \in 1..n : i \in S => i + 1 \in S
  PROVE  \A i \in 1..(n + 1) : i \in S
<1> DEFINE T == {i \in 1..(n + 1) : i \notin S}
<1>1. SUFFICES ASSUME T # {} PROVE FALSE
  OBVIOUS
<1>2. PICK m \in T : \A k \in T : m <= k
  <2>1. T \subseteq Nat
    OBVIOUS
  <2> QED BY <1>1, <2>1, NatMin
<1>3. m # 1 /\ m - 1 \in 1..n /\ m - 1 \notin T
  BY <1>2
<1>4. m - 1 \in S
  BY <1>3
<1>5. (m - 1) + 1 \in S
  BY <1>3, <1>4
<1> QED BY <1>2, <1>5

\* A list of counters that starts at first and follows the arguments, by the rule
\* of the ABI and by goffi's.
AbiRun(f, s, n) ==
  f = [i \in 1..n |-> IF i = 1 THEN First(s) ELSE Use(s.args[i - 1], f[i - 1])]
GoRun(F, f, s, n) ==
  f = [i \in 1..n |-> IF i = 1 THEN First(s) ELSE GoUse(F, s.args[i - 1], f[i - 1])]

LEMMA AbiRunExists == ASSUME NEW s, NEW n \in Nat PROVE \E f : AbiRun(f, s, n)
<1> DEFINE T == {k \in Nat : ~\E f : AbiRun(f, s, k)}
<1>1. SUFFICES ASSUME T # {} PROVE FALSE
  OBVIOUS
<1>2. PICK m \in T : \A k \in T : m <= k
  BY <1>1, NatMin
<1>3. m # 0
  <2>1. AbiRun([i \in 1..0 |-> 0], s, 0)
    BY DEF AbiRun
  <2> QED BY <2>1, <1>2
<1>4. m - 1 \in Nat /\ m - 1 \notin T
  BY <1>2, <1>3
<1>5. PICK f : AbiRun(f, s, m - 1)
  BY <1>4
<1> DEFINE of(g, i) == IF i = 1 THEN First(s) ELSE Use(s.args[i - 1], g[i - 1])
           e == [i \in 1..m |-> IF i = m THEN of(f, m) ELSE f[i]]
<1>6. AbiRun(e, s, m)
  <2>1. \A i \in 1..m : e[i] = of(e, i)
    <3> SUFFICES ASSUME NEW i \in 1..m PROVE e[i] = of(e, i)
      OBVIOUS
    <3>1. i # 1 => e[i - 1] = f[i - 1]
      BY <1>2
    <3>2. CASE i = m
      BY <3>1, <3>2
    <3>3. CASE i # m
      <4>1. i \in 1..(m - 1) /\ e[i] = f[i]
        BY <1>2, <3>3
      <4>2. f[i] = of(f, i)
        BY <1>5, <4>1 DEF AbiRun
      <4> QED BY <3>1, <4>1, <4>2
    <3> QED BY <3>2, <3>3
  <2>2. e = [i \in 1..m |-> e[i]]
    OBVIOUS
  <2> HIDE DEF e
  <2> QED BY <2>1, <2>2 DEF AbiRun
<1> QED BY <1>2, <1>6

LEMMA GoRunExists == ASSUME NEW F, NEW s, NEW n \in Nat PROVE \E f : GoRun(F, f, s, n)
<1> DEFINE T == {k \in Nat : ~\E f : GoRun(F, f, s, k)}
<1>1. SUFFICES ASSUME T # {} PROVE FALSE
  OBVIOUS
<1>2. PICK m \in T : \A k \in T : m <= k
  BY <1>1, NatMin
<1>3. m # 0
  <2>1. GoRun(F, [i \in 1..0 |-> 0], s, 0)
    BY DEF GoRun
  <2> QED BY <2>1, <1>2
<1>4. m - 1 \in Nat /\ m - 1 \notin T
  BY <1>2, <1>3
<1>5. PICK f : GoRun(F, f, s, m - 1)
  BY <1>4
<1> DEFINE of(g, i) == IF i = 1 THEN First(s) ELSE GoUse(F, s.args[i - 1], g[i - 1])
           e == [i \in 1..m |-> IF i = m THEN of(f, m) ELSE f[i]]
<1>6. GoRun(F, e, s, m)
  <2>1. \A i \in 1..m : e[i] = of(e, i)
    <3> SUFFICES ASSUME NEW i \in 1..m PROVE e[i] = of(e, i)
      OBVIOUS
    <3>1. i # 1 => e[i - 1] = f[i - 1]
      BY <1>2
    <3>2. CASE i = m
      BY <3>1, <3>2
    <3>3. CASE i # m
      <4>1. i \in 1..(m - 1) /\ e[i] = f[i]
        BY <1>2, <3>3
      <4>2. f[i] = of(f, i)
        BY <1>5, <4>1 DEF GoRun
      <4> QED BY <3>1, <4>1, <4>2
    <3> QED BY <3>2, <3>3
  <2>2. e = [i \in 1..m |-> e[i]]
    OBVIOUS
  <2> HIDE DEF e
  <2> QED BY <2>1, <2>2 DEF GoRun
<1> QED BY <1>2, <1>6

Interface == [args : Seq(Types), ret : Types]

LEMMA UsedUnfolds ==
  ASSUME NEW s \in Interface
  PROVE  /\ Used(s)[1] = First(s)
         /\ \A i \in DOMAIN s.args : Used(s)[i + 1] = Use(s.args[i], Used(s)[i])
<1> PICK n : n = Len(s.args)
  OBVIOUS
<1>1. n \in Nat /\ DOMAIN s.args = 1..n
  BY DEF Interface
<1> DEFINE f == CHOOSE f : AbiRun(f, s, n + 1)
<1>2. AbiRun(f, s, n + 1)
  <2>1. n + 1 \in Nat
    BY <1>1
  <2>2. \E g : AbiRun(g, s, n + 1)
    BY <2>1, AbiRunExists
  <2> QED BY <2>2
<1>3. Used(s) = f
  BY DEF Used, AbiRun, First
<1> HIDE DEF f
<1>4. \A i \in 1..(n + 1) : f[i] = IF i = 1 THEN First(s) ELSE Use(s.args[i - 1], f[i - 1])
  BY <1>2 DEF AbiRun
<1>5. f[1] = First(s)
  BY <1>1, <1>4
<1>6. ASSUME NEW i \in 1..n PROVE f[i + 1] = Use(s.args[i], f[i])
  <2>1. i + 1 \in 1..(n + 1) /\ i + 1 # 1 /\ (i + 1) - 1 = i
    BY <1>1
  <2>2. f[i + 1] = Use(s.args[(i + 1) - 1], f[(i + 1) - 1])
    BY <1>4, <2>1
  <2> QED BY <2>1, <2>2
<1> QED BY <1>1, <1>3, <1>5, <1>6

LEMMA GoUsedUnfolds ==
  ASSUME NEW F, NEW s \in Interface
  PROVE  /\ GoUsed(F, s)[1] = First(s)
         /\ \A i \in DOMAIN s.args : GoUsed(F, s)[i + 1] = GoUse(F, s.args[i], GoUsed(F, s)[i])
<1> PICK n : n = Len(s.args)
  OBVIOUS
<1>1. n \in Nat /\ DOMAIN s.args = 1..n
  BY DEF Interface
<1> DEFINE f == CHOOSE f : GoRun(F, f, s, n + 1)
<1>2. GoRun(F, f, s, n + 1)
  <2>1. n + 1 \in Nat
    BY <1>1
  <2>2. \E g : GoRun(F, g, s, n + 1)
    BY <2>1, GoRunExists
  <2> QED BY <2>2
<1>3. GoUsed(F, s) = f
  BY DEF GoUsed, GoRun
<1> HIDE DEF f
<1>4. \A i \in 1..(n + 1) : f[i] = IF i = 1 THEN First(s) ELSE GoUse(F, s.args[i - 1], f[i - 1])
  BY <1>2 DEF GoRun
<1>5. f[1] = First(s)
  BY <1>1, <1>4
<1>6. ASSUME NEW i \in 1..n PROVE f[i + 1] = GoUse(F, s.args[i], f[i])
  <2>1. i + 1 \in 1..(n + 1) /\ i + 1 # 1 /\ (i + 1) - 1 = i
    BY <1>1
  <2>2. f[i + 1] = GoUse(F, s.args[(i + 1) - 1], f[(i + 1) - 1])
    BY <1>4, <2>1
  <2> QED BY <2>1, <2>2
<1> QED BY <1>1, <1>3, <1>5, <1>6

LEMMA FirstType == ASSUME NEW s PROVE First(s) \in Counters
  BY DEF First, Counters

\* The eightbytes of a class, of all of an argument.
LEMMA CountType ==
  ASSUME NEW t \in Types, ~InMemory(t), NEW c
  PROVE  Count(t, Eightbytes(t), c) \in 0..2
<1>1. Eightbytes(t) \in {1, 2}
  BY ChunkNumbers
<1> QED BY <1>1, CountFacts

LEMMA UseType ==
  ASSUME NEW t \in Types, NEW u \in Counters
  PROVE  Use(t, u) \in Counters /\ Below(u, Use(t, u))
<1>1. Eightbytes(t) \in Nat
  BY SizeType
<1>2. CASE Fits(t, u)
  <2>1. PICK a, b : a = Count(t, Eightbytes(t), "int") /\ b = Count(t, Eightbytes(t), "sse")
    OBVIOUS
  <2>2. a \in Nat /\ b \in Nat
    BY <1>2, <2>1, CountType DEF Fits
  <2>3. u.int + a <= 6 /\ u.sse + b <= 8
    BY <1>2, <2>1 DEF Fits, IntRegs, SseRegs
  <2>4. Use(t, u) = [u EXCEPT !.int = @ + a, !.sse = @ + b]
    BY <1>2, <2>1 DEF Use
  <2>5. PICK v : v = [u EXCEPT !.int = @ + a]
    OBVIOUS
  <2>6. v \in Counters /\ v.int = u.int + a /\ v.sse = u.sse /\ v.stack = u.stack
    BY <2>2, <2>3, <2>5 DEF Counters
  <2>7. Use(t, u) = [v EXCEPT !.sse = @ + b]
    BY <2>4, <2>5 DEF Counters
  <2> QED BY <2>2, <2>3, <2>6, <2>7 DEF Counters, Below
<1>3. CASE ~Fits(t, u)
  <2>1. Use(t, u) = [u EXCEPT !.stack = @ + Eightbytes(t)]
    BY <1>3 DEF Use
  <2> QED BY <1>1, <2>1 DEF Counters, Below
<1> QED BY <1>2, <1>3

LEMMA UsedType ==
  ASSUME NEW s \in Interface
  PROVE  \A i \in 1..(Len(s.args) + 1) : Used(s)[i] \in Counters
<1> PICK n : n = Len(s.args)
  OBVIOUS
<1>1. n \in Nat /\ DOMAIN s.args = 1..n /\ \A i \in 1..n : s.args[i] \in Types
  BY DEF Interface
<1> DEFINE S == {i \in 1..(n + 1) : Used(s)[i] \in Counters}
<1>2. 1 \in S
  BY <1>1, UsedUnfolds, FirstType
<1>3. ASSUME NEW i \in 1..n, i \in S PROVE i + 1 \in S
  <2>1. PICK u \in Counters : u = Used(s)[i]
    BY <1>3
  <2>2. Used(s)[i + 1] = Use(s.args[i], u)
    BY <1>1, <2>1, UsedUnfolds
  <2>3. Used(s)[i + 1] \in Counters
    BY <1>1, <2>2, UseType
  <2> QED BY <1>1, <2>3
<1> HIDE DEF S
<1>4. \A i \in 1..(n + 1) : i \in S
  BY <1>1, <1>2, <1>3, UpToN
<1> QED BY <1>4 DEF S

LEMMA GoUsedType ==
  ASSUME NEW F, NEW s \in Interface
  PROVE  \A i \in 1..(Len(s.args) + 1) : GoUsed(F, s)[i] \in Counters
<1> PICK n : n = Len(s.args)
  OBVIOUS
<1>1. n \in Nat /\ DOMAIN s.args = 1..n /\ \A i \in 1..n : s.args[i] \in Types
  BY DEF Interface
<1> DEFINE S == {i \in 1..(n + 1) : GoUsed(F, s)[i] \in Counters}
<1>2. 1 \in S
  BY <1>1, GoUsedUnfolds, FirstType
<1>3. ASSUME NEW i \in 1..n, i \in S PROVE i + 1 \in S
  <2>1. PICK u \in Counters : u = GoUsed(F, s)[i]
    BY <1>3
  <2>2. GoUsed(F, s)[i + 1] = GoUse(F, s.args[i], u)
    BY <1>1, <2>1, GoUsedUnfolds
  <2>3. GoUsed(F, s)[i + 1] \in Counters
    BY <1>1, <2>2, GoUseType
  <2> QED BY <1>1, <2>3
<1> HIDE DEF S
<1>4. \A i \in 1..(n + 1) : i \in S
  BY <1>1, <1>2, <1>3, UpToN
<1> QED BY <1>4 DEF S

--------------------------------------------------------------------------------
(* Where no struct is split, goffi's places are the ABI's.                  *)

\* The ABI's place of an eightbyte, given what is used.
AbiPlace(t, u, k) == LET c == Class(t, k)
                     IN  IF Fits(t, u) THEN <<c, u[c] + Count(t, k, c) + 1>>
                         ELSE <<"stack", u.stack + k + 1>>
LEMMA PlaceIsAbiPlace ==
  ASSUME NEW s, NEW i, NEW k
  PROVE  Place(s, i, k) = AbiPlace(s.args[i], Used(s)[i], k)
  BY DEF Place, AbiPlace

\* Registers of a kind, and what a type that is not in memory needs of them.
Limit(c) == IF c = "int" THEN IntRegs ELSE SseRegs
SplitsHere(t, u) ==
  /\ IsStruct(t) /\ ~InMemory(t) /\ ~Fits(t, u)
  /\ \E c \in {"int", "sse"} : Count(t, Eightbytes(t), c) > 0 /\ u[c] < Limit(c)

\* An argument of one eightbyte: goffi and the ABI agree.
LEMMA OneAgrees ==
  ASSUME NEW t \in Types, ~InMemory(t), Eightbytes(t) = 1, NEW u \in Counters
  PROVE  GoUse(AbiRule, t, u) = Use(t, u) /\ GoPlace(AbiRule, t, u, 0) = AbiPlace(t, u, 0)
<1>1. PICK c \in {"int", "sse"} : c = Class(t, 0) /\ c = GoClass(AbiRule, t, 0)
  BY Classes, AbiClass
<1>2. /\ Count(t, 1, "int") = IF c = "int" THEN 1 ELSE 0
      /\ Count(t, 1, "sse") = IF c = "sse" THEN 1 ELSE 0
      /\ Count(t, 0, c) = 0
  BY <1>1, CountFacts
<1>3. u.int \in 0..6 /\ u.sse \in 0..8 /\ u.stack \in Nat
  BY DEF Counters
<1>4. Fits(t, u) <=> IF c = "sse" THEN u.sse < 8 ELSE u.int < 6
  <2>1. Fits(t, u) <=> u.int + Count(t, 1, "int") <= 6 /\ u.sse + Count(t, 1, "sse") <= 8
    BY DEF Fits, IntRegs, SseRegs
  <2> QED BY <1>2, <1>3, <2>1
<1>5. GoUse(AbiRule, t, u) = Bump(u, c) /\ GoPlace(AbiRule, t, u, 0) = Slot(u, c)
  BY <1>1 DEF GoUse, GoPlace
<1>6. AbiPlace(t, u, 0) = Slot(u, c)
  <2>1. AbiPlace(t, u, 0) = IF Fits(t, u) THEN <<c, u[c] + 1>> ELSE <<"stack", u.stack + 1>>
    BY <1>1, <1>2, <1>3 DEF AbiPlace
  <2>2. CASE c = "sse"
    BY <1>4, <2>1, <2>2 DEF Slot
  <2>3. CASE c = "int"
    BY <1>4, <2>1, <2>3 DEF Slot
  <2> QED BY <2>2, <2>3
<1>7. PICK v, w : v = Use(t, u) /\ w = Bump(u, c)
  OBVIOUS
<1>8. v \in Counters /\ w \in Counters
  BY <1>7, UseType, BumpType
<1>9. /\ v.int = IF Fits(t, u) THEN u.int + Count(t, 1, "int") ELSE u.int
      /\ v.sse = IF Fits(t, u) THEN u.sse + Count(t, 1, "sse") ELSE u.sse
      /\ v.stack = IF Fits(t, u) THEN u.stack ELSE u.stack + 1
  BY <1>7 DEF Use, Counters
<1>10. v.int = w.int /\ v.sse = w.sse /\ v.stack = w.stack
  <2>1. CASE c = "sse"
    BY <1>2, <1>3, <1>4, <1>7, <1>9, <2>1, BumpType
  <2>2. CASE c = "int"
    BY <1>2, <1>3, <1>4, <1>7, <1>9, <2>2, BumpType
  <2> QED BY <2>1, <2>2
<1>11. v = w
  BY <1>8, <1>10, SameCounters
<1> QED BY <1>5, <1>6, <1>7, <1>11

\* One of two eightbytes: they agree unless one is left without a register and the
\* other is not.
LEMMA TwoAgree ==
  ASSUME NEW t \in Types, ~InMemory(t), IsStruct(t), Eightbytes(t) = 2, NEW u \in Counters,
         ~SplitsHere(t, u)
  PROVE  /\ GoUse(AbiRule, t, u) = Use(t, u)
         /\ GoPlace(AbiRule, t, u, 0) = AbiPlace(t, u, 0)
         /\ GoPlace(AbiRule, t, u, 1) = AbiPlace(t, u, 1)
<1>1. PICK c \in {"int", "sse"}, d \in {"int", "sse"} :
        /\ c = Class(t, 0) /\ d = Class(t, 1)
        /\ c = GoClass(AbiRule, t, 0) /\ d = GoClass(AbiRule, t, 1)
  BY Classes, AbiClass
<1>2. PICK a, b : a = Count(t, 2, "int") /\ b = Count(t, 2, "sse")
  OBVIOUS
<1>3. /\ a = (IF c = "int" THEN 1 ELSE 0) + (IF d = "int" THEN 1 ELSE 0)
      /\ b = (IF c = "sse" THEN 1 ELSE 0) + (IF d = "sse" THEN 1 ELSE 0)
      /\ Count(t, 0, c) = 0 /\ Count(t, 1, d) = IF c = d THEN 1 ELSE 0
  BY <1>1, <1>2, CountFacts
<1>4. u.int \in 0..6 /\ u.sse \in 0..8 /\ u.stack \in Nat
  BY DEF Counters
<1>5. Fits(t, u) <=> u.int + a <= 6 /\ u.sse + b <= 8
  BY <1>2 DEF Fits, IntRegs, SseRegs
<1>6. Fits(t, u) \/ ((a > 0 => u.int >= 6) /\ (b > 0 => u.sse >= 8))
  <2>1. ASSUME ~Fits(t, u) PROVE (a > 0 => ~(u.int < 6)) /\ (b > 0 => ~(u.sse < 8))
    BY <1>2, <2>1 DEF SplitsHere, Limit, IntRegs, SseRegs
  <2> QED BY <1>4, <2>1
<1>7. PICK x, y, v : x = Bump(u, c) /\ y = Bump(x, d) /\ v = Use(t, u)
  OBVIOUS
<1>8. x \in Counters /\ y \in Counters /\ v \in Counters
  BY <1>7, UseType, BumpType
<1>9. /\ GoUse(AbiRule, t, u) = y
      /\ GoPlace(AbiRule, t, u, 0) = Slot(u, c) /\ GoPlace(AbiRule, t, u, 1) = Slot(x, d)
  BY <1>1, <1>7 DEF GoUse, GoPlace
<1>10. /\ v.int = IF Fits(t, u) THEN u.int + a ELSE u.int
       /\ v.sse = IF Fits(t, u) THEN u.sse + b ELSE u.sse
       /\ v.stack = IF Fits(t, u) THEN u.stack ELSE u.stack + 2
  <2>1. CASE Fits(t, u)
    <3>1. v = [u EXCEPT !.int = @ + a, !.sse = @ + b]
      BY <1>2, <1>7, <2>1 DEF Use
    <3> QED BY <2>1, <3>1 DEF Counters
  <2>2. CASE ~Fits(t, u)
    <3>1. v = [u EXCEPT !.stack = @ + 2]
      BY <1>7, <2>2 DEF Use
    <3> QED BY <2>2, <3>1 DEF Counters
  <2> QED BY <2>1, <2>2
<1>11. /\ x.int = IF c # "sse" /\ u.int < 6 THEN u.int + 1 ELSE u.int
       /\ x.sse = IF c = "sse" /\ u.sse < 8 THEN u.sse + 1 ELSE u.sse
       /\ x.stack = IF (c # "sse" /\ u.int >= 6) \/ (c = "sse" /\ u.sse >= 8)
                    THEN u.stack + 1 ELSE u.stack
  BY <1>7, BumpType
<1>12. /\ y.int = IF d # "sse" /\ x.int < 6 THEN x.int + 1 ELSE x.int
       /\ y.sse = IF d = "sse" /\ x.sse < 8 THEN x.sse + 1 ELSE x.sse
       /\ y.stack = IF (d # "sse" /\ x.int >= 6) \/ (d = "sse" /\ x.sse >= 8)
                    THEN x.stack + 1 ELSE x.stack
  BY <1>7, <1>8, BumpType
<1>13. /\ AbiPlace(t, u, 0) = IF Fits(t, u) THEN <<c, u[c] + 1>> ELSE <<"stack", u.stack + 1>>
       /\ AbiPlace(t, u, 1) = IF Fits(t, u) THEN <<d, u[d] + (IF c = d THEN 1 ELSE 0) + 1>>
                              ELSE <<"stack", u.stack + 2>>
  <2>1. u[c] + 0 = u[c] /\ u.stack + 0 = u.stack /\ u.stack + 1 + 1 = u.stack + 2
    BY <1>4
  <2> QED BY <1>1, <1>3, <2>1 DEF AbiPlace
<1>14. CASE c = "int" /\ d = "int"
  <2>1. v.int = y.int /\ v.sse = y.sse /\ v.stack = y.stack
    BY <1>3, <1>4, <1>5, <1>6, <1>10, <1>11, <1>12, <1>14
  <2>2. AbiPlace(t, u, 0) = Slot(u, c) /\ AbiPlace(t, u, 1) = Slot(x, d)
    BY <1>3, <1>4, <1>5, <1>6, <1>11, <1>13, <1>14 DEF Slot
  <2> QED BY <1>7, <1>8, <1>9, <2>1, <2>2, SameCounters
<1>15. CASE c = "int" /\ d = "sse"
  <2>1. v.int = y.int /\ v.sse = y.sse /\ v.stack = y.stack
    BY <1>3, <1>4, <1>5, <1>6, <1>10, <1>11, <1>12, <1>15
  <2>2. AbiPlace(t, u, 0) = Slot(u, c) /\ AbiPlace(t, u, 1) = Slot(x, d)
    BY <1>3, <1>4, <1>5, <1>6, <1>11, <1>13, <1>15 DEF Slot
  <2> QED BY <1>7, <1>8, <1>9, <2>1, <2>2, SameCounters
<1>16. CASE c = "sse" /\ d = "int"
  <2>1. v.int = y.int /\ v.sse = y.sse /\ v.stack = y.stack
    BY <1>3, <1>4, <1>5, <1>6, <1>10, <1>11, <1>12, <1>16
  <2>2. AbiPlace(t, u, 0) = Slot(u, c) /\ AbiPlace(t, u, 1) = Slot(x, d)
    BY <1>3, <1>4, <1>5, <1>6, <1>11, <1>13, <1>16 DEF Slot
  <2> QED BY <1>7, <1>8, <1>9, <2>1, <2>2, SameCounters
<1>17. CASE c = "sse" /\ d = "sse"
  <2>1. v.int = y.int /\ v.sse = y.sse /\ v.stack = y.stack
    BY <1>3, <1>4, <1>5, <1>6, <1>10, <1>11, <1>12, <1>17
  <2>2. AbiPlace(t, u, 0) = Slot(u, c) /\ AbiPlace(t, u, 1) = Slot(x, d)
    BY <1>3, <1>4, <1>5, <1>6, <1>11, <1>13, <1>17 DEF Slot
  <2> QED BY <1>7, <1>8, <1>9, <2>1, <2>2, SameCounters
<1> QED BY <1>14, <1>15, <1>16, <1>17

LEMMA ArgAgrees ==
  ASSUME NEW t \in Types, NEW u \in Counters, ~SplitsHere(t, u)
  PROVE  /\ GoUse(AbiRule, t, u) = Use(t, u)
         /\ \A k \in Chunks(t) : GoPlace(AbiRule, t, u, k) = AbiPlace(t, u, k)
<1>1. CASE InMemory(t)
  BY <1>1 DEF GoUse, Use, GoPlace, AbiPlace, Fits
<1>2. CASE ~InMemory(t) /\ ~(IsStruct(t) /\ t.size > 8)
  BY <1>2, ChunkNumbers, OneAgrees
<1>3. CASE ~InMemory(t) /\ IsStruct(t) /\ t.size > 8
  BY <1>3, ChunkNumbers, TwoAgree
<1> QED BY <1>1, <1>2, <1>3

LEMMA InterfaceType ==
  ASSUME NEW s \in Interface
  PROVE  /\ Len(s.args) \in Nat /\ DOMAIN s.args = 1..Len(s.args)
         /\ s.args \in Seq(Types) /\ s.ret \in Types
         /\ \A i \in 1..Len(s.args) : s.args[i] \in Types
  BY DEF Interface

\* Where no struct is split, filling places eightbyte by eightbyte by the ABI's
\* classes is what the ABI does.
LEMMA AbiRuleIsAbi ==
  ASSUME NEW s \in Interface, ~Splits(s)
  PROVE  /\ \A i \in 1..(Len(s.args) + 1) : GoUsed(AbiRule, s)[i] = Used(s)[i]
         /\ \A i \in 1..Len(s.args) : \A k \in Chunks(s.args[i]) :
              GoPlace(AbiRule, s.args[i], GoUsed(AbiRule, s)[i], k) = Place(s, i, k)
<1> PICK n : n = Len(s.args)
  OBVIOUS
<1>1. n \in Nat /\ DOMAIN s.args = 1..n /\ \A i \in 1..n : s.args[i] \in Types
  BY InterfaceType
<1>2. \A i \in 1..n : ~SplitsHere(s.args[i], Used(s)[i])
  BY <1>1 DEF Splits, SplitsHere, Limit
<1>3. \A i \in 1..n : Used(s)[i] \in Counters
  <2>1. \A i \in 1..(n + 1) : Used(s)[i] \in Counters
    BY UsedType
  <2> QED BY <1>1, <2>1
<1> DEFINE S == {i \in 1..(n + 1) : GoUsed(AbiRule, s)[i] = Used(s)[i]}
<1>4. 1 \in S
  BY <1>1, UsedUnfolds, GoUsedUnfolds
<1>5. ASSUME NEW i \in 1..n, i \in S PROVE i + 1 \in S
  <2>1. PICK u \in Counters : u = Used(s)[i]
    BY <1>3
  <2>2. GoUsed(AbiRule, s)[i] = u
    BY <1>5, <2>1
  <2>3. /\ Used(s)[i + 1] = Use(s.args[i], u)
        /\ GoUsed(AbiRule, s)[i + 1] = GoUse(AbiRule, s.args[i], u)
    BY <1>1, <2>1, <2>2, UsedUnfolds, GoUsedUnfolds
  <2>4. GoUse(AbiRule, s.args[i], u) = Use(s.args[i], u)
    BY <1>1, <1>2, <2>1, ArgAgrees
  <2> QED BY <1>1, <2>3, <2>4
<1> HIDE DEF S
<1>6. \A i \in 1..(n + 1) : i \in S
  BY <1>1, <1>4, <1>5, UpToN
<1>7. \A i \in 1..(n + 1) : GoUsed(AbiRule, s)[i] = Used(s)[i]
  BY <1>6 DEF S
<1>8. ASSUME NEW i \in 1..n, NEW k \in Chunks(s.args[i])
      PROVE  GoPlace(AbiRule, s.args[i], GoUsed(AbiRule, s)[i], k) = Place(s, i, k)
  <2>1. PICK u \in Counters : u = Used(s)[i]
    BY <1>3
  <2>2. GoUsed(AbiRule, s)[i] = u
    BY <1>1, <1>7, <2>1
  <2>3. GoPlace(AbiRule, s.args[i], u, k) = AbiPlace(s.args[i], u, k)
    BY <1>1, <1>2, <1>8, <2>1, ArgAgrees
  <2> QED BY <2>1, <2>2, <2>3, PlaceIsAbiPlace
<1> QED BY <1>7, <1>8

\* Two rules that agree on the eightbytes of a type.
Alike(F, G, t) == InMemory(t) \/ \A k \in Chunks(t) : GoClass(F, t, k) = GoClass(G, t, k)

LEMMA AlikePlace ==
  ASSUME NEW F, NEW G, NEW t \in Types, Alike(F, G, t), NEW u
  PROVE  /\ GoUse(F, t, u) = GoUse(G, t, u)
         /\ \A k \in Chunks(t) : GoPlace(F, t, u, k) = GoPlace(G, t, u, k)
<1>1. CASE InMemory(t)
  BY <1>1 DEF GoUse, GoPlace
<1>2. CASE ~InMemory(t) /\ Eightbytes(t) = 1 /\ Chunks(t) = {0}
  <2>1. GoClass(F, t, 0) = GoClass(G, t, 0)
    BY <1>2 DEF Alike
  <2> QED BY <1>2, <2>1 DEF GoUse, GoPlace
<1>3. CASE ~InMemory(t) /\ Eightbytes(t) = 2 /\ Chunks(t) = {0, 1}
  <2>1. GoClass(F, t, 0) = GoClass(G, t, 0) /\ GoClass(F, t, 1) = GoClass(G, t, 1)
    BY <1>3 DEF Alike
  <2> QED BY <1>3, <2>1 DEF GoUse, GoPlace
<1> QED BY <1>1, <1>2, <1>3, ChunkNumbers

\* Rules that agree on every argument place them at the same places.
LEMMA AlikeUsed ==
  ASSUME NEW F, NEW G, NEW s \in Interface, \A i \in DOMAIN s.args : Alike(F, G, s.args[i])
  PROVE  /\ \A i \in 1..(Len(s.args) + 1) : GoUsed(F, s)[i] = GoUsed(G, s)[i]
         /\ \A i \in 1..Len(s.args) : \A k \in Chunks(s.args[i]) :
              GoPlace(F, s.args[i], GoUsed(F, s)[i], k)
                = GoPlace(G, s.args[i], GoUsed(G, s)[i], k)
<1> PICK n : n = Len(s.args)
  OBVIOUS
<1>1. n \in Nat /\ DOMAIN s.args = 1..n /\ \A i \in 1..n : s.args[i] \in Types
  BY InterfaceType
<1> DEFINE S == {i \in 1..(n + 1) : GoUsed(F, s)[i] = GoUsed(G, s)[i]}
<1>2. 1 \in S
  BY <1>1, GoUsedUnfolds
<1>3. ASSUME NEW i \in 1..n, i \in S PROVE i + 1 \in S
  <2>1. PICK u : u = GoUsed(F, s)[i] /\ u = GoUsed(G, s)[i]
    BY <1>3
  <2>2. i \in 1..Len(s.args) /\ s.args[i] \in Types /\ i \in DOMAIN s.args
    BY <1>1
  <2>3. GoUsed(F, s)[i + 1] = GoUse(F, s.args[i], GoUsed(F, s)[i])
    BY <2>2, GoUsedUnfolds
  <2>4. GoUsed(G, s)[i + 1] = GoUse(G, s.args[i], GoUsed(G, s)[i])
    BY <2>2, GoUsedUnfolds
  <2>5. Alike(F, G, s.args[i])
    BY <2>2
  <2>6. GoUse(F, s.args[i], u) = GoUse(G, s.args[i], u)
    BY <2>2, <2>5, AlikePlace
  <2> QED BY <1>1, <2>1, <2>3, <2>4, <2>6
<1> HIDE DEF S
<1>4. \A i \in 1..(n + 1) : i \in S
  BY <1>1, <1>2, <1>3, UpToN
<1>5. \A i \in 1..(n + 1) : GoUsed(F, s)[i] = GoUsed(G, s)[i]
  BY <1>4 DEF S
<1>6. ASSUME NEW i \in 1..n, NEW k \in Chunks(s.args[i])
      PROVE  GoPlace(F, s.args[i], GoUsed(F, s)[i], k) = GoPlace(G, s.args[i], GoUsed(G, s)[i], k)
  <2>1. PICK u : u = GoUsed(F, s)[i] /\ u = GoUsed(G, s)[i]
    BY <1>1, <1>5
  <2>2. s.args[i] \in Types /\ Alike(F, G, s.args[i])
    BY <1>1
  <2>3. GoPlace(F, s.args[i], u, k) = GoPlace(G, s.args[i], u, k)
    BY <1>6, <2>2, AlikePlace
  <2> QED BY <2>1, <2>3
<1> QED BY <1>1, <1>5, <1>6

\* Where no struct is split and the rule is the ABI's on every argument, goffi
\* places every argument where the ABI does.
LEMMA GoIsAbi ==
  ASSUME NEW F, NEW s \in Interface, ~Splits(s),
         \A i \in DOMAIN s.args : Alike(F, AbiRule, s.args[i])
  PROVE  \A i \in 1..Len(s.args) : \A k \in Chunks(s.args[i]) :
           GoPlace(F, s.args[i], GoUsed(F, s)[i], k) = Place(s, i, k)
<1>1. ASSUME NEW i \in 1..Len(s.args), NEW k \in Chunks(s.args[i])
      PROVE  GoPlace(F, s.args[i], GoUsed(F, s)[i], k) = Place(s, i, k)
  <2>1. GoPlace(F, s.args[i], GoUsed(F, s)[i], k)
          = GoPlace(AbiRule, s.args[i], GoUsed(AbiRule, s)[i], k)
    BY <1>1, AlikeUsed
  <2>2. GoPlace(AbiRule, s.args[i], GoUsed(AbiRule, s)[i], k) = Place(s, i, k)
    BY <1>1, AbiRuleIsAbi
  <2> QED BY <2>1, <2>2
<1> QED BY <1>1

\* What goffi's two rules are: the ABI's where no nested struct hides a class, and
\* the same where none does so in a struct of one eightbyte.
LEMMA RuleClasses ==
  ASSUME NEW t \in Types, ~InMemory(t), NEW k \in Chunks(t)
  PROVE  /\ k \in {0, 1} /\ GoClass(AbiRule, t, k) = Class(t, k)
         /\ ~Hides(t) => (CallSse(t, k) <=> Class(t, k) = "sse")
         /\ ~HidesPair(t) => (CbSse(t, k) <=> Class(t, k) = "sse")
         /\ ~HidesSmall(t) => (CallSse(t, k) <=> CbSse(t, k))
<1>1. k \in {0, 1} /\ GoClass(AbiRule, t, k) = Class(t, k)
  BY ChunkNumbers, AbiClass
<1>2. CASE ~IsStruct(t)
  <2>1. k = 0
    BY <1>2, ChunkNumbers
  <2> QED BY <1>1, <1>2, <2>1, ClassOfScalar DEF CallSse, CbSse
<1>3. CASE IsStruct(t) /\ t.size <= 8
  <2>1. k = 0 /\ t.size \in Nat
    BY <1>3, ChunkNumbers, SizeIsPositive
  <2>2. CallSse(t, k) <=> IsStructAllFloats(t)
    BY <1>3 DEF CallSse
  <2>3. CbSse(t, k) <=> AllFloats(t)
    BY <1>3 DEF CbSse
  <2> QED BY <1>1, <1>3, <2>1, <2>2, <2>3, ClassOfSmall DEF HidesSmall
<1>4. CASE IsStruct(t) /\ t.size > 8
  <2>1. t.size \in 9..16
    BY <1>4, ChunkNumbers
  <2>2. /\ CallSse(t, 0) <=> ClassifyEightbyte(t, 0, 8)
        /\ CallSse(t, 1) <=> ClassifyEightbyte(t, 8, t.size)
    BY <1>4, <2>1 DEF CallSse
  <2>3. /\ CbSse(t, 0) <=> EightbyteIsSse(t, 0, 8)
        /\ CbSse(t, 1) <=> EightbyteIsSse(t, 8, t.size)
    BY <1>4, <2>1 DEF CbSse
  <2>4. /\ ClassifyEightbyte(t, 0, 8) <=> EightbyteIsSse(t, 0, 8)
        /\ ClassifyEightbyte(t, 8, t.size) <=> EightbyteIsSse(t, 8, t.size)
    BY DEF ClassifyEightbyte, EightbyteIsSse
  <2>5. ASSUME ~Hides(t)
        PROVE  (CallSse(t, k) <=> Class(t, k) = "sse") /\ (CbSse(t, k) <=> Class(t, k) = "sse")
    BY <1>1, <1>4, <2>1, <2>2, <2>3, <2>5, ClassOfPair
  <2>6. ~HidesPair(t) => ~Hides(t)
    BY <1>4 DEF HidesPair
  <2> QED BY <1>1, <2>2, <2>3, <2>4, <2>5, <2>6
<1> QED BY <1>2, <1>3, <1>4, SizeIsPositive

LEMMA CallLikeAbi ==
  ASSUME NEW t \in Types, ~Hides(t)
  PROVE  Alike(CallRule, AbiRule, t)
  BY RuleClasses, CallClass, GoClasses, Classes DEF Alike

LEMMA CbLikeAbi ==
  ASSUME NEW t \in Types, ~HidesPair(t)
  PROVE  Alike(CbRule, AbiRule, t)
  BY RuleClasses, CbClass, GoClasses, Classes DEF Alike

LEMMA CbLikeCall ==
  ASSUME NEW t \in Types, ~HidesSmall(t)
  PROVE  Alike(CbRule, CallRule, t)
  BY RuleClasses, CallClass, CbClass, GoClasses DEF Alike
--------------------------------------------------------------------------------
(* The ABI's places are all different, so a frame can hold every eightbyte. *)

\* The ABI's place of an eightbyte is one that its argument uses up.
LEMMA AbiPlaceIsNew ==
  ASSUME NEW t \in Types, NEW u \in Counters, NEW k \in Chunks(t),
         NEW p, p = AbiPlace(t, u, k)
  PROVE  p[1] \in Kinds /\ p[2] \in (u[p[1]] + 1)..Use(t, u)[p[1]]
<1>1. u.int \in 0..6 /\ u.sse \in 0..8 /\ u.stack \in Nat
  BY DEF Counters
<1>2. PICK n \in Nat \ {0} : n = Eightbytes(t)
  BY SizeType
<1>3. k \in 0..(n - 1)
  BY <1>2 DEF Chunks
<1>4. CASE ~Fits(t, u)
  <2>1. p = <<"stack", u.stack + k + 1>> /\ Use(t, u) = [u EXCEPT !.stack = @ + n]
    BY <1>2, <1>4 DEF AbiPlace, Use
  <2>2. Use(t, u).stack = u.stack + n
    BY <2>1 DEF Counters
  <2>3. p[1] = "stack" /\ p[2] = u.stack + k + 1
    BY <2>1
  <2>4. u.stack + k + 1 \in (u.stack + 1)..(u.stack + n)
    BY <1>1, <1>2, <1>3
  <2> QED BY <2>2, <2>3, <2>4 DEF Kinds
<1>5. CASE Fits(t, u)
  <2>1. n \in {1, 2} /\ ~InMemory(t)
    BY <1>2, <1>5, ChunkNumbers DEF Fits
  <2>2. PICK c \in {"int", "sse"} : c = Class(t, k)
    BY Classes
  <2>3. PICK m : m = Count(t, k, c)
    OBVIOUS
  <2>4. m \in Nat /\ m + 1 <= Count(t, n, c) /\ Count(t, n, c) \in Nat
    <3>1. /\ Count(t, 0, c) = 0
          /\ Count(t, 1, c) = IF Class(t, 0) = c THEN 1 ELSE 0
          /\ Count(t, 2, c) = (IF Class(t, 0) = c THEN 1 ELSE 0)
                                + (IF Class(t, 1) = c THEN 1 ELSE 0)
      BY CountFacts
    <3>2. CASE k = 0
      BY <2>1, <2>2, <2>3, <3>1, <3>2
    <3>3. CASE k = 1
      BY <1>3, <2>1, <2>2, <2>3, <3>1, <3>3
    <3> QED BY <1>3, <2>1, <3>2, <3>3
  <2>5. p = <<c, u[c] + m + 1>>
    BY <1>5, <2>2, <2>3 DEF AbiPlace
  <2>6. PICK a, b : a = Count(t, n, "int") /\ b = Count(t, n, "sse")
    OBVIOUS
  <2>7. Use(t, u) = [u EXCEPT !.int = @ + a, !.sse = @ + b]
    BY <1>2, <1>5, <2>6 DEF Use
  <2>8. Use(t, u).int = u.int + a /\ Use(t, u).sse = u.sse + b
    BY <2>7 DEF Counters
  <2>9. CASE c = "int"
    BY <1>1, <2>4, <2>5, <2>6, <2>8, <2>9 DEF Kinds
  <2>10. CASE c = "sse"
    BY <1>1, <2>4, <2>5, <2>6, <2>8, <2>10 DEF Kinds
  <2> QED BY <2>9, <2>10
<1> QED BY <1>4, <1>5

\* The eightbytes of one argument are at different places.
LEMMA AbiPlacesDiffer ==
  ASSUME NEW t \in Types, NEW u \in Counters, NEW k \in Chunks(t), NEW l \in Chunks(t),
         AbiPlace(t, u, k) = AbiPlace(t, u, l)
  PROVE  k = l
<1>1. u.int \in 0..6 /\ u.sse \in 0..8 /\ u.stack \in Nat /\ k \in Nat /\ l \in Nat
  BY SizeType DEF Counters
<1>2. CASE ~Fits(t, u)
  <2>1. u.stack + k + 1 = u.stack + l + 1
    BY <1>2 DEF AbiPlace
  <2> QED BY <1>1, <2>1
<1>3. CASE Fits(t, u)
  <2>1. k \in {0, 1} /\ l \in {0, 1}
    BY <1>3, ChunkNumbers DEF Fits
  <2>2. PICK c \in {"int", "sse"} : c = Class(t, k) /\ c = Class(t, l)
    BY <1>3, Classes DEF AbiPlace
  <2>3. u[c] + Count(t, k, c) + 1 = u[c] + Count(t, l, c) + 1
    BY <1>3, <2>2 DEF AbiPlace
  <2>4. u[c] \in Nat
    BY <1>1, <2>2
  <2>5. /\ Count(t, 0, c) = 0
        /\ Count(t, 1, c) = IF Class(t, 0) = c THEN 1 ELSE 0
    BY CountFacts
  <2>6. Count(t, k, c) \in {0, 1} /\ Count(t, l, c) \in {0, 1}
    BY <2>1, <2>5
  <2>7. Count(t, k, c) = Count(t, l, c)
    <3>1. PICK a, b, e : a = Count(t, k, c) /\ b = Count(t, l, c) /\ e = u[c]
      OBVIOUS
    <3>2. a \in Nat /\ b \in Nat /\ e \in Nat /\ e + a + 1 = e + b + 1
      BY <2>3, <2>4, <2>6, <3>1
    <3>3. a = b
      BY <3>2
    <3> QED BY <3>1, <3>3
  <2>8. CASE k = 0 /\ l = 1
    BY <2>2, <2>5, <2>7, <2>8
  <2>9. CASE k = 1 /\ l = 0
    BY <2>2, <2>5, <2>7, <2>9
  <2> QED BY <2>1, <2>8, <2>9
<1> QED BY <1>2, <1>3

LEMMA BelowTwice ==
  ASSUME NEW u \in Counters, NEW v \in Counters, NEW w \in Counters, Below(u, v), Below(v, w)
  PROVE  Below(u, w)
  BY DEF Below, Counters

LEMMA UsedGrows ==
  ASSUME NEW s \in Interface, NEW i \in 1..(Len(s.args) + 1), NEW j \in 1..(Len(s.args) + 1),
         i <= j
  PROVE  Below(Used(s)[i], Used(s)[j])
<1> PICK n : n = Len(s.args)
  OBVIOUS
<1>1. n \in Nat /\ DOMAIN s.args = 1..n /\ \A l \in 1..n : s.args[l] \in Types
  BY InterfaceType
<1>2. \A l \in 1..(n + 1) : Used(s)[l] \in Counters
  BY UsedType
<1> DEFINE S == {l \in 1..(n + 1) : \A h \in 1..l : Below(Used(s)[h], Used(s)[l])}
<1>3. 1 \in S
  <2>1. \A u \in Counters : Below(u, u)
    BY DEF Below, Counters, Kinds
  <2>2. 1 \in 1..(n + 1) /\ \A h \in 1..1 : h = 1
    BY <1>1
  <2>3. Below(Used(s)[1], Used(s)[1])
    BY <1>2, <2>1, <2>2
  <2> QED BY <2>2, <2>3
<1>4. ASSUME NEW l \in 1..n, l \in S PROVE l + 1 \in S
  <2>1. PICK u, v : u = Used(s)[l] /\ v = Used(s)[l + 1]
    OBVIOUS
  <2>2. u \in Counters /\ v \in Counters
    BY <1>1, <1>2, <2>1
  <2>3. v = Use(s.args[l], u)
    BY <1>1, <2>1, UsedUnfolds
  <2>4. Below(u, v) /\ Below(v, v)
    BY <1>1, <2>2, <2>3, UseType DEF Below, Counters
  <2>5. ASSUME NEW h \in 1..(l + 1) PROVE Below(Used(s)[h], v)
    <3>1. CASE h = l + 1
      BY <2>1, <2>4, <3>1
    <3>2. CASE h # l + 1
      <4>1. h \in 1..l /\ h \in 1..(n + 1)
        BY <1>1, <3>2
      <4>2. PICK w \in Counters : w = Used(s)[h]
        BY <1>2, <4>1
      <4>3. Below(w, u)
        BY <1>4, <2>1, <4>1, <4>2
      <4>4. Below(w, v)
        BY <2>2, <2>4, <4>2, <4>3, BelowTwice
      <4> QED BY <4>2, <4>4
    <3> QED BY <3>1, <3>2
  <2> QED BY <1>1, <2>1, <2>5
<1> HIDE DEF S
<1>5. \A l \in 1..(n + 1) : l \in S
  BY <1>1, <1>3, <1>4, UpToN
<1>6. j \in S /\ i \in 1..j
  BY <1>1, <1>5
<1> QED BY <1>6 DEF S

\* The ABI has a place for every eightbyte, and no two have the same.
LEMMA PlaceIsNew ==
  ASSUME NEW s \in Interface, NEW i \in 1..Len(s.args), NEW k \in Chunks(s.args[i]),
         NEW p, p = Place(s, i, k)
  PROVE  p[1] \in Kinds /\ p[2] \in (Used(s)[i][p[1]] + 1)..Used(s)[i + 1][p[1]]
<1>1. i \in DOMAIN s.args /\ s.args[i] \in Types /\ i \in 1..(Len(s.args) + 1)
  BY InterfaceType
<1>2. PICK u \in Counters : u = Used(s)[i]
  BY <1>1, UsedType
<1>3. Used(s)[i + 1] = Use(s.args[i], u)
  BY <1>1, <1>2, UsedUnfolds
<1>4. p = AbiPlace(s.args[i], u, k)
  BY <1>2, PlaceIsAbiPlace
<1> QED BY <1>1, <1>2, <1>3, <1>4, AbiPlaceIsNew

LEMMA PlacesDiffer ==
  ASSUME NEW s \in Interface,
         NEW i \in 1..Len(s.args), NEW k \in Chunks(s.args[i]),
         NEW j \in 1..Len(s.args), NEW l \in Chunks(s.args[j]),
         Place(s, i, k) = Place(s, j, l)
  PROVE  i = j /\ k = l
<1>1. Len(s.args) \in Nat /\ i \in 1..(Len(s.args) + 1) /\ j \in 1..(Len(s.args) + 1)
      /\ i + 1 \in 1..(Len(s.args) + 1) /\ j + 1 \in 1..(Len(s.args) + 1)
  BY InterfaceType
<1>2. PICK p : p = Place(s, i, k)
  OBVIOUS
<1>3. PICK x, m : x \in Kinds /\ x = p[1] /\ m = p[2]
  BY <1>2, PlaceIsNew
<1>4. /\ m \in (Used(s)[i][x] + 1)..Used(s)[i + 1][x]
      /\ m \in (Used(s)[j][x] + 1)..Used(s)[j + 1][x]
  BY <1>2, <1>3, PlaceIsNew
<1>5. /\ Used(s)[i][x] \in Int /\ Used(s)[j][x] \in Int
      /\ Used(s)[i + 1][x] \in Int /\ Used(s)[j + 1][x] \in Int
  <2>1. ASSUME NEW u \in Counters PROVE u[x] \in Int
    BY <1>3 DEF Counters, Kinds
  <2> QED BY <1>1, <2>1, UsedType
<1>6. ~(i < j)
  <2> SUFFICES ASSUME i < j PROVE FALSE
    OBVIOUS
  <2>1. Below(Used(s)[i + 1], Used(s)[j])
    BY <1>1, UsedGrows
  <2>2. Used(s)[i + 1][x] <= Used(s)[j][x]
    BY <1>3, <2>1 DEF Below, Kinds
  <2> QED BY <1>4, <1>5, <2>2
<1>7. ~(j < i)
  <2> SUFFICES ASSUME j < i PROVE FALSE
    OBVIOUS
  <2>1. Below(Used(s)[j + 1], Used(s)[i])
    BY <1>1, UsedGrows
  <2>2. Used(s)[j + 1][x] <= Used(s)[i][x]
    BY <1>3, <2>1 DEF Below, Kinds
  <2> QED BY <1>4, <1>5, <2>2
<1>8. i = j
  BY <1>6, <1>7
<1>9. k = l
  <2>1. s.args[i] \in Types /\ Used(s)[i] \in Counters
    BY <1>1, InterfaceType, UsedType
  <2>2. AbiPlace(s.args[i], Used(s)[i], k) = AbiPlace(s.args[i], Used(s)[i], l)
    BY <1>8, PlaceIsAbiPlace
  <2> QED BY <1>8, <2>1, <2>2, AbiPlacesDiffer
<1> QED BY <1>8, <1>9

Frames == [int : Seq(Word), sse : Seq(Word), stack : Seq(Word)]

\* The frame C passes to a callback holds every eightbyte at its place.
LEMMA AbiFrameHolds ==
  ASSUME NEW s \in Interface
  PROVE  /\ AbiFrame(s) \in Frames
         /\ Len(AbiFrame(s).int) = 6 /\ Len(AbiFrame(s).sse) = 8
         /\ \A i \in 1..Len(s.args) : \A k \in Chunks(s.args[i]) :
              Look(AbiFrame(s), Place(s, i, k)) = Bytes(i, 8 * k, Left(s.args[i], k))
<1> PICK n : n = Len(s.args)
  OBVIOUS
<1>1. n \in Nat /\ DOMAIN s.args = 1..n /\ \A i \in 1..n : s.args[i] \in Types
  BY InterfaceType
<1> DEFINE chunks == UNION {{i} \X Chunks(s.args[i]) : i \in DOMAIN s.args}
           carried == [p \in chunks |-> Place(s, p[1], p[2])]
           word(p) == Bytes(p[1], 8 * p[2], Left(s.args[p[1]], p[2]))
           here(place) == {p \in DOMAIN carried : carried[p] = place}
           held(place) == IF here(place) = {} THEN Unset
                          ELSE word(CHOOSE p \in here(place) : TRUE)
<1>2. PICK top : top = Used(s)[n + 1]
  OBVIOUS
<1>3. top \in Counters
  BY <1>1, <1>2, UsedType
<1>4. AbiFrame(s) = [int |-> [j \in 1..6 |-> held(<<"int", j>>)],
                     sse |-> [j \in 1..8 |-> held(<<"sse", j>>)],
                     stack |-> [j \in 1..top.stack |-> held(<<"stack", j>>)]]
  BY <1>2 DEF AbiFrame
<1>5. \A p \in chunks : p[1] \in 1..n /\ p[2] \in Chunks(s.args[p[1]]) /\ p = <<p[1], p[2]>>
  BY <1>1
<1>6. \A i \in 1..n : \A k \in Chunks(s.args[i]) : <<i, k>> \in chunks
  BY <1>1
<1>7. \A p \in chunks : word(p) \in Word
  <2> SUFFICES ASSUME NEW p \in chunks PROVE word(p) \in Word
    OBVIOUS
  <2>1. PICK i, k : i \in 1..n /\ i = p[1] /\ k = p[2] /\ k \in Chunks(s.args[i])
    BY <1>5
  <2>2. i \in Nat /\ 8 * k \in Nat /\ Left(s.args[i], k) \in Nat
    <3>1. s.args[i] \in Types
      BY <1>1, <2>1
    <3>2. k \in Nat /\ Left(s.args[i], k) \in 1..8
      BY <2>1, <3>1, SizeType
    <3> QED BY <1>1, <2>1, <3>2
  <2> QED BY <2>1, <2>2 DEF Bytes, Word
<1>8. \A i \in 1..n : \A k \in Chunks(s.args[i]) :
        here(Place(s, i, k)) = {<<i, k>>}
  <2> SUFFICES ASSUME NEW i \in 1..n, NEW k \in Chunks(s.args[i])
               PROVE  here(Place(s, i, k)) = {<<i, k>>}
    OBVIOUS
  <2>1. <<i, k>> \in chunks
    BY <1>6
  <2> HIDE DEF chunks
  <2>2. <<i, k>> \in here(Place(s, i, k))
    BY <2>1
  <2>3. ASSUME NEW p \in here(Place(s, i, k)) PROVE p = <<i, k>>
    <3>1. p \in chunks /\ Place(s, p[1], p[2]) = Place(s, i, k)
      BY <2>3
    <3>2. p[1] \in 1..n /\ p[2] \in Chunks(s.args[p[1]]) /\ p = <<p[1], p[2]>>
      BY <1>5, <3>1
    <3>3. p[1] = i /\ p[2] = k
      BY <3>1, <3>2, PlacesDiffer
    <3> QED BY <3>2, <3>3
  <2> QED BY <2>2, <2>3
<1>9. \A i \in 1..n : \A k \in Chunks(s.args[i]) :
        held(Place(s, i, k)) = Bytes(i, 8 * k, Left(s.args[i], k))
  <2> SUFFICES ASSUME NEW i \in 1..n, NEW k \in Chunks(s.args[i])
               PROVE  held(Place(s, i, k)) = Bytes(i, 8 * k, Left(s.args[i], k))
    OBVIOUS
  <2>1. here(Place(s, i, k)) = {<<i, k>>}
    BY <1>8
  <2> HIDE DEF here
  <2>2. (CHOOSE p \in here(Place(s, i, k)) : TRUE) = <<i, k>>
    BY <2>1
  <2>3. held(Place(s, i, k)) = word(<<i, k>>)
    BY <2>1, <2>2
  <2> QED BY <2>3
<1>10. \A place : held(place) \in Word
  <2> TAKE place
  <2>1. CASE here(place) = {}
    BY <2>1 DEF Unset, Word
  <2>2. CASE here(place) # {}
    <3>1. here(place) \subseteq chunks
      OBVIOUS
    <3>2. (CHOOSE p \in here(place) : TRUE) \in here(place)
      <4> HIDE DEF here
      <4> QED BY <2>2
    <3> HIDE DEF here, chunks
    <3> QED BY <1>7, <2>2, <3>1, <3>2
  <2> QED BY <2>1, <2>2
<1> HIDE DEF held
<1>11. /\ AbiFrame(s) \in Frames
       /\ Len(AbiFrame(s).int) = 6 /\ Len(AbiFrame(s).sse) = 8
  <2>1. top.stack \in Nat
    BY <1>3 DEF Counters
  <2>2. /\ [j \in 1..6 |-> held(<<"int", j>>)] \in Seq(Word)
        /\ [j \in 1..8 |-> held(<<"sse", j>>)] \in Seq(Word)
        /\ [j \in 1..top.stack |-> held(<<"stack", j>>)] \in Seq(Word)
        /\ Len([j \in 1..6 |-> held(<<"int", j>>)]) = 6
        /\ Len([j \in 1..8 |-> held(<<"sse", j>>)]) = 8
    <3>1. ASSUME NEW m \in Nat, NEW x
          PROVE  /\ [j \in 1..m |-> held(<<x, j>>)] \in Seq(Word)
                 /\ Len([j \in 1..m |-> held(<<x, j>>)]) = m
      <4>1. PICK f : f = [j \in 1..m |-> held(<<x, j>>)]
        OBVIOUS
      <4>2. f \in [1..m -> Word]
        BY <1>10, <4>1
      <4>3. f \in Seq(Word) /\ Len(f) = m
        BY <4>2
      <4> QED BY <4>1, <4>3
    <3> QED BY <2>1, <3>1
  <2> QED BY <1>4, <2>2 DEF Frames
<1>12. ASSUME NEW i \in 1..n, NEW k \in Chunks(s.args[i])
       PROVE  Look(AbiFrame(s), Place(s, i, k)) = held(Place(s, i, k))
  <2>1. PICK p : p = Place(s, i, k)
    OBVIOUS
  <2>2. PICK x, m : x \in Kinds /\ x = p[1] /\ m = p[2]
    BY <2>1, PlaceIsNew
  <2>3. m \in (Used(s)[i][x] + 1)..Used(s)[i + 1][x]
    BY <2>1, <2>2, PlaceIsNew
  <2>4. Used(s)[i] \in Counters /\ Used(s)[i + 1] \in Counters /\ Below(Used(s)[i + 1], top)
    <3>1. i \in 1..(n + 1) /\ i + 1 \in 1..(n + 1) /\ n + 1 \in 1..(n + 1) /\ i + 1 <= n + 1
      BY <1>1
    <3> QED BY <1>2, <3>1, UsedType, UsedGrows
  <2>5. m \in 1..top[x]
    <3>1. PICK u \in Counters, v \in Counters : u = Used(s)[i] /\ v = Used(s)[i + 1]
      BY <2>4
    <3>2. Below(v, top) /\ m \in (u[x] + 1)..v[x]
      BY <2>3, <2>4, <3>1
    <3>3. \A c \in Counters : c[x] \in Nat
      BY <2>2 DEF Counters, Kinds
    <3>4. v[x] <= top[x]
      BY <2>2, <3>2 DEF Below, Kinds
    <3>5. PICK a, b, e : a = u[x] /\ b = v[x] /\ e = top[x]
      OBVIOUS
    <3>6. a \in Nat /\ b \in Nat /\ e \in Nat
      BY <1>3, <3>3, <3>5
    <3>7. m \in (a + 1)..b /\ b <= e
      BY <3>2, <3>4, <3>5
    <3>8. m \in 1..e
      BY <3>6, <3>7
    <3> QED BY <3>5, <3>8
  <2>6. p = <<x, m>>
    <3>1. p = AbiPlace(s.args[i], Used(s)[i], k)
      BY <2>1, PlaceIsAbiPlace
    <3> QED BY <2>2, <3>1 DEF AbiPlace
  <2>7. CASE x = "int"
    <3>1. p[1] = "int" /\ p[2] = m /\ p = <<"int", m>>
      BY <2>6, <2>7
    <3>2. m \in 1..6
      BY <1>3, <2>5, <2>7 DEF Counters
    <3>3. AbiFrame(s).int = [j \in 1..6 |-> held(<<"int", j>>)]
      BY <1>4
    <3>4. m \in DOMAIN AbiFrame(s).int /\ AbiFrame(s).int[m] = held(<<"int", m>>)
      BY <3>2, <3>3
    <3> QED BY <2>1, <3>1, <3>4 DEF Look
  <2>8. CASE x = "sse"
    <3>1. p[1] = "sse" /\ p[2] = m /\ p = <<"sse", m>>
      BY <2>6, <2>8
    <3>2. m \in 1..8
      BY <1>3, <2>5, <2>8 DEF Counters
    <3>3. AbiFrame(s).sse = [j \in 1..8 |-> held(<<"sse", j>>)]
      BY <1>4
    <3>4. m \in DOMAIN AbiFrame(s).sse /\ AbiFrame(s).sse[m] = held(<<"sse", m>>)
      BY <3>2, <3>3
    <3> QED BY <2>1, <3>1, <3>4 DEF Look
  <2>9. CASE x = "stack"
    <3>1. p[1] = "stack" /\ p[2] = m /\ p = <<"stack", m>>
      BY <2>6, <2>9
    <3>2. m \in 1..top.stack
      BY <1>3, <2>5, <2>9 DEF Counters
    <3>3. AbiFrame(s).stack = [j \in 1..top.stack |-> held(<<"stack", j>>)]
      BY <1>4
    <3>4. m \in DOMAIN AbiFrame(s).stack /\ AbiFrame(s).stack[m] = held(<<"stack", m>>)
      BY <3>2, <3>3
    <3> QED BY <2>1, <3>1, <3>4 DEF Look
  <2> QED BY <2>2, <2>7, <2>8, <2>9 DEF Kinds
<1> QED BY <1>9, <1>11, <1>12

--------------------------------------------------------------------------------
(* callbackWrap reads.                                                      *)

\* A frame as the dispatcher saves it.
FrameOK(f) == f \in Frames /\ Len(f.int) = 6 /\ Len(f.sse) = 8

LEMMA LookType ==
  ASSUME NEW f \in Frames, NEW p, p[1] \in Kinds
  PROVE  Look(f, p) \in Word
<1>1. PICK held : held = f[p[1]]
  OBVIOUS
<1>2. held \in Seq(Word)
  BY <1>1 DEF Frames, Kinds
<1>3. \A j \in DOMAIN held : held[j] \in Word
  BY <1>2
<1>4. Unset \in Word
  BY DEF Unset, Word
<1> QED BY <1>1, <1>3, <1>4 DEF Look

LEMMA GetReads ==
  ASSUME FrameOK(frame), NEW u \in Counters, NEW c \in {"int", "sse"}
  PROVE  /\ Get(u, c = "sse").word = Look(frame, Slot(u, c))
         /\ Get(u, c = "sse").pos = Bump(u, c)
<1>1. u.int \in 0..6 /\ u.sse \in 0..8 /\ u.stack \in Nat
  BY DEF Counters
<1>2. DOMAIN frame.int = 1..6 /\ DOMAIN frame.sse = 1..8
  BY DEF FrameOK, Frames
<1>3. CASE c = "int" /\ u.int < 6
  <2>1. Slot(u, c) = <<"int", u.int + 1>> /\ u.int + 1 \in DOMAIN frame.int
    BY <1>1, <1>2, <1>3 DEF Slot
  <2>2. Look(frame, Slot(u, c)) = frame.int[u.int + 1]
    BY <2>1 DEF Look
  <2> QED BY <1>3, <2>2 DEF Get, GetInt, Bump
<1>4. CASE c = "sse" /\ u.sse < 8
  <2>1. Slot(u, c) = <<"sse", u.sse + 1>> /\ u.sse + 1 \in DOMAIN frame.sse
    BY <1>1, <1>2, <1>4 DEF Slot
  <2>2. Look(frame, Slot(u, c)) = frame.sse[u.sse + 1]
    BY <2>1 DEF Look
  <2> QED BY <1>4, <2>2 DEF Get, GetFloat, Bump
<1>5. CASE ~(c = "int" /\ u.int < 6) /\ ~(c = "sse" /\ u.sse < 8)
  <2>1. Slot(u, c) = <<"stack", u.stack + 1>> /\ Bump(u, c) = [u EXCEPT !.stack = @ + 1]
    BY <1>5 DEF Slot, Bump
  <2>2. Get(u, c = "sse") = AtStack(u)
    BY <1>5 DEF Get, GetInt, GetFloat
  <2>3. /\ AtStack(u).pos = [u EXCEPT !.stack = @ + 1]
        /\ AtStack(u).word = IF u.stack + 1 \in DOMAIN frame.stack
                             THEN frame.stack[u.stack + 1] ELSE Unset
    BY DEF AtStack
  <2> QED BY <2>1, <2>2, <2>3 DEF Look
<1> QED BY <1>3, <1>4, <1>5

\* What of a place callbackWrap makes of an argument of type t.
Seen(t, w) == IF t.kind = "float" THEN Converted(w) ELSE w
LEMMA SeenType == ASSUME NEW t, NEW w \in Word PROVE Seen(t, w) \in Word
  BY DEF Seen, Converted, Word

\* callbackWrap reads an argument where goffi's counters say.
LEMMA ReadReads ==
  ASSUME FrameOK(frame), NEW t \in Types, NEW u \in Counters, NEW q, q = Read(t, u)
  PROVE  /\ q.pos = GoUse(CbRule, t, u)
         /\ q.words \in Seq(Word) /\ DOMAIN q.words = 1..Eightbytes(t)
         /\ \A k \in Chunks(t) : q.words[k + 1] = Seen(t, Look(frame, GoPlace(CbRule, t, u, k)))
<1>0. \A k : Look(frame, GoPlace(CbRule, t, u, k)) \in Word
  BY LookType, PlaceKind DEF FrameOK
<1>1. CASE InMemory(t)
  <2>1. PICK n \in Nat \ {0} : n = Eightbytes(t)
    BY SizeType
  <2>2. q = ReadMemory(t, u) /\ t.kind = "struct"
    BY <1>1, SizeType DEF Read, InMemory, IsStruct
  <2>3. PICK ws : ws = [k \in 1..n |-> AtStack([u EXCEPT !.stack = @ + k - 1]).word]
    OBVIOUS
  <2>4. q.words = ws /\ q.pos = GoUse(CbRule, t, u)
    BY <1>1, <2>1, <2>2, <2>3 DEF ReadMemory, GoUse
  <2>5. ASSUME NEW k \in Chunks(t)
        PROVE  /\ k + 1 \in 1..n
               /\ AtStack([u EXCEPT !.stack = @ + (k + 1) - 1]).word
                    = Look(frame, GoPlace(CbRule, t, u, k))
    <3>1. k \in 0..(n - 1) /\ GoPlace(CbRule, t, u, k) = <<"stack", u.stack + k + 1>>
      BY <1>1, <2>1 DEF Chunks, GoPlace
    <3>2. [u EXCEPT !.stack = @ + (k + 1) - 1].stack + 1 = u.stack + k + 1
      BY <3>1 DEF Counters
    <3>3. PICK v : v = [u EXCEPT !.stack = @ + (k + 1) - 1]
      OBVIOUS
    <3>4. AtStack(v).word = IF v.stack + 1 \in DOMAIN frame.stack
                            THEN frame.stack[v.stack + 1] ELSE Unset
      BY DEF AtStack
    <3>5. v.stack + 1 = u.stack + k + 1
      BY <3>2, <3>3
    <3> QED BY <3>1, <3>3, <3>4, <3>5 DEF Look
  <2>6. \A k \in Chunks(t) : k + 1 \in 1..n /\ ws[k + 1] = Look(frame, GoPlace(CbRule, t, u, k))
    BY <2>3, <2>5
  <2>7. \A j \in 1..n : j - 1 \in Chunks(t) /\ (j - 1) + 1 = j
    BY <2>1 DEF Chunks
  <2>8. \A j \in 1..n : ws[j] \in Word
    BY <1>0, <2>6, <2>7
  <2>9. ws \in Seq(Word) /\ DOMAIN ws = 1..n
    <3>1. ws = [j \in 1..n |-> ws[j]]
      BY <2>3
    <3>2. ws \in [1..n -> Word]
      BY <2>8, <3>1
    <3> QED BY <3>2
  <2>10. \A w : Seen(t, w) = w
    BY <2>2 DEF Seen
  <2>11. \A k \in Chunks(t) : q.words[k + 1] = Seen(t, Look(frame, GoPlace(CbRule, t, u, k)))
    BY <2>4, <2>6, <2>10
  <2> QED BY <2>1, <2>4, <2>9, <2>11
<1>2. CASE ~InMemory(t) /\ ~(IsStruct(t) /\ t.size > 8)
  <2>1. Chunks(t) = {0} /\ Eightbytes(t) = 1
    BY <1>2, ChunkNumbers
  <2>2. PICK c \in {"int", "sse"} : c = GoClass(CbRule, t, 0)
    BY GoClasses
  <2>3. PICK g : g = Get(u, c = "sse")
    OBVIOUS
  <2>4. GoUse(CbRule, t, u) = Bump(u, c) /\ GoPlace(CbRule, t, u, 0) = Slot(u, c)
    BY <1>2, <2>1, <2>2 DEF GoUse, GoPlace
  <2>5. g.word = Look(frame, GoPlace(CbRule, t, u, 0)) /\ g.pos = GoUse(CbRule, t, u)
    BY <2>3, <2>4, GetReads
  <2>6. q = [words |-> <<Seen(t, g.word)>>, pos |-> g.pos]
    <3>1. CASE ~IsStruct(t)
      <4>1. Get(u, IsFloat(t)) = g
        BY <2>2, <2>3, <3>1, CbClass DEF CbSse, Get
      <4> QED BY <3>1, <4>1 DEF Read, ReadScalar, Seen
    <3>2. CASE IsStruct(t)
      <4>1. Get(u, AllFloats(t)) = g
        BY <1>2, <2>2, <2>3, <3>2, SizeType, CbClass DEF CbSse, Get
      <4>2. q = ReadSmall(t, u)
        BY <1>2, <3>2, SizeType DEF Read
      <4> QED BY <3>2, <4>1, <4>2 DEF ReadSmall, Seen, IsStruct
    <3> QED BY <3>1, <3>2
  <2>7. PICK w \in Word : w = Seen(t, g.word)
    BY <1>0, <2>5, SeenType
  <2>8. q.words = <<w>> /\ q.pos = g.pos
    BY <2>6, <2>7
  <2>9. <<w>> \in Seq(Word) /\ DOMAIN <<w>> = 1..1 /\ <<w>>[1] = w
    OBVIOUS
  <2> QED BY <2>1, <2>5, <2>7, <2>8, <2>9
<1>3. CASE ~InMemory(t) /\ IsStruct(t) /\ t.size > 8
  <2>1. Chunks(t) = {0, 1} /\ Eightbytes(t) = 2 /\ t.size \in 9..16
    BY <1>3, ChunkNumbers
  <2>2. PICK c \in {"int", "sse"}, d \in {"int", "sse"} :
          c = GoClass(CbRule, t, 0) /\ d = GoClass(CbRule, t, 1)
    BY GoClasses
  <2>3. PICK g : g = Get(u, c = "sse")
    OBVIOUS
  <2>4. g.word = Look(frame, Slot(u, c)) /\ g.pos = Bump(u, c) /\ g.pos \in Counters
    BY <2>3, GetReads, BumpType
  <2>5. PICK h : h = Get(g.pos, d = "sse")
    OBVIOUS
  <2>6. h.word = Look(frame, Slot(g.pos, d)) /\ h.pos = Bump(g.pos, d)
    BY <2>4, <2>5, GetReads
  <2>7. /\ GoUse(CbRule, t, u) = h.pos
        /\ GoPlace(CbRule, t, u, 0) = Slot(u, c) /\ GoPlace(CbRule, t, u, 1) = Slot(g.pos, d)
    BY <1>3, <2>1, <2>2, <2>4, <2>6 DEF GoUse, GoPlace
  <2>8. q = [words |-> <<g.word, h.word>>, pos |-> h.pos]
    <3>1. q = ReadPair(t, u)
      BY <1>3, <2>1 DEF Read
    <3>2. /\ EightbyteIsSse(t, 0, 8) <=> c = "sse"
          /\ EightbyteIsSse(t, 8, t.size) <=> d = "sse"
      BY <1>3, <2>1, <2>2, CbClass DEF CbSse
    <3>3. Get(u, EightbyteIsSse(t, 0, 8)) = g
      BY <2>3, <3>2 DEF Get
    <3>4. Get(g.pos, EightbyteIsSse(t, 8, t.size)) = h
      BY <2>5, <3>2 DEF Get
    <3> QED BY <3>1, <3>3, <3>4 DEF ReadPair
  <2>9. PICK w1 \in Word, w2 \in Word : w1 = g.word /\ w2 = h.word
    BY <1>0, <2>4, <2>6, <2>7
  <2>10. q.words = <<w1, w2>> /\ q.pos = h.pos
    BY <2>8, <2>9
  <2>11. /\ <<w1, w2>> \in Seq(Word) /\ DOMAIN <<w1, w2>> = 1..2
         /\ <<w1, w2>>[1] = w1 /\ <<w1, w2>>[2] = w2
    OBVIOUS
  <2>12. \A w : Seen(t, w) = w
    BY <1>3 DEF Seen, IsStruct
  <2>13. /\ q.words[0 + 1] = Seen(t, Look(frame, GoPlace(CbRule, t, u, 0)))
         /\ q.words[1 + 1] = Seen(t, Look(frame, GoPlace(CbRule, t, u, 1)))
    BY <2>4, <2>6, <2>7, <2>9, <2>10, <2>11, <2>12
  <2> QED BY <2>1, <2>7, <2>10, <2>11, <2>13
<1> QED BY <1>1, <1>2, <1>3

--------------------------------------------------------------------------------
(* The inductive invariant: Execute, the callback, and the results.         *)

\* r holds the first n - 1 arguments of s, each where goffi's counters say (the
\* address of a C int, which goffi passes for its value, apart).
Arrived(r, s, i) ==
  \A k \in Chunks(s.args[i]) :
    Carries(Look(r, GoPlace(CallRule, s.args[i], GoUsed(CallRule, s)[i], k)), i, s.args[i], k)
Filled(r, s, n) ==
  /\ RegsAt(r, GoUsed(CallRule, s)[n]) /\ Len(r.stack) <= MaxStackSlots
  /\ \A i \in 1..(n - 1) : s.args[i].kind # "int" => Arrived(r, s, i)

Calling == {"inC", "return", "done", "unsupported"}
NoRegs == [int |-> <<>>, sse |-> <<>>, stack |-> <<>>]
\* Execute has filled the registers up to the argument it is at; a call that was
\* refused did not fit.
Placed ==
  /\ phase \in Phases
  /\ phase \in {"prepare", "rejected"} => regs = NoRegs
  /\ phase \notin {"prepare", "rejected"} => Filled(regs, sig, next)
  /\ phase \in Calling => next = Len(sig.args) + 1
  /\ phase = "rejected" => ~Accepted(totals[Len(sig.args) + 1])

LEMMA SigInterface == ASSUME CountOK PROVE sig \in Interface
  BY SignaturesAssumption DEF CountOK, Interface

LEMMA EmptyHolds == RegsAt(NoRegs, [int |-> 0, sse |-> 0, stack |-> 0])
  BY DEF RegsAt, NoRegs, Regs

LEMMA PreparedFills ==
  ASSUME CountOK, Placed, Prepared PROVE Placed'
<1>1. /\ phase = "prepare" /\ UNCHANGED <<sig, totals>> /\ next' = 1
      /\ next > Len(sig.args) /\ regs = NoRegs
      /\ Len(sig.args) \in Nat /\ sig \in Interface
  BY SigInterface, SigType DEF Prepared, Placed
<1>2. CASE phase' = "rejected" /\ UNCHANGED regs /\ ~Accepted(totals[next])
  <2>1. next = Len(sig.args) + 1
    BY <1>1 DEF CountOK
  <2> QED BY <1>1, <1>2, <2>1 DEF Placed, Phases, Calling
<1>3. CASE /\ phase' = "place"
           /\ regs' = [regs EXCEPT !.int = IF Sret THEN <<AddressOf(0)>> ELSE <<>>]
  <2>1. PICK w : w = AddressOf(0)
    OBVIOUS
  <2>2. PICK q : q = [regs EXCEPT !.int = IF Sret THEN <<w>> ELSE <<>>]
    OBVIOUS
  <2>3. w \in Word
    BY <2>1, WordsAreWords
  <2>4. <<w>> \in Seq(Word) /\ Len(<<w>>) = 1
    BY <2>3
  <2>5. q = [int |-> IF Sret THEN <<w>> ELSE <<>>, sse |-> <<>>, stack |-> <<>>]
    BY <1>1, <2>2 DEF NoRegs
  <2>6. q \in Regs /\ Len(q.int) = (IF Sret THEN 1 ELSE 0) /\ Len(q.sse) = 0 /\ Len(q.stack) = 0
    BY <2>4, <2>5 DEF Regs
  <2>7. GoUsed(CallRule, sig)[1] = First(sig)
    BY <1>1, GoUsedUnfolds
  <2>8. RegsAt(q, GoUsed(CallRule, sig)[1])
    BY <2>6, <2>7 DEF RegsAt, First, Sret, InMemory
  <2>9. 1..(1 - 1) = {}
    OBVIOUS
  <2>10. Filled(q, sig, 1)
    BY <2>6, <2>8, <2>9, SlotsAssumption DEF Filled
  <2>11. regs' = q /\ phase' = "place"
    BY <1>3, <2>1, <2>2
  <2> QED BY <1>1, <2>10, <2>11 DEF Placed, Phases, Calling
<1> QED BY <1>2, <1>3 DEF Prepared

LEMMA ExecuteFills ==
  ASSUME CountOK, Placed, Execute PROVE Placed'
<1>1. /\ phase = "place" /\ next \in 1..Len(sig.args) /\ UNCHANGED <<sig, totals>>
      /\ Len(sig.args) \in Nat /\ sig \in Interface
  BY SigInterface, SigType DEF Execute, CountOK
<1>2. Filled(regs, sig, next)
  BY <1>1 DEF Placed
<1>3. PICK t, r, u, i : t = sig.args[next] /\ r = PlaceArg(regs, next, t)
                        /\ u = GoUsed(CallRule, sig)[next] /\ i = next
  OBVIOUS
<1>4. t \in Types /\ u \in Counters /\ i \in Nat /\ i \in 1..Len(sig.args)
      /\ i \in DOMAIN sig.args
  BY <1>1, <1>3, InterfaceType, GoUsedType
<1>5. CASE UNCHANGED <<next, regs>> /\ phase' = "panic"
  BY <1>1, <1>2, <1>5 DEF Placed, Phases, Calling
<1>6. CASE regs' = r /\ next' = i + 1 /\ phase' = phase /\ ~(Len(r.stack) > MaxStackSlots)
  <2>1. /\ RegsAt(r, GoUse(CallRule, t, u)) /\ Extends(r, regs)
        /\ t.kind # "int" =>
             \A k \in Chunks(t) : Carries(Look(r, GoPlace(CallRule, t, u, k)), i, t, k)
    <3>1. RegsAt(regs, u)
      BY <1>2, <1>3 DEF Filled
    <3> QED BY <1>3, <1>4, <3>1, ArgArrives
  <2>2. GoUsed(CallRule, sig)[i + 1] = GoUse(CallRule, t, u)
    BY <1>1, <1>3, <1>4, GoUsedUnfolds
  <2>3. Len(r.stack) <= MaxStackSlots
    <3>1. r.stack \in Seq(Word)
      BY <2>1 DEF RegsAt, Regs
    <3>2. Len(r.stack) \in Nat
      BY <3>1
    <3> QED BY <1>6, <3>2, SlotsAssumption
  <2>4. ASSUME NEW j \in 1..((i + 1) - 1), sig.args[j].kind # "int"
        PROVE  Arrived(r, sig, j)
    <3>1. CASE j = i
      BY <1>3, <2>1, <2>4, <3>1 DEF Arrived
    <3>2. CASE j # i
      <4>1. j \in 1..(next - 1)
        BY <1>3, <1>4, <3>2
      <4>2. Arrived(regs, sig, j)
        BY <1>2, <2>4, <4>1 DEF Filled
      <4> QED BY <2>1, <4>2, CarriesStays, PlaceKind DEF Arrived
    <3> QED BY <3>1, <3>2
  <2>5. Filled(r, sig, i + 1)
    BY <2>1, <2>2, <2>3, <2>4 DEF Filled
  <2> QED BY <1>1, <1>6, <2>5 DEF Placed, Phases, Calling
<1> QED BY <1>3, <1>5, <1>6 DEF Execute

\* The steps that place nothing.
LEMMA PlacedKept ==
  ASSUME CountOK, Placed, [Next]_vars, ~Prepared, ~Execute PROVE Placed'
<1>1. CASE CountArg
  BY <1>1 DEF CountArg, Placed, Phases, Calling
<1>2. CASE UNCHANGED callVars
  BY <1>2 DEF callVars, Placed
<1>3. CASE EnterC
  <2>1. /\ phase = "place" /\ phase' = "inC" /\ UNCHANGED <<sig, next, totals, regs>>
        /\ next > Len(sig.args) /\ next \in 1..(Len(sig.args) + 1) /\ Len(sig.args) \in Nat
    BY <1>3, SigType DEF EnterC, CountOK
  <2>2. next = Len(sig.args) + 1
    BY <2>1
  <2> QED BY <2>1, <2>2 DEF Placed, Phases, Calling
<1>4. CASE Return
  <2>1. /\ phase = "return" /\ phase' \in {"unsupported", "done"}
        /\ UNCHANGED <<sig, next, totals, regs>>
    BY <1>4 DEF Return
  <2> QED BY <2>1 DEF Placed, Phases, Calling
<1>5. CASE CReturns \/ GoReturns
  <2>1. /\ phase = "inC" /\ phase' = "return" /\ UNCHANGED <<sig, next, totals, regs>>
    BY <1>5 DEF CReturns, GoReturns, LeaveC
  <2> QED BY <2>1 DEF Placed, Phases, Calling
<1>6. CASE CCallsBack \/ GoEntered
  BY <1>2, <1>6 DEF CCallsBack, GoEntered
<1> QED BY <1>1, <1>2, <1>3, <1>4, <1>5, <1>6 DEF Next, CallNext, vars

LEMMA PlacedNext == ASSUME CountOK, Placed, [Next]_vars PROVE Placed'
  BY PreparedFills, ExecuteFills, PlacedKept

LEMMA PlacedInit == Init => Placed
  BY DEF Init, CallInit, Placed, Phases, Calling, NoRegs
--------------------------------------------------------------------------------
\* What GoEntered's dispatcher saves.
Passed(r) == [int |-> [j \in 1..6 |-> Look(r, <<"int", j>>)],
              sse |-> [j \in 1..8 |-> Look(r, <<"sse", j>>)],
              stack |-> [j \in 1..MaxStackSlots |-> Look(r, <<"stack", j>>)]]
LEMMA PassedFrame == ASSUME NEW r \in Regs PROVE FrameOK(Passed(r))
<1>1. \A x \in Kinds : \A j : Look(r, <<x, j>>) \in Word
  BY LookType DEF Regs, Frames
<1>2. ASSUME NEW x \in Kinds, NEW m \in Nat
      PROVE  /\ [j \in 1..m |-> Look(r, <<x, j>>)] \in Seq(Word)
             /\ Len([j \in 1..m |-> Look(r, <<x, j>>)]) = m
  <2>1. PICK f : f = [j \in 1..m |-> Look(r, <<x, j>>)]
    OBVIOUS
  <2>2. f \in [1..m -> Word]
    BY <1>1, <2>1
  <2>3. f \in Seq(Word) /\ Len(f) = m
    BY <2>2
  <2> QED BY <2>1, <2>3
<1> QED BY <1>2, SlotsAssumption DEF FrameOK, Passed, Frames, Kinds

Frame == IF callee = "c" THEN AbiFrame(sig) ELSE Passed(regs)
\* What callbackWrap has read: the first arguments, each from the place goffi's
\* counters give it.
ReadSoFar(g, f, s) ==
  /\ g \in Seq(Seq(Word)) /\ Len(g) <= Len(s.args)
  /\ \A i \in 1..Len(g) : \A k \in Chunks(s.args[i]) :
       g[i][k + 1] = Seen(s.args[i], Look(f, GoPlace(CbRule, s.args[i], GoUsed(CbRule, s)[i], k)))
Called ==
  /\ callee \in {"c", "go"} /\ cb \in {"idle", "read", "run", "returned"} /\ cbType = sig
  /\ callee = "go" \/ cb # "idle" => Callable(sig)
  /\ cb \in {"read", "run"} => phase = "inC"
  /\ cb = "idle" => /\ frame = NoRegs /\ got = <<>>
                    /\ pos = [int |-> 0, sse |-> 0, stack |-> 0]
  /\ cb # "idle" => /\ phase \in Calling
                    /\ frame = Frame /\ ReadSoFar(got, frame, sig)
                    /\ pos = GoUsed(CbRule, sig)[Len(got) + 1]
  /\ cb \in {"run", "returned"} => Len(got) = Len(sig.args)

LEMMA FrameIsFrame ==
  ASSUME CountOK, Placed, Called, cb # "idle" PROVE FrameOK(frame)
<1>1. CASE callee = "c"
  BY <1>1, SigInterface, AbiFrameHolds DEF Called, Frame, FrameOK
<1>2. CASE callee = "go"
  <2>1. regs \in Regs
    BY DEF Called, Placed, Calling, Filled, RegsAt
  <2> QED BY <1>2, <2>1, PassedFrame DEF Called, Frame
<1> QED BY <1>1, <1>2 DEF Called

LEMMA DispatchCalls ==
  ASSUME CountOK, Called, cb = "idle", Callable(sig), phase = "inC",
         UNCHANGED <<callVars, callee, pos, got>>,
         cb' = "read", cbType' = sig, frame' = Frame
  PROVE  Called'
<1>1. sig \in Interface
  BY SigInterface
<1>2. GoUsed(CbRule, sig)[1] = [int |-> 0, sse |-> 0, stack |-> 0]
  BY <1>1, GoUsedUnfolds DEF Callable, First, InMemory
<1>3. /\ got' = <<>> /\ pos' = GoUsed(CbRule, sig)[1] /\ phase' = "inC"
      /\ sig' = sig /\ regs' = regs /\ callee' = callee
  BY <1>2 DEF Called, callVars
<1>4. Frame' = Frame
  BY <1>3 DEF Frame
<1>5. ReadSoFar(<<>>, Frame, sig) /\ Len(<<>>) = 0
  BY <1>1, InterfaceType DEF ReadSoFar
<1>6. ReadSoFar(got', frame', sig') /\ pos' = GoUsed(CbRule, sig')[Len(got') + 1]
  BY <1>3, <1>5
<1> QED BY <1>3, <1>4, <1>6 DEF Called, Calling

LEMMA ReadArgCalls ==
  ASSUME CountOK, Placed, Called, ReadArg, UNCHANGED <<callVars, callee>> PROVE Called'
<1>1. /\ cb = "read" /\ cb' = cb /\ cbType' = cbType /\ frame' = frame
      /\ phase = "inC" /\ sig \in Interface /\ FrameOK(frame) /\ ReadSoFar(got, frame, sig)
      /\ sig' = sig /\ regs' = regs /\ callee' = callee /\ phase' = phase
  BY SigInterface, FrameIsFrame DEF ReadArg, Called, callVars
<1>2. PICK g, n : g = got /\ n = Len(g)
  OBVIOUS
<1>3. g \in Seq(Seq(Word)) /\ n \in Nat /\ n < Len(sig.args) /\ Len(sig.args) \in Nat
  BY <1>1, <1>2, InterfaceType DEF ReadSoFar, ReadArg, Called
<1>4. n + 1 \in 1..Len(sig.args) /\ n + 1 \in DOMAIN sig.args /\ n + 1 \in 1..(Len(sig.args) + 1)
  BY <1>1, <1>3, InterfaceType
<1>5. PICK t, u : t = sig.args[n + 1] /\ u = GoUsed(CbRule, sig)[n + 1]
  OBVIOUS
<1>6. t \in Types /\ u \in Counters /\ pos = u
  BY <1>1, <1>2, <1>4, <1>5, InterfaceType, GoUsedType DEF Called
<1>7. PICK r : r = Read(t, u)
  OBVIOUS
<1>8. /\ r.pos = GoUse(CbRule, t, u) /\ r.words \in Seq(Word)
      /\ \A k \in Chunks(t) : r.words[k + 1] = Seen(t, Look(frame, GoPlace(CbRule, t, u, k)))
  BY <1>1, <1>6, <1>7, ReadReads
<1>9. PICK h, ws : h = Append(g, ws) /\ ws = r.words
  OBVIOUS
<1>10. got' = h /\ pos' = GoUse(CbRule, t, u)
  <2>1. cbType.args[Len(got) + 1] = t
    BY <1>2, <1>5 DEF Called
  <2> QED BY <1>2, <1>6, <1>7, <1>8, <1>9, <2>1 DEF ReadArg
<1>11. /\ h \in Seq(Seq(Word)) /\ Len(h) = n + 1 /\ h[n + 1] = ws
       /\ \A i \in 1..n : h[i] = g[i]
  <2>1. ws \in Seq(Word)
    BY <1>8, <1>9
  <2> QED BY <1>2, <1>3, <1>9, <2>1, AppendProperties
<1>12. ReadSoFar(h, frame, sig)
  <2>1. ASSUME NEW i \in 1..Len(h), NEW k \in Chunks(sig.args[i])
        PROVE  h[i][k + 1] =
                 Seen(sig.args[i],
                      Look(frame, GoPlace(CbRule, sig.args[i], GoUsed(CbRule, sig)[i], k)))
    <3>1. CASE i = n + 1
      BY <1>5, <1>8, <1>9, <1>11, <2>1, <3>1
    <3>2. CASE i # n + 1
      <4>1. i \in 1..n /\ i \in 1..Len(got)
        BY <1>2, <1>3, <1>11, <3>2
      <4>2. h[i] = got[i]
        BY <1>2, <1>11, <4>1
      <4>3. got[i][k + 1] =
              Seen(sig.args[i],
                   Look(frame, GoPlace(CbRule, sig.args[i], GoUsed(CbRule, sig)[i], k)))
        BY <1>1, <2>1, <4>1 DEF ReadSoFar
      <4> QED BY <4>2, <4>3
    <3> QED BY <3>1, <3>2
  <2>2. Len(h) <= Len(sig.args)
    BY <1>3, <1>4, <1>11
  <2> QED BY <1>11, <2>1, <2>2 DEF ReadSoFar
<1>13. GoUsed(CbRule, sig)[Len(h) + 1] = GoUse(CbRule, t, u)
  <2>1. GoUsed(CbRule, sig)[(n + 1) + 1] = GoUse(CbRule, t, u)
    BY <1>1, <1>4, <1>5, GoUsedUnfolds
  <2> QED BY <1>11, <2>1
<1>14. Frame' = Frame
  BY <1>1 DEF Frame
<1>15. /\ frame' = Frame' /\ ReadSoFar(got', frame', sig')
       /\ pos' = GoUsed(CbRule, sig')[Len(got') + 1] /\ phase' \in Calling
  BY <1>1, <1>10, <1>12, <1>13, <1>14 DEF Called, Calling
<1>16. /\ cb' = "read" /\ cbType' = sig' /\ callee' \in {"c", "go"} /\ phase' = "inC"
       /\ Callable(sig')
  BY <1>1 DEF Called
<1> QED BY <1>15, <1>16 DEF Called

\* The other steps of the callback, and those of the call.
LEMMA CalledKept ==
  ASSUME CountOK, Placed, Called, UNCHANGED <<sig, callee, cbType, frame, pos, got>>,
         \/ cb' = cb /\ cb = "idle"
         \/ cb' = cb /\ cb = "returned" /\ phase \in Calling /\ phase' \in Calling /\ regs' = regs
         \/ cb = "read" /\ cb' = "run" /\ Len(got) = Len(cbType.args) /\ UNCHANGED callVars
         \/ cb = "run" /\ cb' = "returned" /\ UNCHANGED callVars
  PROVE  Called'
<1>1. CASE cb' = cb /\ cb = "idle"
  BY <1>1 DEF Called
<1>2. CASE cb # "idle" /\ phase' \in Calling /\ regs' = regs
           /\ \/ cb' = cb /\ cb = "returned"
              \/ cb = "read" /\ cb' = "run" /\ Len(got) = Len(cbType.args) /\ phase' = phase
              \/ cb = "run" /\ cb' = "returned"
  <2>1. Frame' = Frame
    BY <1>2 DEF Frame
  <2> QED BY <1>2, <2>1 DEF Called
<1> QED BY <1>1, <1>2 DEF callVars, Called

LEMMA CalledNext == ASSUME CountOK, Placed, Called, [Next]_vars PROVE Called'
<1>1. At(<<"int", 1>>) = Look(regs, <<"int", 1>>) /\ \A p : At(p) = Look(regs, p)
  BY DEF At, Look
<1>2. CASE UNCHANGED vars
  <2>1. Frame' = Frame
    BY <1>2 DEF vars, callVars, Frame
  <2> QED BY <1>2, <2>1 DEF vars, callVars, cbVars, Called
<1>3. CASE CallNext /\ UNCHANGED <<cbVars, callee>>
  <2>1. sig' = sig
    BY <1>3 DEF CallNext, CountArg, Prepared, Execute, EnterC, Return
  <2>2. CASE cb = "idle"
    BY <1>3, <2>1, <2>2, CalledKept DEF cbVars
  <2>3. CASE cb # "idle"
    <3>1. phase \in Calling
      BY <2>3 DEF Called
    <3>2. Return
      BY <1>3, <3>1 DEF CallNext, CountArg, Prepared, Execute, EnterC, Calling
    <3>3. cb = "returned"
      BY <2>3, <3>2 DEF Return, Called
    <3>4. phase' \in Calling /\ regs' = regs
      BY <3>2 DEF Return, Calling
    <3> QED BY <1>3, <2>1, <3>1, <3>3, <3>4, CalledKept DEF cbVars
  <2> QED BY <2>2, <2>3
<1>4. CASE CbNext /\ UNCHANGED <<callVars, callee>>
  <2>1. CASE ReadArg
    BY <1>4, <2>1, ReadArgCalls
  <2>2. CASE CallGo
    BY <1>4, <2>2, CalledKept DEF CallGo, callVars
  <2>3. CASE LeaveGo
    BY <1>4, <2>3, CalledKept DEF LeaveGo, callVars
  <2> QED BY <1>4, <2>1, <2>2, <2>3 DEF CbNext
<1>5. CASE CCallsBack
  <2>1. Frame = AbiFrame(sig)
    BY <1>5 DEF CCallsBack, Frame
  <2> QED BY <1>5, <2>1, DispatchCalls DEF CCallsBack, Dispatch
<1>6. CASE GoEntered
  <2>1. Frame = [int |-> [j \in 1..6 |-> At(<<"int", j>>)],
                 sse |-> [j \in 1..8 |-> At(<<"sse", j>>)],
                 stack |-> [j \in 1..MaxStackSlots |-> At(<<"stack", j>>)]]
    BY <1>1, <1>6 DEF GoEntered, Frame, Passed
  <2>2. frame' = Frame /\ cb' = "read" /\ cbType' = sig /\ cb = "idle" /\ UNCHANGED <<pos, got>>
    BY <1>6, <2>1 DEF GoEntered, Dispatch
  <2>3. Callable(sig)
    BY <1>6 DEF GoEntered, Called
  <2> QED BY <1>6, <2>2, <2>3, DispatchCalls DEF GoEntered
<1>7. CASE CReturns \/ GoReturns
  <2>1. /\ phase = "inC" /\ phase' = "return" /\ UNCHANGED <<sig, regs, cbVars, callee>>
        /\ cb \in {"idle", "returned"}
    BY <1>7 DEF CReturns, GoReturns, LeaveC
  <2> QED BY <2>1, CalledKept DEF cbVars, Calling
<1> QED BY <1>2, <1>3, <1>4, <1>5, <1>6, <1>7 DEF Next

LEMMA CalledInit == Init => Called
  BY DEF Init, CallInit, CbInit, Called, NoRegs

\* The registers C or the callback returns in, and what handleReturn makes of them.
Returning ==
  /\ ret \in [RetRegs -> Word]
  /\ result \subseteq [off : Nat, n : Nat, word : Word]
  /\ phase \in {"return", "done"} =>
       ret = [r \in RetRegs |-> IF callee = "c" THEN Returned(sig.ret, r) ELSE CallbackRegs(r)]
  /\ phase = "done" => sig.ret.kind # "int" /\ result = HandleReturn(sig.ret)

LEMMA RegsAreWords ==
  ASSUME NEW t \in Types
  PROVE  /\ \A r \in RetRegs : Returned(t, r) \in Word
         /\ Result(t) \in Word /\ Unset \in Word
<1>1. Unset \in Word
  BY DEF Unset, Word
<1>2. Result(t) \in Word
  BY <1>1 DEF Result, Converted, Bytes, Word
<1>3. ASSUME NEW r \in RetRegs PROVE Returned(t, r) \in Word
  <2> DEFINE here == {k \in 0..(Eightbytes(t) - 1) : ReturnReg(t, k) = r}
  <2>1. CASE InMemory(t) \/ t.kind = "void" \/ here = {}
    BY <1>1, <2>1 DEF Returned
  <2>2. CASE ~(InMemory(t) \/ t.kind = "void" \/ here = {})
    <3>1. PICK k : k = CHOOSE e \in here : TRUE
      OBVIOUS
    <3>2. k \in here
      <4> HIDE DEF here
      <4> QED BY <2>2, <3>1
    <3>3. k \in Chunks(t)
      BY <3>2 DEF Chunks
    <3>4. Returned(t, r) = Bytes(0, 8 * k, Left(t, k))
      BY <2>2, <3>1 DEF Returned
    <3>5. 8 * k \in Nat /\ Left(t, k) \in Nat
      <4>1. k \in Nat /\ Left(t, k) \in 1..8
        BY <3>3, SizeType
      <4> QED BY <4>1
    <3> QED BY <3>4, <3>5 DEF Bytes, Word
  <2> QED BY <2>1, <2>2
<1> QED BY <1>1, <1>2, <1>3

LEMMA HandleReturnType ==
  ASSUME NEW t \in Types, ret \in [RetRegs -> Word]
  PROVE  HandleReturn(t) \subseteq [off : Nat, n : Nat, word : Word]
<1>1. t.size \in Nat
  BY SizeIsPositive
<1> PICK R : R = [off : Nat, n : Nat, word : Word]
  OBVIOUS
<1>2. ASSUME NEW off \in Nat, NEW n \in Nat, NEW r \in RetRegs
      PROVE  {Write(off, n, ret[r])} \subseteq R
 BY <1>2 DEF Write
<1> SUFFICES HandleReturn(t) \subseteq R
  OBVIOUS
<1>3. "rax" \in RetRegs /\ "xmm0" \in RetRegs
  BY DEF RetRegs
<1>4. StructRegs(t)[1] \in RetRegs /\ StructRegs(t)[2] \in RetRegs
  BY DEF StructRegs, RetRegs
<1>5. t.size \in 9..16 => t.size - 8 \in Nat
  OBVIOUS
<1>6. CASE t.kind = "void" \/ (IsStruct(t) /\ t.size > 16)
  <2>1. HandleReturn(t) = {}
    BY <1>1, <1>6 DEF HandleReturn, IsStruct, IsFloat
  <2> QED BY <2>1
<1>7. CASE ~(t.kind = "void") /\ IsFloat(t) /\ ~(IsStruct(t) /\ t.size > 16)
  <2>1. HandleReturn(t) = {Write(0, t.size, ret["xmm0"])}
    BY <1>7 DEF HandleReturn, IsFloat, IsStruct
  <2>2. {Write(0, t.size, ret["xmm0"])} \subseteq R
    BY <1>1, <1>2, <1>3
  <2> QED BY <2>1, <2>2
<1>8. CASE ~(t.kind = "void") /\ ~IsFloat(t) /\ IsStruct(t) /\ t.size <= 8
  <2>1. HandleReturn(t) = {Write(0, 8, ret["rax"])}
    BY <1>1, <1>8 DEF HandleReturn
  <2> QED BY <1>2, <1>3, <2>1
<1>9. CASE ~(t.kind = "void") /\ ~IsFloat(t) /\ IsStruct(t) /\ t.size \in 9..16
  <2>1. HandleReturn(t) = {Write(0, 8, ret[StructRegs(t)[1]]),
                           Write(8, t.size - 8, ret[StructRegs(t)[2]])}
    BY <1>9 DEF HandleReturn
  <2>2. /\ {Write(0, 8, ret[StructRegs(t)[1]])} \subseteq R
        /\ {Write(8, t.size - 8, ret[StructRegs(t)[2]])} \subseteq R
    BY <1>2, <1>4, <1>5, <1>9
  <2> QED BY <2>1, <2>2
<1>10. CASE ~(t.kind = "void") /\ ~IsFloat(t) /\ ~IsStruct(t)
  <2>1. HandleReturn(t) = {Write(0, t.size, ret["rax"])}
    BY <1>10 DEF HandleReturn
  <2>2. {Write(0, t.size, ret["rax"])} \subseteq R
    BY <1>1, <1>2, <1>3
  <2> QED BY <2>1, <2>2
<1> QED BY <1>1, <1>6, <1>7, <1>8, <1>9, <1>10

LEMMA ReturningNext == ASSUME CountOK, Called, Returning, [Next]_vars PROVE Returning'
<1>1. sig.ret \in Types
  BY SigInterface, InterfaceType
<1>2. CASE UNCHANGED callVars /\ callee' = callee /\ cbType' = cbType
  BY <1>2 DEF callVars, Returning, HandleReturn, CallbackRegs
<1>3. CASE CReturns
  <2>1. /\ callee = "c" /\ callee' = callee /\ phase' = "return" /\ sig' = sig
        /\ result' = result /\ ret' = [r \in RetRegs |-> Returned(sig.ret, r)]
    BY <1>3 DEF CReturns, LeaveC
  <2>2. ret' \in [RetRegs -> Word]
    BY <1>1, <2>1, RegsAreWords
  <2> QED BY <2>1, <2>2 DEF Returning
<1>4. CASE GoReturns
  <2>1. /\ callee = "go" /\ callee' = callee /\ phase' = "return" /\ sig' = sig
        /\ result' = result /\ cbType' = cbType
        /\ ret' = [r \in RetRegs |-> CallbackRegs(r)]
    BY <1>4 DEF GoReturns, LeaveC, cbVars
  <2>2. \A r : CallbackRegs(r) = IF r = "rax" THEN Result(sig.ret) ELSE Unset
    BY DEF CallbackRegs, Called
  <2>3. \A r \in RetRegs : CallbackRegs(r) \in Word
    BY <1>1, <2>2, RegsAreWords
  <2>4. ret' \in [RetRegs -> Word]
    BY <2>1, <2>3
  <2>5. ret' = [r \in RetRegs |-> IF callee = "c" THEN Returned(sig.ret, r) ELSE CallbackRegs(r)]
    BY <2>1
  <2>6. \A r : CallbackRegs(r)' = CallbackRegs(r)
    BY <2>1 DEF CallbackRegs
  <2> QED BY <2>1, <2>4, <2>5, <2>6 DEF Returning
<1>5. CASE Return /\ UNCHANGED <<cbVars, callee>>
  <2>1. phase = "return" /\ UNCHANGED <<sig, ret, callee, cbType>>
    BY <1>5 DEF Return, cbVars
  <2>2. HandleReturn(sig.ret) \subseteq [off : Nat, n : Nat, word : Word]
    BY <1>1, HandleReturnType DEF Returning
  <2>3. HandleReturn(sig.ret)' = HandleReturn(sig.ret)
    BY <2>1 DEF HandleReturn
  <2>4. \/ phase' = "unsupported" /\ result' = result
        \/ phase' = "done" /\ sig.ret.kind # "int" /\ result' = HandleReturn(sig.ret)
    BY <1>5 DEF Return
  <2>5. \A r : CallbackRegs(r)' = CallbackRegs(r)
    BY <2>1 DEF CallbackRegs
  <2> QED BY <2>1, <2>2, <2>3, <2>4, <2>5 DEF Returning
<1>6. CASE CountArg \/ Prepared \/ Execute \/ EnterC
  <2>1. UNCHANGED <<sig, ret, result>> /\ phase' \notin {"return", "done"}
    BY <1>6 DEF CountArg, Prepared, Execute, EnterC
  <2> QED BY <2>1 DEF Returning
<1>7. CASE CbNext /\ UNCHANGED <<callVars, callee>>
  BY <1>2, <1>7 DEF CbNext, ReadArg, CallGo, LeaveGo
<1>8. CASE CCallsBack \/ GoEntered
  <2>1. cbType' = cbType
    BY <1>8 DEF CCallsBack, GoEntered, Dispatch, Called
  <2> QED BY <1>2, <1>8, <2>1 DEF CCallsBack, GoEntered
<1>9. CASE UNCHANGED vars
  BY <1>2, <1>9 DEF vars, cbVars
<1> QED BY <1>3, <1>4, <1>5, <1>6, <1>7, <1>8, <1>9 DEF Next, CallNext

LEMMA ReturningInit == Init => Returning
<1> SUFFICES ASSUME Init PROVE Returning
  OBVIOUS
<1>1. Unset \in Word
  BY DEF Unset, Word
<1>2. ret = [r \in RetRegs |-> Unset] /\ phase = "prepare" /\ result = {}
  BY DEF Init, CallInit, NoReturn
<1>3. ret \in [RetRegs -> Word]
  BY <1>1, <1>2
<1> QED BY <1>2, <1>3 DEF Returning
--------------------------------------------------------------------------------
\* The inductive invariant of the round trip.
CallInv == IInv /\ Placed /\ Called /\ Returning

\* Counting, placing, the callback and the results stay in step over every step of Go
\* and of C.
THEOREM CallInvariance == Spec => []CallInv
<1>1. Init => CallInv
  BY InitIInv, PlacedInit, CalledInit, ReturningInit DEF CallInv
<1>2. CallInv /\ [Next]_vars => CallInv'
  BY NextKeeps, PlacedNext, CalledNext, ReturningNext DEF CallInv, IInv
<1> QED BY <1>1, <1>2, PTL DEF Spec

LEMMA CallTyped == CallInv => TypeOK
<1> SUFFICES ASSUME CallInv PROVE TypeOK
  OBVIOUS
<1>1. /\ sig \in Interface /\ next \in 1..(Len(sig.args) + 1) /\ totals \in Seq(Counts)
      /\ phase \in Phases
  BY SigInterface DEF CallInv, IInv, CountOK, Placed
<1>2. regs \in Regs /\ Len(regs.int) <= 6 /\ Len(regs.sse) <= 8
  <2>1. CASE phase \in {"prepare", "rejected"}
    <3>1. regs = NoRegs
      BY <2>1 DEF CallInv, Placed
    <3> QED BY <3>1, EmptyHolds DEF NoRegs, RegsAt
  <2>2. CASE phase \notin {"prepare", "rejected"}
    <3>1. PICK u : u = GoUsed(CallRule, sig)[next]
      OBVIOUS
    <3>2. u \in Counters /\ RegsAt(regs, u)
      BY <1>1, <2>2, <3>1, GoUsedType DEF CallInv, Placed, Filled
    <3> QED BY <3>2 DEF RegsAt, Counters
  <2> QED BY <2>1, <2>2
<1>3. CallTypeOK
  BY <1>1, <1>2 DEF CallTypeOK, CallInv, Returning, Counts, Regs, Interface
<1>4. CbTypeOK
  <2>1. CASE cb = "idle"
    <3>1. frame = NoRegs /\ got = <<>> /\ pos = [int |-> 0, sse |-> 0, stack |-> 0]
      BY <2>1 DEF CallInv, Called
    <3>2. NoRegs \in Regs
      BY EmptyHolds DEF RegsAt
    <3> QED BY <2>1, <3>1, <3>2 DEF CbTypeOK, Regs
  <2>2. CASE cb # "idle"
    <3>1. FrameOK(frame)
      BY <2>2, FrameIsFrame DEF CallInv, IInv
    <3>2. got \in Seq(Seq(Word)) /\ Len(got) <= Len(sig.args) 
          /\ pos = GoUsed(CbRule, sig)[Len(got) + 1]
          /\ cb \in {"idle", "read", "run", "returned"}
      BY <2>2 DEF CallInv, Called, ReadSoFar
    <3>3. Len(got) + 1 \in 1..(Len(sig.args) + 1)
      <4>1. Len(got) \in Nat /\ Len(sig.args) \in Nat
        BY <1>1, <3>2, InterfaceType
      <4> QED BY <3>2, <4>1
    <3>4. pos \in Counters
      BY <1>1, <3>2, <3>3, GoUsedType
    <3> QED BY <3>1, <3>2, <3>4 DEF CbTypeOK, FrameOK, Frames, Counters
  <2> QED BY <2>1, <2>2
<1> QED BY <1>3, <1>4 DEF TypeOK, CallInv, Called

\* What the state records has its type: an Execute that fills more than the six and
\* eight registers, or a callback that counts past them, would break it.
THEOREM CallTypeCorrect == Spec => []TypeOK
<1> QED BY CallTyped, CallInvariance, PTL

LEMMA Arrives == CallInv => ArgsArrive
<1> SUFFICES ASSUME CallInv, phase = "inC", ~Splits(sig), None(Hides, sig), ~Has("int", sig),
                    NEW i \in DOMAIN sig.args, NEW k \in Chunks(sig.args[i])
             PROVE  Carries(At(Place(sig, i, k)), i, sig.args[i], k)
  BY DEF ArgsArrive
<1>1. sig \in Interface /\ DOMAIN sig.args = 1..Len(sig.args) /\ Len(sig.args) \in Nat
  BY SigInterface, InterfaceType DEF CallInv, IInv
<1>2. next = Len(sig.args) + 1 /\ Filled(regs, sig, next)
  BY DEF CallInv, Placed, Calling
<1>3. i \in 1..(next - 1) /\ sig.args[i].kind # "int"
  BY <1>1, <1>2 DEF Has
<1>4. Arrived(regs, sig, i)
  BY <1>2, <1>3 DEF Filled
<1>5. GoPlace(CallRule, sig.args[i], GoUsed(CallRule, sig)[i], k) = Place(sig, i, k)
  <2>1. \A j \in DOMAIN sig.args : Alike(CallRule, AbiRule, sig.args[j])
    BY <1>1, InterfaceType, CallLikeAbi DEF None
  <2> QED BY <1>1, <2>1, GoIsAbi
<1>6. \A p : At(p) = Look(regs, p)
  BY DEF At, Look
<1> QED BY <1>4, <1>5, <1>6 DEF Arrived

\* C finds every argument of a call where the ABI puts it, over every interface and
\* every number of stack slots, unless a struct is split, a nested struct hides a class or
\* a C int is passed.
THEOREM ArgumentsArrive == Spec => []ArgsArrive
<1> QED BY Arrives, CallInvariance, PTL

\* What classifyArgumentAMD64 counts and the ABI has no register for is on the stack.
Covered(c, u) == Over(c.int, u.int) + Over(c.sse, u.sse) <= u.stack

LEMMA OverFacts ==
  ASSUME NEW n \in Nat, NEW limit \in Nat
  PROVE  /\ Over(n, limit) \in Nat
         /\ \A a \in Nat : Over(n + a, limit) \in Nat /\ Over(n + a, limit) <= Over(n, limit) + a
  BY DEF Over

LEMMA CoveredAfter ==
  ASSUME NEW t \in Types, ~Hides(t), NEW c \in Counts, NEW u \in Counters, Covered(c, u)
  PROVE  Covered(After(c, t), Use(t, u))
<1>1. u.int \in 0..6 /\ u.sse \in 0..8 /\ u.stack \in Nat /\ c.int \in Nat /\ c.sse \in Nat
  BY DEF Counters, Counts
<1>2. PICK a, b : a = GprCount(t) /\ b = SseCount(t)
  OBVIOUS
<1>3. a \in Nat /\ b \in Nat
  BY <1>2, CountsAreNat
<1>4. After(c, t).int = c.int + a /\ After(c, t).sse = c.sse + b
  BY <1>2 DEF After
<1>5. CASE InMemory(t)
  <2>1. a = 0 /\ b = 0
    BY <1>2, <1>5, SizeType DEF InMemory, GprCount, SseCount, IsStruct, IsFloat
  <2>2. PICK n \in Nat : n = Eightbytes(t)
    BY SizeType
  <2>3. Use(t, u) = [u EXCEPT !.stack = @ + n]
    BY <1>5, <2>2 DEF Use, Fits
  <2>4. Use(t, u).int = u.int /\ Use(t, u).sse = u.sse /\ Use(t, u).stack = u.stack + n
    BY <2>3 DEF Counters
  <2> QED BY <1>1, <1>4, <2>1, <2>2, <2>4 DEF Covered, Over
<1>6. CASE ~InMemory(t)
  <2>1. PICK x, y : x = Count(t, Eightbytes(t), "int") /\ y = Count(t, Eightbytes(t), "sse")
    OBVIOUS
  <2>2. a = x /\ b = y /\ x + y = Eightbytes(t) /\ x \in Nat /\ y \in Nat
    <3>1. CASE ~IsStruct(t)
      <4>1. Eightbytes(t) = 1
        BY <1>6, <3>1, ChunkNumbers
      <4>2. /\ x = (IF Class(t, 0) = "int" THEN 1 ELSE 0)
            /\ y = (IF Class(t, 0) = "sse" THEN 1 ELSE 0)
        BY <2>1, <4>1, CountFacts
      <4>3. Class(t, 0) = IF IsFloat(t) THEN "sse" ELSE "int"
        BY <3>1 DEF Class
      <4> QED BY <1>2, <3>1, <4>1, <4>2, <4>3, ScalarCounts
    <3>2. CASE IsStruct(t) /\ t.size <= 8
      <4>1. Eightbytes(t) = 1
        BY <1>6, <3>2, ChunkNumbers, SizeType
      <4>2. /\ x = (IF Class(t, 0) = "int" THEN 1 ELSE 0)
            /\ y = (IF Class(t, 0) = "sse" THEN 1 ELSE 0)
        BY <2>1, <4>1, CountFacts
      <4>3. Class(t, 0) = IF IsStructAllFloats(t) THEN "sse" ELSE "int"
        BY <3>2, ClassOfSmall, Classes
      <4> QED BY <1>2, <3>2, <4>1, <4>2, <4>3, SmallCounts
    <3>3. CASE IsStruct(t) /\ t.size > 8
      <4>1. Eightbytes(t) = 2 /\ t.size \in 9..16
        BY <1>6, <3>3, ChunkNumbers
      <4>2. /\ x = (IF Class(t, 0) = "int" THEN 1 ELSE 0) + (IF Class(t, 1) = "int" THEN 1 ELSE 0)
            /\ y = (IF Class(t, 0) = "sse" THEN 1 ELSE 0) + (IF Class(t, 1) = "sse" THEN 1 ELSE 0)
        BY <2>1, <4>1, CountFacts
      <4>3. /\ Class(t, 0) \in {"int", "sse"} /\ Class(t, 1) \in {"int", "sse"}
            /\ ClassifyEightbyte(t, 0, 8) <=> Class(t, 0) = "sse"
            /\ ClassifyEightbyte(t, 8, t.size) <=> Class(t, 1) = "sse"
        BY <3>3, <4>1, ClassOfPair, Classes
      <4>4. /\ b = (IF ClassifyEightbyte(t, 0, 8) THEN 1 ELSE 0)
                     + (IF ClassifyEightbyte(t, 8, t.size) THEN 1 ELSE 0)
            /\ a = 2 - b
        BY <1>2, <3>3, <4>1, PairCounts
      <4> QED BY <4>1, <4>2, <4>3, <4>4
    <3> QED BY <3>1, <3>2, <3>3, SizeType
  <2>3. CASE Fits(t, u)
    <3>1. Use(t, u) = [u EXCEPT !.int = @ + x, !.sse = @ + y]
      BY <2>1, <2>3 DEF Use
    <3>2. /\ Use(t, u).int = u.int + x /\ Use(t, u).sse = u.sse + y
          /\ Use(t, u).stack = u.stack
      BY <3>1 DEF Counters
    <3> QED BY <1>1, <1>4, <2>2, <3>2 DEF Covered, Over
  <2>4. CASE ~Fits(t, u)
    <3>1. Use(t, u) = [u EXCEPT !.stack = @ + Eightbytes(t)]
      BY <2>4 DEF Use
    <3>2. PICK n : n = Eightbytes(t)
      OBVIOUS
    <3>3. Use(t, u).int = u.int /\ Use(t, u).sse = u.sse /\ Use(t, u).stack = u.stack + n
      BY <3>1, <3>2 DEF Counters
    <3>4. n = a + b
      BY <2>2, <3>2
    <3>5. /\ Over(c.int + a, u.int) <= Over(c.int, u.int) + a
          /\ Over(c.sse + b, u.sse) <= Over(c.sse, u.sse) + b
          /\ Over(c.int, u.int) \in Nat /\ Over(c.sse, u.sse) \in Nat
          /\ Over(c.int + a, u.int) \in Nat /\ Over(c.sse + b, u.sse) \in Nat
      <4>1. u.int \in Nat /\ u.sse \in Nat
        BY <1>1
      <4> QED BY <1>1, <1>3, <4>1, OverFacts
    <3>6. Over(c.int, u.int) + Over(c.sse, u.sse) <= u.stack
      BY DEF Covered
    <3>7. Over(c.int + a, u.int) + Over(c.sse + b, u.sse) <= u.stack + n
      BY <1>1, <1>3, <3>4, <3>5, <3>6
    <3> QED BY <1>4, <3>3, <3>7 DEF Covered
  <2> QED BY <2>3, <2>4
<1> QED BY <1>5, <1>6

LEMMA RejectedDoesNotFit ==
  ASSUME CountOK, phase = "rejected", ~Accepted(totals[Len(sig.args) + 1]), None(Hides, sig)
  PROVE  Used(sig)[Len(sig.args) + 1].stack > MaxStackSlots
<1> PICK n : n = Len(sig.args)
  OBVIOUS
<1>1. /\ sig \in Interface /\ n \in Nat /\ Len(totals) = n + 1 /\ totals \in Seq(Counts)
      /\ DOMAIN sig.args = 1..n /\ \A i \in 1..n : sig.args[i] \in Types
  BY SigInterface, InterfaceType DEF CountOK
<1>2. \A i \in 1..(n + 1) : totals[i] \in Counts /\ Used(sig)[i] \in Counters
  BY <1>1, UsedType
<1> DEFINE S == {i \in 1..(n + 1) : Covered(totals[i], Used(sig)[i])}
<1>3. 1 \in S
  <2>1. totals[1] = [int |-> 0, sse |-> 0] /\ Used(sig)[1] = First(sig)
    BY <1>1, UsedUnfolds DEF CountOK
  <2>2. Covered(totals[1], Used(sig)[1])
    BY <2>1 DEF Covered, Over, First
  <2> QED BY <1>1, <2>2
<1>4. ASSUME NEW i \in 1..n, i \in S PROVE i + 1 \in S
  <2>1. i \in 1..(n + 1) /\ i + 1 \in 1..(n + 1) /\ i \in 1..(Len(totals) - 1)
    BY <1>1
  <2>2. PICK t, c, u : t = sig.args[i] /\ c = totals[i] /\ u = Used(sig)[i]
    OBVIOUS
  <2>3. t \in Types /\ c \in Counts /\ u \in Counters /\ Covered(c, u) /\ ~Hides(t)
    BY <1>1, <1>2, <1>4, <2>1, <2>2 DEF None
  <2>4. totals[i + 1] = After(c, t) /\ Used(sig)[i + 1] = Use(t, u)
    BY <1>1, <2>1, <2>2, UsedUnfolds DEF CountOK
  <2>5. Covered(totals[i + 1], Used(sig)[i + 1])
    BY <2>3, <2>4, CoveredAfter
  <2> QED BY <2>1, <2>5
<1> HIDE DEF S
<1>5. \A i \in 1..(n + 1) : i \in S
  BY <1>1, <1>3, <1>4, UpToN
<1>6. PICK c, u : c = totals[n + 1] /\ u = Used(sig)[n + 1]
  OBVIOUS
<1>7. n + 1 \in 1..(n + 1)
  BY <1>1
<1>8. c \in Counts /\ u \in Counters /\ Covered(c, u)
  BY <1>2, <1>5, <1>6, <1>7 DEF S
<1>9. /\ u.int \in 0..6 /\ u.sse \in 0..8 /\ u.stack \in Nat /\ c.int \in Nat /\ c.sse \in Nat
  BY <1>8 DEF Counters, Counts
<1> PICK a \in Nat, b \in Nat, x \in 0..6, y \in 0..8 :
      a = c.int /\ b = c.sse /\ x = u.int /\ y = u.sse
  BY <1>9
<1>10. Over(c.int, 6) <= Over(c.int, u.int) /\ Over(c.sse, 8) <= Over(c.sse, u.sse)
  <2>1. Over(a, 6) <= Over(a, x)
    <3>1. x \in Nat /\ x <= 6
      OBVIOUS
    <3> QED BY <3>1 DEF Over
  <2>2. Over(b, 8) <= Over(b, y)
    <3>1. y \in Nat /\ y <= 8
      OBVIOUS
    <3> QED BY <3>1 DEF Over
  <2> QED BY <2>1, <2>2
<1>11. Over(c.int, 6) \in Nat /\ Over(c.sse, 8) \in Nat
       /\ Over(c.int, u.int) \in Nat /\ Over(c.sse, u.sse) \in Nat
  <2>1. Over(a, 6) \in Nat /\ Over(a, x) \in Nat
    BY DEF Over
  <2>2. Over(b, 8) \in Nat /\ Over(b, y) \in Nat
    BY DEF Over
  <2> QED BY <2>1, <2>2
<1>12. ~(Over(c.int, 6) + Over(c.sse, 8) <= MaxStackSlots)
  BY <1>6 DEF Accepted
<1>13. Over(c.int, u.int) + Over(c.sse, u.sse) <= u.stack
  BY <1>8 DEF Covered
<1>14. u.stack > MaxStackSlots
  BY <1>9, <1>10, <1>11, <1>12, <1>13, SlotsAssumption
<1> QED BY <1>6, <1>14

\* PrepareCallInterface refuses nothing that would have fitted, unless a nested struct
\* hides a class, and what it accepts fits, unless a struct goes through memory.
THEOREM AcceptanceExact == Spec => []AcceptanceIsExact
<1>1. CallInv => PreparedCallFits
  BY DEF CallInv, IInv, PlaceOK, PreparedCallFits, Counted
<1>2. CallInv => AcceptanceIsExact
  BY <1>1, RejectedDoesNotFit DEF CallInv, IInv, Placed, AcceptanceIsExact
<1> QED BY <1>2, CallInvariance, PTL
--------------------------------------------------------------------------------
(* Results.                                                                 *)

\* Each eightbyte of a value in registers is in a register of its own.
LEMMA ReturnedThere ==
  ASSUME NEW t \in Types, ~InMemory(t), t.kind # "void", NEW k \in Chunks(t)
  PROVE  /\ ReturnReg(t, k) \in RetRegs
         /\ Returned(t, ReturnReg(t, k)) = Bytes(0, 8 * k, Left(t, k))
<1>1. ReturnReg(t, k) \in RetRegs
  BY DEF ReturnReg, RetRegs
<1>2. k \in {0, 1} /\ Chunks(t) \subseteq {0, 1}
  BY ChunkNumbers
<1>3. ReturnReg(t, 0) # ReturnReg(t, 1)
  <2>1. Count(t, 0, "int") = 0 /\ Count(t, 0, "sse") = 0
        /\ Count(t, 1, "int") = (IF Class(t, 0) = "int" THEN 1 ELSE 0)
        /\ Count(t, 1, "sse") = (IF Class(t, 0) = "sse" THEN 1 ELSE 0)
    BY CountFacts
  <2> QED BY <2>1, Classes DEF ReturnReg
<1> DEFINE here == {l \in 0..(Eightbytes(t) - 1) : ReturnReg(t, l) = ReturnReg(t, k)}
<1>4. here = {k}
  BY <1>2, <1>3 DEF Chunks
<1>5. (CHOOSE l \in here : TRUE) = k
  <2> HIDE DEF here
  <2> QED BY <1>4
<1>6. Returned(t, ReturnReg(t, k)) = Bytes(0, 8 * k, Left(t, k))
  BY <1>4, <1>5 DEF Returned
<1> QED BY <1>1, <1>6

LEMMA ResultThere == CallInv => ResultArrives
<1> SUFFICES ASSUME CallInv, phase = "done", callee = "c", sig.ret.kind # "void",
                    ~InMemory(sig.ret),
                    ~(IsStruct(sig.ret) /\ sig.ret.size <= 8 /\ Class(sig.ret, 0) = "sse"),
                    ~HidesPair(sig.ret),
                    NEW k \in Chunks(sig.ret)
             PROVE  \E w \in result : w.off = 8 * k /\ w.n >= Left(sig.ret, k)
                                      /\ Carries(w.word, 0, sig.ret, k)
  BY DEF ResultArrives
<1> PICK t : t = sig.ret
  OBVIOUS
<1>1. t \in Types /\ t.size \in Nat \ {0} /\ t.kind # "int"
  BY SigInterface, InterfaceType, SizeType DEF CallInv, IInv, Returning
<1>2. ret = [r \in RetRegs |-> Returned(t, r)] /\ result = HandleReturn(t)
  BY DEF CallInv, Returning
<1>3. \A l \in Chunks(t) : ret[ReturnReg(t, l)] = Bytes(0, 8 * l, Left(t, l))
  BY <1>1, <1>2, ReturnedThere
<1>4. \A l \in Chunks(t) : Carries(Bytes(0, 8 * l, Left(t, l)), 0, t, l)
  <2> TAKE l \in Chunks(t)
  <2>1. Left(t, l) \in 1..8
    BY <1>1, SizeType
  <2> QED BY <2>1 DEF Carries, Bytes
<1>5. CASE ~(IsStruct(t) /\ t.size > 8)
  <2>1. Chunks(t) = {0} /\ Left(t, 0) \in 1..8 /\ t.size \in 1..8
    <3>1. Chunks(t) = {0}
      BY <1>1, <1>5, ChunkNumbers
    <3>2. Left(t, 0) \in 1..8
      BY <1>1, <3>1, SizeType
    <3> QED BY <1>1, <1>5, <3>1, <3>2, SizeIsPositive
  <2>2. Left(t, 0) = t.size
    BY <2>1 DEF Left
  <2>3. PICK r : r = ReturnReg(t, 0)
    OBVIOUS
  <2>4. r = IF Class(t, 0) = "int" THEN "rax" ELSE "xmm0"
    BY <2>3, CountFacts DEF ReturnReg
  <2>5. \E n \in Nat : n >= t.size /\ HandleReturn(t) = {Write(0, n, ret[r])}
    <3>1. CASE IsFloat(t)
      <4>1. ~IsStruct(t)
        BY <3>1 DEF IsFloat, IsStruct
      <4>2. r = "xmm0"
        BY <1>1, <2>4, <3>1, <4>1, ClassOfScalar
      <4>3. HandleReturn(t) = {Write(0, t.size, ret["xmm0"])}
        BY <3>1 DEF HandleReturn, IsFloat, IsStruct
      <4> QED BY <1>1, <4>2, <4>3
    <3>2. CASE ~IsFloat(t) /\ ~IsStruct(t)
      <4>1. r = "rax"
        BY <2>4, <3>2 DEF Class
      <4>2. HandleReturn(t) = {Write(0, t.size, ret["rax"])}
        BY <3>2 DEF HandleReturn
      <4> QED BY <1>1, <4>1, <4>2
    <3>3. CASE IsStruct(t)
      <4>1. ~IsFloat(t) /\ t.size <= 8
        BY <1>1, <1>5, <3>3 DEF IsFloat, IsStruct
      <4>2. r = "rax"
        BY <1>1, <2>4, <3>3, <4>1, Classes
      <4>3. HandleReturn(t) = {Write(0, 8, ret["rax"])}
        BY <2>1, <3>3, <4>1 DEF HandleReturn
      <4> QED BY <2>1, <4>2, <4>3
    <3> QED BY <3>1, <3>2, <3>3
  <2>6. PICK n \in Nat : n >= t.size /\ HandleReturn(t) = {Write(0, n, ret[r])}
    BY <2>5
  <2>7. k = 0 /\ Carries(ret[r], 0, t, 0)
    <3>1. ret[r] = Bytes(0, 8 * 0, Left(t, 0))
      BY <1>3, <2>1, <2>3
    <3> QED BY <1>4, <2>1, <3>1
  <2>8. Write(0, n, ret[r]) \in result
    BY <1>2, <2>6
  <2>9. /\ Write(0, n, ret[r]).off = 8 * k /\ Write(0, n, ret[r]).n >= Left(t, k)
        /\ Carries(Write(0, n, ret[r]).word, 0, t, k)
    BY <2>2, <2>6, <2>7 DEF Write
  <2> QED BY <2>8, <2>9
<1>6. CASE IsStruct(t) /\ t.size > 8
  <2>1. Chunks(t) = {0, 1} /\ t.size \in 9..16 /\ ~IsFloat(t) /\ t.kind # "void"
    BY <1>1, <1>6, ChunkNumbers DEF IsFloat, IsStruct
  <2>2. StructRegs(t)[1] = ReturnReg(t, 0) /\ StructRegs(t)[2] = ReturnReg(t, 1)
    <3>1. /\ Class(t, 0) \in {"int", "sse"} /\ Class(t, 1) \in {"int", "sse"}
          /\ ClassifyEightbyte(t, 0, 8) <=> Class(t, 0) = "sse"
          /\ ClassifyEightbyte(t, 8, t.size) <=> Class(t, 1) = "sse"
      <4>1. ~Hides(t)
        BY <1>6 DEF HidesPair
      <4> QED BY <1>1, <1>6, <2>1, <4>1, ClassOfPair, Classes
    <3>2. Count(t, 0, "int") = 0 /\ Count(t, 0, "sse") = 0
          /\ Count(t, 1, "int") = (IF Class(t, 0) = "int" THEN 1 ELSE 0)
          /\ Count(t, 1, "sse") = (IF Class(t, 0) = "sse" THEN 1 ELSE 0)
      BY CountFacts
    <3> QED BY <3>1, <3>2 DEF StructRegs, ReturnReg
  <2>3. HandleReturn(t) = {Write(0, 8, ret[StructRegs(t)[1]]),
                           Write(8, t.size - 8, ret[StructRegs(t)[2]])}
    BY <1>6, <2>1 DEF HandleReturn
  <2>4. PICK v, w : v = Write(0, 8, ret[ReturnReg(t, 0)])
                    /\ w = Write(8, t.size - 8, ret[ReturnReg(t, 1)])
    OBVIOUS
  <2>5. v \in result /\ w \in result
    BY <1>2, <2>2, <2>3, <2>4
  <2>6. /\ v.off = 0 /\ v.n = 8 /\ v.word = ret[ReturnReg(t, 0)]
        /\ w.off = 8 /\ w.n = t.size - 8 /\ w.word = ret[ReturnReg(t, 1)]
    BY <2>4 DEF Write
  <2>7. Carries(v.word, 0, t, 0) /\ Carries(w.word, 0, t, 1)
    BY <1>3, <1>4, <2>1, <2>6
  <2>8. Left(t, 0) = 8 /\ (Left(t, 1) = 8 \/ Left(t, 1) = t.size - 8) /\ Left(t, 1) <= t.size - 8
    BY <2>1 DEF Left
  <2>9. CASE k = 0
    BY <2>5, <2>6, <2>7, <2>8, <2>9
  <2>10. CASE k = 1
    BY <2>1, <2>5, <2>6, <2>7, <2>8, <2>10
  <2> QED BY <2>1, <2>9, <2>10
<1> QED BY <1>5, <1>6

\* rvalue holds what C returned, for every result type but a struct of up to 8 bytes
\* of floats and a larger one in which a nested struct hides a class.
THEOREM ResultsArrive == Spec => []ResultArrives
<1> QED BY ResultThere, CallInvariance, PTL

--------------------------------------------------------------------------------
(* Callbacks.                                                               *)

\* What a callback is given, seen at the places goffi's counters give.
LEMMA SeesWhatIsThere ==
  ASSUME CallInv, cb = "run", ~Has("float", cbType),
         NEW i \in DOMAIN got, NEW k \in Chunks(cbType.args[i])
  PROVE  /\ cbType = sig /\ Callable(sig) /\ phase = "inC" /\ sig \in Interface
         /\ i \in 1..Len(sig.args) /\ k \in Chunks(sig.args[i])
         /\ got[i][k + 1] = Look(frame, GoPlace(CbRule, sig.args[i], GoUsed(CbRule, sig)[i], k))
<1>1. /\ cbType = sig /\ Callable(sig) /\ phase = "inC" /\ sig \in Interface
      /\ ReadSoFar(got, frame, sig) /\ Len(got) = Len(sig.args)
  BY SigInterface DEF CallInv, IInv, Called
<1>2. got \in Seq(Seq(Word))
  BY <1>1 DEF ReadSoFar
<1>3. i \in 1..Len(got) /\ i \in 1..Len(sig.args) /\ i \in DOMAIN sig.args
  BY <1>1, <1>2, InterfaceType
<1>4. got[i][k + 1] =
        Seen(sig.args[i],
             Look(frame, GoPlace(CbRule, sig.args[i], GoUsed(CbRule, sig)[i], k)))
  BY <1>1, <1>3 DEF ReadSoFar
<1>5. sig.args[i].kind # "float"
  BY <1>1, <1>3 DEF Has
<1> QED BY <1>1, <1>3, <1>4, <1>5 DEF Seen

LEMMA CallbackSees == CallInv => CallbackSeesArgs
<1> SUFFICES ASSUME CallInv, cb = "run", callee = "c", ~Splits(cbType),
                    None(HidesPair, cbType), ~Has("float", cbType),
                    NEW i \in DOMAIN got, NEW k \in Chunks(cbType.args[i])
             PROVE  Carries(got[i][k + 1], i, cbType.args[i], k)
  BY DEF CallbackSeesArgs
<1>1. /\ cbType = sig /\ sig \in Interface /\ i \in 1..Len(sig.args) /\ k \in Chunks(sig.args[i])
      /\ got[i][k + 1] = Look(frame, GoPlace(CbRule, sig.args[i], GoUsed(CbRule, sig)[i], k))
  BY SeesWhatIsThere
<1>2. frame = AbiFrame(sig)
  BY DEF CallInv, Called, Frame
<1>3. GoPlace(CbRule, sig.args[i], GoUsed(CbRule, sig)[i], k) = Place(sig, i, k)
  <2>1. \A j \in DOMAIN sig.args : Alike(CbRule, AbiRule, sig.args[j])
    BY <1>1, InterfaceType, CbLikeAbi DEF None
  <2> QED BY <1>1, <2>1, GoIsAbi
<1>4. got[i][k + 1] = Bytes(i, 8 * k, Left(sig.args[i], k))
  BY <1>1, <1>2, <1>3, AbiFrameHolds
<1>5. Left(sig.args[i], k) \in 1..8
  BY <1>1, InterfaceType, SizeType
<1> QED BY <1>1, <1>4, <1>5 DEF Carries, Bytes

\* A Go callback sees every argument C passes it where the ABI says, whatever their
\* number and types, unless a struct is split, a nested struct hides the class of one
\* of two eightbytes or an argument is a float32.
THEOREM CallbacksSeeArguments == Spec => []CallbackSeesArgs
<1> QED BY CallbackSees, CallInvariance, PTL

\* Inside goffi a callback finds in the frame what Execute put into the registers.
LEMMA PassedOn ==
  ASSUME NEW r \in Regs, Len(r.int) <= 6, Len(r.sse) <= 8, Len(r.stack) <= MaxStackSlots,
         NEW p, p[1] \in Kinds, p = <<p[1], p[2]>>,
         NEW i, NEW t, NEW k, Carries(Look(r, p), i, t, k)
  PROVE  Carries(Look(Passed(r), p), i, t, k)
<1>1. PICK x, m : x \in Kinds /\ x = p[1] /\ m = p[2] /\ p = <<x, m>>
  OBVIOUS
<1>2. m \in DOMAIN r[x]
  BY <1>1 DEF Look, Carries, Unset
<1>3. /\ Len(r.int) \in Nat /\ Len(r.sse) \in Nat /\ Len(r.stack) \in Nat
      /\ DOMAIN r.int = 1..Len(r.int) /\ DOMAIN r.sse = 1..Len(r.sse)
      /\ DOMAIN r.stack = 1..Len(r.stack)
  BY DEF Regs
<1>4. CASE x = "int"
  <2>1. m \in 1..6
    BY <1>2, <1>3, <1>4
  <2>2. Passed(r).int = [j \in 1..6 |-> Look(r, <<"int", j>>)]
    BY DEF Passed
  <2>3. m \in DOMAIN Passed(r).int /\ Passed(r).int[m] = Look(r, p)
    BY <1>1, <1>4, <2>1, <2>2
  <2>4. p[1] = "int" /\ p[2] = m
    BY <1>1, <1>4
  <2>5. Look(Passed(r), p) = Look(r, p)
    BY <2>3, <2>4 DEF Look
  <2> QED BY <2>5
<1>5. CASE x = "sse"
  <2>1. m \in 1..8
    BY <1>2, <1>3, <1>5
  <2>2. Passed(r).sse = [j \in 1..8 |-> Look(r, <<"sse", j>>)]
    BY DEF Passed
  <2>3. m \in DOMAIN Passed(r).sse /\ Passed(r).sse[m] = Look(r, p)
    BY <1>1, <1>5, <2>1, <2>2
  <2>4. p[1] = "sse" /\ p[2] = m
    BY <1>1, <1>5
  <2>5. Look(Passed(r), p) = Look(r, p)
    BY <2>3, <2>4 DEF Look
  <2> QED BY <2>5
<1>6. CASE x = "stack"
  <2>1. m \in 1..MaxStackSlots
    BY <1>2, <1>3, <1>6, SlotsAssumption
  <2>2. Passed(r).stack = [j \in 1..MaxStackSlots |-> Look(r, <<"stack", j>>)]
    BY DEF Passed
  <2>3. m \in DOMAIN Passed(r).stack /\ Passed(r).stack[m] = Look(r, p)
    BY <1>1, <1>6, <2>1, <2>2
  <2>4. p[1] = "stack" /\ p[2] = m
    BY <1>1, <1>6
  <2>5. Look(Passed(r), p) = Look(r, p)
    BY <2>3, <2>4 DEF Look
  <2> QED BY <2>5
<1>7. x \in {"int", "sse", "stack"}
  BY <1>1 DEF Kinds
<1> QED BY <1>4, <1>5, <1>6, <1>7

LEMMA SelfCallSees ==
  ASSUME CallInv, cb = "run", callee = "go", None(HidesSmall, cbType), ~Has("float", cbType),
         NEW i \in DOMAIN got, NEW k \in Chunks(cbType.args[i])
  PROVE  Carries(got[i][k + 1], i, cbType.args[i], k)
<1>1. /\ cbType = sig /\ Callable(sig) /\ phase = "inC" /\ sig \in Interface
      /\ i \in 1..Len(sig.args) /\ k \in Chunks(sig.args[i])
      /\ got[i][k + 1] = Look(frame, GoPlace(CbRule, sig.args[i], GoUsed(CbRule, sig)[i], k))
  BY SeesWhatIsThere
<1>2. PICK p : /\ p = GoPlace(CbRule, sig.args[i], GoUsed(CbRule, sig)[i], k)
               /\ p = GoPlace(CallRule, sig.args[i], GoUsed(CallRule, sig)[i], k)
  <2>1. \A j \in DOMAIN sig.args : Alike(CbRule, CallRule, sig.args[j])
    BY <1>1, InterfaceType, CbLikeCall DEF None
  <2>2. GoPlace(CbRule, sig.args[i], GoUsed(CbRule, sig)[i], k)
          = GoPlace(CallRule, sig.args[i], GoUsed(CallRule, sig)[i], k)
    BY <1>1, <2>1, AlikeUsed
  <2> QED BY <2>2
<1>3. /\ frame = Passed(regs) /\ next = Len(sig.args) + 1 /\ Filled(regs, sig, next)
  BY <1>1 DEF CallInv, Called, Frame, Placed, Calling
<1>4. Len(sig.args) \in Nat /\ i \in DOMAIN sig.args /\ next \in 1..(Len(sig.args) + 1)
  BY <1>1, <1>3, InterfaceType
<1>5. Carries(Look(regs, p), i, sig.args[i], k)
  <2>1. sig.args[i].kind # "int" /\ i \in 1..(next - 1)
    BY <1>1, <1>3, <1>4 DEF Callable
  <2> QED BY <1>1, <1>2, <1>3, <2>1 DEF Filled, Arrived
<1>6. /\ regs \in Regs /\ Len(regs.int) <= 6 /\ Len(regs.sse) <= 8
      /\ Len(regs.stack) <= MaxStackSlots
  <2>1. PICK u : u = GoUsed(CallRule, sig)[next]
    OBVIOUS
  <2>2. u \in Counters /\ RegsAt(regs, u)
    BY <1>1, <1>3, <1>4, <2>1, GoUsedType DEF Filled
  <2> QED BY <1>3, <2>2 DEF RegsAt, Counters, Filled
<1>7. p[1] \in Kinds /\ p = <<p[1], p[2]>>
  <2>1. p = <<p[1], p[2]>>
    BY <1>2 DEF GoPlace, Slot
  <2> QED BY <1>2, <2>1, PlaceKind
<1>8. Carries(Look(Passed(regs), p), i, sig.args[i], k)
  BY <1>5, <1>6, <1>7, PassedOn
<1> QED BY <1>1, <1>2, <1>3, <1>8

LEMMA SelfCallReturns ==
  ASSUME CallInv, phase = "done", callee = "go", sig.ret.kind # "void", ~IsFloat(sig.ret)
  PROVE  \E w \in result : w.off = 0 /\ Carries(w.word, 0, sig.ret, 0)
<1> PICK t : t = sig.ret
  OBVIOUS
<1>1. /\ ~IsStruct(t) /\ t \in Types /\ t.kind # "int"
      /\ cbType = sig /\ ret = [r \in RetRegs |-> CallbackRegs(r)] /\ result = HandleReturn(t)
  BY SigInterface, InterfaceType DEF CallInv, IInv, Called, Callable, Returning
<1>2. ret["rax"] = Bytes(0, 0, 8)
  <2>1. ret["rax"] = Result(t)
    BY <1>1 DEF RetRegs, CallbackRegs
  <2>2. t.kind # "float" /\ t.kind # "void"
    BY DEF IsFloat
  <2> QED BY <2>1, <2>2 DEF Result
<1>3. result = {Write(0, t.size, ret["rax"])}
  BY <1>1 DEF HandleReturn
<1>4. Left(t, 0) \in 1..8
  <2>1. t.size \in 1..8
    BY <1>1, SizeIsPositive
  <2> QED BY <2>1 DEF Left
<1>5. PICK w : w = Write(0, t.size, ret["rax"])
  OBVIOUS
<1>6. w.off = 0 /\ Carries(w.word, 0, t, 0)
  BY <1>2, <1>4, <1>5 DEF Write, Carries, Bytes
<1> QED BY <1>3, <1>5, <1>6

\* A Go callback called through CallFunction sees its arguments, split structs and
\* two eightbytes with a hidden class included, and its integer result comes back.
\* One eightbyte of floats with a nested struct is where the two rules differ: flat
\* on the call path, recursive in callbackWrap.
THEOREM SelfCallsAgree == Spec => []SelfCallAgrees
<1>1. CallInv => SelfCallAgrees
  BY SelfCallSees, SelfCallReturns DEF SelfCallAgrees
<1> QED BY <1>1, CallInvariance, PTL
================================================================================
