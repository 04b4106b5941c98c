------------------------------ MODULE Arm64Proofs ------------------------------
(***************************************************************************)
(* Proofs about calls on arm64, for every interface over every set of      *)
(* types that C can lay out.                                               *)
(***************************************************************************)
EXTENDS Arm64RoundTrip, SequenceTheorems, WellFoundedInduction, TLAPS

--------------------------------------------------------------------------------
(* Recursive functions.                                                     *)

LEMMA NatMin == ASSUME NEW T, T \subseteq Nat, T # {} PROVE \E m \in T : \A k \in T : m <= k
<1>1. IsWellFoundedOn(OpToRel(<, Nat), Nat)
  BY NatLessThanWellFounded
<1>2. PICK m \in T : \A k \in T : ~(<<k, m>> \in OpToRel(<, Nat))
  BY <1>1, WFMin
<1>3. \A k \in T : ~(k < m)
  BY <1>2 DEF OpToRel
<1> QED BY <1>3

\* What holds of 0 and passes on from each number to the next holds up to n.
LEMMA UpToN ==
  ASSUME NEW n \in Nat, NEW S, 0 \in S, \A j \in 1..n : j - 1 \in S => j \in S
  PROVE  \A j \in 0..n : j \in S
<1> DEFINE T == {j \in 0..n : j \notin S}
<1>1. SUFFICES ASSUME T # {} PROVE FALSE
  OBVIOUS
<1>2. PICK m \in T : \A k \in T : m <= k
  <2>1. T \subseteq Nat
    OBVIOUS
  <2> QED BY <1>1, <2>1, NatMin
<1>3. m # 0 /\ m \in 1..n /\ m - 1 \in 0..n /\ m - 1 \notin T
  BY <1>2
<1>4. m - 1 \in S
  BY <1>3
<1>5. m \in S
  BY <1>3, <1>4
<1> QED BY <1>2, <1>5

\* A function on 0..n is given by its first value and by a step, if the step leads
\* from each of the sets R[j] to the next.
Steps(f, n, a, G) == f[0] = a /\ \A j \in 1..n : f[j] = G[<<j, f[j - 1]>>]
LEMMA Iterates ==
  ASSUME NEW n \in Nat, NEW S, NEW R \in [0..n -> SUBSET S], NEW a \in R[0], NEW G,
         \A j \in 1..n : \A s \in R[j - 1] : G[<<j, s>>] \in R[j]
  PROVE  \E f \in [0..n -> S] : Steps(f, n, a, G) /\ \A j \in 0..n : f[j] \in R[j]
<1> DEFINE Good(f, m) == /\ Steps(f, m, a, G) /\ \A j \in 0..m : f[j] \in R[j]
           K == {m \in 0..n : \E f \in [0..m -> S] : Good(f, m)}
<1>1. 0 \in K
  <2>1. PICK f : f = [j \in 0..0 |-> a]
    OBVIOUS
  <2>2. a \in S /\ 0 \in 0..n
    OBVIOUS
  <2>3. f \in [0..0 -> S] /\ f[0] = a
    BY <2>1, <2>2
  <2>4. Good(f, 0)
    BY <2>3 DEF Steps
  <2> QED BY <2>2, <2>3, <2>4
<1>2. ASSUME NEW m \in 1..n, m - 1 \in K PROVE m \in K
  <2>1. PICK f \in [0..(m - 1) -> S] : Good(f, m - 1)
    BY <1>2
  <2>2. m - 1 \in 0..(m - 1) /\ m - 1 \in 0..n
    OBVIOUS
  <2>3. f[m - 1] \in R[m - 1]
    BY <2>1, <2>2
  <2>4. G[<<m, f[m - 1]>>] \in R[m]
    BY <2>3
  <2>5. R[m] \subseteq S
    OBVIOUS
  <2>6. PICK e : e = [j \in 0..m |-> IF j = m THEN G[<<m, f[m - 1]>>] ELSE f[j]]
    OBVIOUS
  <2>7. \A j \in 0..(m - 1) : e[j] = f[j] /\ f[j] \in S
    BY <2>6
  <2>8. e[m] = G[<<m, f[m - 1]>>] /\ e[m - 1] = f[m - 1]
    BY <2>2, <2>6
  <2>9. e \in [0..m -> S]
    BY <2>4, <2>5, <2>6, <2>7
  <2>10. Good(e, m)
    <3>1. e[0] = a
      BY <2>1, <2>7 DEF Steps
    <3>2. ASSUME NEW j \in 1..m PROVE e[j] = G[<<j, e[j - 1]>>]
      <4>1. CASE j = m
        BY <2>8, <4>1
      <4>2. CASE j # m
        <5>1. j \in 1..(m - 1) /\ j - 1 \in 0..(m - 1) /\ j \in 0..(m - 1)
          BY <4>2
        <5>2. f[j] = G[<<j, f[j - 1]>>]
          BY <2>1, <5>1 DEF Steps
        <5> QED BY <2>7, <5>1, <5>2
      <4> QED BY <4>1, <4>2
    <3>3. ASSUME NEW j \in 0..m PROVE e[j] \in R[j]
      <4>1. CASE j = m
        BY <2>4, <2>8, <4>1
      <4>2. CASE j # m
        <5>1. j \in 0..(m - 1)
          BY <4>2
        <5> QED BY <2>1, <2>7, <5>1
      <4> QED BY <4>1, <4>2
    <3> QED BY <3>1, <3>2, <3>3 DEF Steps
  <2> QED BY <2>9, <2>10
<1> HIDE DEF K
<1>3. n \in K
  <2>1. \A m \in 0..n : m \in K
    BY <1>1, <1>2, UpToN
  <2> QED BY <2>1
<1> QED BY <1>3 DEF K
--------------------------------------------------------------------------------
(* Types and words.                                                         *)

Sizes == {1, 2, 4, 8}
LEMMA AlignUpFacts ==
  ASSUME NEW x \in Nat, NEW a \in Sizes
  PROVE  /\ AlignUp(x, a) \in Nat /\ AlignUp(x, a) >= x /\ AlignUp(x, a) < x + a
         /\ AlignUp(x, a) % a = 0
         /\ \A y \in Nat : y >= x /\ y % a = 0 => y >= AlignUp(x, a)
<1>1. CASE a = 1
  BY <1>1 DEF AlignUp
<1>2. CASE a = 2
  BY <1>2 DEF AlignUp
<1>3. CASE a = 4
  BY <1>3 DEF AlignUp
<1>4. CASE a = 8
  BY <1>4 DEF AlignUp
<1> QED BY <1>1, <1>2, <1>3, <1>4 DEF Sizes

Before(t, j) == IF j = 1 THEN 0 ELSE LeafEnd(t, j - 1)
Scalars == [kind : STRING, off : Nat, size : Sizes]
LEMMA LeavesType ==
  ASSUME NEW t \in Types
  PROVE  /\ t.size \in Nat \ {0}
         /\ Len(t.leaves) \in Nat \ {0} /\ DOMAIN t.leaves = 1..Len(t.leaves)
         /\ \A j \in 1..Len(t.leaves) :
              /\ t.leaves[j] \in Scalars
              /\ LeafEnd(t, j) \in Nat /\ LeafEnd(t, j) <= t.size
              /\ Before(t, j) \in Nat /\ t.leaves[j].off >= Before(t, j)
<1>1. /\ t.size \in Nat \ {0} /\ t.leaves # <<>>
      /\ t.leaves \in Seq(Scalars)
      /\ \A j \in DOMAIN t.leaves :
           t.leaves[j].off >= Before(t, j) /\ LeafEnd(t, j) <= t.size
  BY TypesAssumption DEF Sizes, Before, Scalars
<1>2. PICK ls : ls = t.leaves
  OBVIOUS
<1>3. PICK n : n = Len(ls)
  OBVIOUS
<1>4. n \in Nat \ {0} /\ DOMAIN ls = 1..n /\ \A j \in 1..n : ls[j] \in Scalars
  BY <1>1, <1>2, <1>3, EmptySeq
<1>5. \A j \in 1..n : LeafEnd(t, j) \in Nat
  BY <1>2, <1>4 DEF LeafEnd, Sizes, Scalars
<1>6. ASSUME NEW j \in 1..n PROVE Before(t, j) \in Nat
  <2>1. CASE j = 1
    BY <2>1 DEF Before
  <2>2. CASE j # 1
    <3>1. j - 1 \in 1..n
      BY <1>4, <2>2
    <3> QED BY <1>5, <2>2, <3>1 DEF Before
  <2> QED BY <2>1, <2>2
<1> QED BY <1>1, <1>2, <1>3, <1>4, <1>5, <1>6

LEMMA WordsAreWords ==
  ASSUME NEW i \in Nat
  PROVE  /\ AddressOf(i) \in Word /\ Unset \in Word
         /\ \A off, len \in Nat : Bytes(i, off, len) \in Word
         /\ \A w \in Word : Converted(w) \in Word
  BY DEF AddressOf, Bytes, Word, Unset, Converted
--------------------------------------------------------------------------------
(* Adding words to registers and stack.                                     *)

Outs == [kind : {"gp", "fp"}, word : Word]
Loads == [gp : Seq(Word), fp : Seq(Word), stack : Seq(Word), dropped : SUBSET Word]
Gps(r) == Len(r.gp)
Fps(r) == Len(r.fp)
Slots(r) == Len(r.stack)
Filled == {r \in Loads : Gps(r) <= 8 /\ Fps(r) <= 8 /\ Slots(r) <= 7}

LEMMA AppendWord ==
  ASSUME NEW s \in Seq(Word), NEW w \in Word
  PROVE  /\ Append(s, w) \in Seq(Word) /\ Len(Append(s, w)) = Len(s) + 1
         /\ Append(s, w)[Len(s) + 1] = w /\ \A k \in 1..Len(s) : Append(s, w)[k] = s[k]
  BY AppendProperties

LEMMA FilledType ==
  ASSUME NEW r \in Filled
  PROVE  /\ r.gp \in Seq(Word) /\ Gps(r) \in Nat /\ Gps(r) <= 8
         /\ r.fp \in Seq(Word) /\ Fps(r) \in Nat /\ Fps(r) <= 8
         /\ r.stack \in Seq(Word) /\ Slots(r) \in Nat /\ Slots(r) <= 7
         /\ r.dropped \in SUBSET Word
<1>1. r \in Loads /\ Gps(r) <= 8 /\ Fps(r) <= 8 /\ Slots(r) <= 7
  BY DEF Filled
<1>2. r.gp \in Seq(Word) /\ r.fp \in Seq(Word) /\ r.stack \in Seq(Word) /\ r.dropped \in SUBSET Word
  BY <1>1 DEF Loads
<1>3. Gps(r) \in Nat /\ Fps(r) \in Nat /\ Slots(r) \in Nat
  BY <1>2 DEF Gps, Fps, Slots
<1> QED BY <1>1, <1>2, <1>3

LEMMA FilledExcept ==
  ASSUME NEW r \in Filled, NEW s \in Seq(Word)
  PROVE  /\ Len(s) <= 8 =>
              LET q == [r EXCEPT !.gp = s]
              IN  /\ q \in Filled /\ q.gp = s /\ q.fp = r.fp
                  /\ q.stack = r.stack /\ q.dropped = r.dropped
         /\ Len(s) <= 8 =>
              LET q == [r EXCEPT !.fp = s]
              IN  /\ q \in Filled /\ q.gp = r.gp /\ q.fp = s
                  /\ q.stack = r.stack /\ q.dropped = r.dropped
         /\ Len(s) <= 7 =>
              LET q == [r EXCEPT !.stack = s]
              IN  /\ q \in Filled /\ q.gp = r.gp /\ q.fp = r.fp
                  /\ q.stack = s /\ q.dropped = r.dropped
<1>1. r \in Loads /\ Gps(r) <= 8 /\ Fps(r) <= 8 /\ Slots(r) <= 7
  BY DEF Filled
<1>2. ASSUME Len(s) <= 8
      PROVE  LET q == [r EXCEPT !.gp = s]
             IN  /\ q \in Filled /\ q.gp = s /\ q.fp = r.fp
                 /\ q.stack = r.stack /\ q.dropped = r.dropped
  BY <1>1, <1>2 DEF Filled, Loads, Gps, Fps, Slots
<1>3. ASSUME Len(s) <= 8
      PROVE  LET q == [r EXCEPT !.fp = s]
             IN  /\ q \in Filled /\ q.gp = r.gp /\ q.fp = s
                 /\ q.stack = r.stack /\ q.dropped = r.dropped
  BY <1>1, <1>3 DEF Filled, Loads, Gps, Fps, Slots
<1>4. ASSUME Len(s) <= 7
      PROVE  LET q == [r EXCEPT !.stack = s]
             IN  /\ q \in Filled /\ q.gp = r.gp /\ q.fp = r.fp
                 /\ q.stack = s /\ q.dropped = r.dropped
  BY <1>1, <1>4 DEF Filled, Loads, Gps, Fps, Slots
<1> QED BY <1>2, <1>3, <1>4

LEMMA FilledDropped ==
  ASSUME NEW r \in Filled, NEW d \in SUBSET Word
  PROVE  LET q == [r EXCEPT !.dropped = d]
         IN  /\ q \in Filled /\ q.gp = r.gp /\ q.fp = r.fp
             /\ q.stack = r.stack /\ q.dropped = d
<1>1. r \in Loads /\ Gps(r) <= 8 /\ Fps(r) <= 8 /\ Slots(r) <= 7
  BY DEF Filled
<1> QED BY <1>1 DEF Filled, Loads, Gps, Fps, Slots

\* r before, q after a word was added.
Stacked(r, q, w) ==
  /\ q.gp = r.gp /\ q.fp = r.fp
  /\ \/ /\ Slots(r) < 7 /\ Slots(q) = Slots(r) + 1
        /\ q.stack = Append(r.stack, w) /\ q.dropped = r.dropped
     \/ /\ Slots(r) = 7 /\ q.stack = r.stack /\ q.dropped = r.dropped \cup {w}
AddedTo(r, q, kind, w) ==
  /\ q \in Filled
  /\ \/ /\ kind = "gp" /\ Gps(r) < 8 /\ Gps(q) = Gps(r) + 1
        /\ q.gp = Append(r.gp, w) /\ q.fp = r.fp /\ q.stack = r.stack /\ q.dropped = r.dropped
     \/ /\ kind = "fp" /\ Fps(r) < 8 /\ Fps(q) = Fps(r) + 1
        /\ q.fp = Append(r.fp, w) /\ q.gp = r.gp /\ q.stack = r.stack /\ q.dropped = r.dropped
     \/ kind = "gp" /\ Gps(r) = 8 /\ Stacked(r, q, w)
     \/ kind = "fp" /\ Fps(r) = 8 /\ Stacked(r, q, w)

LEMMA AddStackAdds ==
  ASSUME NEW r \in Filled, NEW w \in Word
  PROVE  AddStack(r, w) \in Filled /\ Stacked(r, AddStack(r, w), w)
<1>1. PICK q : q = AddStack(r, w)
  OBVIOUS
<1>2. CASE Slots(r) < 7
  <2>1. q = [r EXCEPT !.stack = Append(r.stack, w)]
    BY <1>1, <1>2 DEF AddStack, Slots
  <2>2. PICK s : s = Append(r.stack, w)
    OBVIOUS
  <2>3. s \in Seq(Word) /\ Len(s) = Slots(r) + 1
    BY <2>2, FilledType, AppendWord DEF Slots
  <2>4. Len(s) <= 7
    BY <1>2, <2>3, FilledType
  <2>5. /\ q \in Filled /\ q.gp = r.gp /\ q.fp = r.fp
        /\ q.stack = s /\ q.dropped = r.dropped
    BY <2>1, <2>2, <2>3, <2>4, FilledType, FilledExcept
  <2>6. Slots(q) = Slots(r) + 1
    BY <2>3, <2>5 DEF Slots
  <2> QED BY <1>1, <1>2, <2>2, <2>5, <2>6 DEF Stacked
<1>3. CASE Slots(r) = 7
  <2>1. q = [r EXCEPT !.dropped = r.dropped \cup {w}]
    BY <1>1, <1>3 DEF AddStack, Slots
  <2>2. r.dropped \cup {w} \in SUBSET Word
    BY FilledType
  <2>3. /\ q \in Filled /\ q.gp = r.gp /\ q.fp = r.fp
        /\ q.stack = r.stack /\ q.dropped = r.dropped \cup {w}
    BY <2>1, <2>2, FilledDropped
  <2> QED BY <1>1, <1>3, <2>3 DEF Stacked
<1>4. Slots(r) < 7 \/ Slots(r) = 7
  BY FilledType
<1> QED BY <1>2, <1>3, <1>4

LEMMA AddIntAdds ==
  ASSUME NEW r \in Filled, NEW w \in Word
  PROVE  AddedTo(r, AddInt(r, w), "gp", w)
<1>1. PICK q : q = AddInt(r, w)
  OBVIOUS
<1>2. CASE Gps(r) < 8
  <2>1. q = [r EXCEPT !.gp = Append(r.gp, w)]
    BY <1>1, <1>2 DEF AddInt, Gps
  <2>2. PICK s : s = Append(r.gp, w)
    OBVIOUS
  <2>3. s \in Seq(Word) /\ Len(s) = Gps(r) + 1
    BY <2>2, FilledType, AppendWord DEF Gps
  <2>4. Len(s) <= 8
    BY <1>2, <2>3, FilledType
  <2>5. /\ q \in Filled /\ q.fp = r.fp /\ q.stack = r.stack
        /\ q.gp = s /\ q.dropped = r.dropped
    BY <2>1, <2>2, <2>3, <2>4, FilledType, FilledExcept
  <2>6. Gps(q) = Gps(r) + 1
    BY <2>3, <2>5 DEF Gps
  <2> QED BY <1>1, <1>2, <2>2, <2>5, <2>6 DEF AddedTo
<1>3. CASE Gps(r) = 8
  <2>1. q = AddStack(r, w)
    BY <1>1, <1>3 DEF AddInt, Gps
  <2> QED BY <1>1, <1>3, <2>1, AddStackAdds DEF AddedTo
<1>4. Gps(r) < 8 \/ Gps(r) = 8
  BY FilledType
<1> QED BY <1>2, <1>3, <1>4

LEMMA AddFloatAdds ==
  ASSUME NEW r \in Filled, NEW w \in Word
  PROVE  AddedTo(r, AddFloat(r, w), "fp", w)
<1>1. PICK q : q = AddFloat(r, w)
  OBVIOUS
<1>2. CASE Fps(r) < 8
  <2>1. q = [r EXCEPT !.fp = Append(r.fp, w)]
    BY <1>1, <1>2 DEF AddFloat, Fps
  <2>2. PICK s : s = Append(r.fp, w)
    OBVIOUS
  <2>3. s \in Seq(Word) /\ Len(s) = Fps(r) + 1
    BY <2>2, FilledType, AppendWord DEF Fps
  <2>4. Len(s) <= 8
    BY <1>2, <2>3, FilledType
  <2>5. /\ q \in Filled /\ q.gp = r.gp /\ q.stack = r.stack
        /\ q.fp = s /\ q.dropped = r.dropped
    BY <2>1, <2>2, <2>3, <2>4, FilledType, FilledExcept
  <2>6. Fps(q) = Fps(r) + 1
    BY <2>3, <2>5 DEF Fps
  <2> QED BY <1>1, <1>2, <2>2, <2>5, <2>6 DEF AddedTo
<1>3. CASE Fps(r) = 8
  <2>1. q = AddStack(r, w)
    BY <1>1, <1>3 DEF AddFloat, Fps
  <2> QED BY <1>1, <1>3, <2>1, AddStackAdds DEF AddedTo
<1>4. Fps(r) < 8 \/ Fps(r) = 8
  BY FilledType
<1> QED BY <1>2, <1>3, <1>4

LEMMA AddOne ==
  ASSUME NEW r \in Filled, NEW o \in Outs
  PROVE  AddedTo(r, Add(r, o), o.kind, o.word) /\ Add(r, o) \in Filled
<1>1. o.kind \in {"gp", "fp"} /\ o.word \in Word
  BY DEF Outs
<1>2. AddedTo(r, Add(r, o), o.kind, o.word)
  <2>1. CASE o.kind = "gp"
    BY <1>1, <2>1, AddIntAdds DEF Add
  <2>2. CASE o.kind = "fp"
    BY <1>1, <2>2, AddFloatAdds DEF Add
  <2> QED BY <1>1, <2>1, <2>2
<1> QED BY <1>2 DEF AddedTo
--------------------------------------------------------------------------------
(* Adding all the words of an aggregate.                                    *)

AddAll(r, out) == Added(r, out)[Len(out)]

\* Added is the function it is defined to be.
LEMMA AddedUnfolds ==
  ASSUME NEW r \in Filled, NEW out \in Seq(Outs)
  PROVE  /\ Added(r, out)[0] = r
         /\ \A j \in 1..Len(out) : Added(r, out)[j] = Add(Added(r, out)[j - 1], out[j])
<1> DEFINE n == Len(out)
           G == [p \in (1..n) \X Filled |-> Add(p[2], out[p[1]])]
           R == [j \in 0..n |-> Filled]
           F(f) == f = [j \in 0..n |-> IF j = 0 THEN r ELSE Add(f[j - 1], out[j])]
<1>1. n \in Nat /\ \A j \in 1..n : out[j] \in Outs
  OBVIOUS
<1>2. R \in [0..n -> SUBSET Filled] /\ r \in R[0]
  BY <1>1
<1>3. ASSUME NEW j \in 1..n, NEW s \in R[j - 1] PROVE G[<<j, s>>] \in R[j]
  <2>1. j \in 0..n /\ j - 1 \in 0..n /\ s \in Filled /\ out[j] \in Outs
    BY <1>1, <1>3
  <2>2. G[<<j, s>>] = Add(s, out[j])
    BY <2>1
  <2> QED BY <2>1, <2>2, AddOne
<1> HIDE DEF n, R, G
<1>4. PICK f \in [0..n -> Filled] : Steps(f, n, r, G)
  BY <1>1, <1>2, <1>3, Iterates
<1>5. F(f)
  <2>1. ASSUME NEW j \in 1..n PROVE f[j] = Add(f[j - 1], out[j])
    <3>1. j - 1 \in 0..n /\ f[j - 1] \in Filled
      BY <1>1, <1>4
    <3>2. f[j] = G[<<j, f[j - 1]>>]
      BY <1>4 DEF Steps
    <3> QED BY <3>1, <3>2 DEF G
  <2>2. f[0] = r
    BY <1>4 DEF Steps
  <2>3. \A j \in 0..n : f[j] = IF j = 0 THEN r ELSE Add(f[j - 1], out[j])
    BY <1>1, <2>1, <2>2
  <2> QED BY <1>4, <2>3
<1>6. Added(r, out) = CHOOSE g : F(g)
  BY DEF Added, n
<1> HIDE DEF F
<1>7. F(Added(r, out))
  BY <1>5, <1>6
<1>8. PICK g : g = Added(r, out)
  OBVIOUS
<1>9. g = [j \in 0..n |-> IF j = 0 THEN r ELSE Add(g[j - 1], out[j])]
  BY <1>7, <1>8 DEF F
<1>10. g[0] = r /\ \A j \in 1..n : g[j] = Add(g[j - 1], out[j])
  BY <1>1, <1>9
<1> QED BY <1>8, <1>10 DEF n

LEMMA AddedFilled ==
  ASSUME NEW r \in Filled, NEW out \in Seq(Outs)
  PROVE  \A j \in 0..Len(out) : Added(r, out)[j] \in Filled
<1> DEFINE n == Len(out)
           S == {j \in 0..n : Added(r, out)[j] \in Filled}
<1>1. n \in Nat /\ \A j \in 1..n : out[j] \in Outs
  OBVIOUS
<1>2. 0 \in S
  BY <1>1, AddedUnfolds
<1>3. ASSUME NEW j \in 1..n, j - 1 \in S PROVE j \in S
  <2>1. Added(r, out)[j] = Add(Added(r, out)[j - 1], out[j])
    BY AddedUnfolds
  <2>2. Added(r, out)[j - 1] \in Filled /\ out[j] \in Outs
    BY <1>1, <1>3
  <2> QED BY <2>1, <2>2, AddOne
<1> HIDE DEF S, n
<1>4. \A j \in 0..n : j \in S
  BY <1>1, <1>2, <1>3, UpToN
<1> QED BY <1>4 DEF S, n

LEMMA AddAllOfNone == ASSUME NEW r \in Filled PROVE AddAll(r, <<>>) = r
<1>1. <<>> \in Seq(Outs) /\ Len(<<>>) = 0
  OBVIOUS
<1> QED BY <1>1, AddedUnfolds DEF AddAll

LEMMA AppendOut ==
  ASSUME NEW out \in Seq(Outs), NEW o \in Outs
  PROVE  /\ Append(out, o) \in Seq(Outs) /\ Len(Append(out, o)) = Len(out) + 1
         /\ Append(out, o)[Len(out) + 1] = o
         /\ \A k \in 1..Len(out) : Append(out, o)[k] = out[k]
  BY AppendProperties

LEMMA AddAllOfOneMore ==
  ASSUME NEW r \in Filled, NEW out \in Seq(Outs), NEW o \in Outs
  PROVE  AddAll(r, Append(out, o)) = Add(AddAll(r, out), o)
<1>1. PICK more : more = Append(out, o)
  OBVIOUS
<1>2. PICK n : n = Len(out)
  OBVIOUS
<1>3. /\ n \in Nat /\ more \in Seq(Outs) /\ Len(more) = n + 1
      /\ more[n + 1] = o /\ \A k \in 1..n : more[k] = out[k]
  BY <1>1, <1>2, AppendOut
<1> DEFINE S == {j \in 0..n : Added(r, more)[j] = Added(r, out)[j]}
<1>4. 0 \in S
  BY <1>3, AddedUnfolds
<1>5. ASSUME NEW j \in 1..n, j - 1 \in S PROVE j \in S
  <2>1. Added(r, out)[j] = Add(Added(r, out)[j - 1], out[j])
    BY <1>2, AddedUnfolds
  <2>2. j \in 1..Len(more)
    BY <1>3
  <2>3. Added(r, more)[j] = Add(Added(r, more)[j - 1], more[j])
    BY <1>3, <2>2, AddedUnfolds
  <2>4. more[j] = out[j]
    BY <1>3
  <2> QED BY <1>5, <2>1, <2>3, <2>4
<1> HIDE DEF S
<1>6. \A j \in 0..n : j \in S
  BY <1>3, <1>4, <1>5, UpToN
<1>7. Added(r, more)[n] = AddAll(r, out)
  BY <1>2, <1>3, <1>6 DEF S, AddAll
<1>8. n + 1 \in 1..Len(more) /\ (n + 1) - 1 = n
  BY <1>3
<1>9. Added(r, more)[n + 1] = Add(Added(r, more)[n], more[n + 1])
  BY <1>3, <1>8, AddedUnfolds
<1> QED BY <1>1, <1>3, <1>7, <1>9 DEF AddAll
--------------------------------------------------------------------------------
(* How many registers and slots are taken.                                  *)

UpTo(n, limit) == IF n < limit THEN n ELSE limit
\* a words for GP registers and b for FP registers were added to r, from nothing.
Holds(r, a, b) == /\ r \in Filled
                  /\ Gps(r) = UpTo(a, 8) /\ Fps(r) = UpTo(b, 8)
                  /\ IF r.dropped = {} THEN Slots(r) = Over(a, 8) + Over(b, 8)
                     ELSE Over(a, 8) + Over(b, 8) > 7

LEMMA AddedHolds ==
  ASSUME NEW r, NEW a \in Nat, NEW b \in Nat, Holds(r, a, b),
         NEW q, NEW kind, NEW w, AddedTo(r, q, kind, w)
  PROVE  /\ kind \in {"gp", "fp"}
         /\ kind = "gp" => Holds(q, a + 1, b)
         /\ kind = "fp" => Holds(q, a, b + 1)
<1>1. r \in Filled /\ q \in Filled
  BY DEF Holds, AddedTo
<1>2. PICK g, f, s, g2, f2, s2 :
        /\ g = Gps(r) /\ f = Fps(r) /\ s = Slots(r)
        /\ g2 = Gps(q) /\ f2 = Fps(q) /\ s2 = Slots(q)
  OBVIOUS
<1>3. /\ g \in Nat /\ f \in Nat /\ s \in Nat /\ g2 \in Nat /\ f2 \in Nat /\ s2 \in Nat
      /\ g <= 8 /\ f <= 8 /\ s <= 7
  BY <1>1, <1>2, FilledType
<1>4. /\ g = UpTo(a, 8) /\ f = UpTo(b, 8)
      /\ IF r.dropped = {} THEN s = Over(a, 8) + Over(b, 8) ELSE Over(a, 8) + Over(b, 8) > 7
  BY <1>2 DEF Holds
<1>5. SUFFICES /\ kind \in {"gp", "fp"}
               /\ kind = "gp" => g2 = UpTo(a + 1, 8) /\ f2 = f
               /\ kind = "fp" => g2 = g /\ f2 = UpTo(b + 1, 8)
               /\ IF q.dropped = {}
                  THEN s2 = Over(IF kind = "gp" THEN a + 1 ELSE a, 8)
                              + Over(IF kind = "fp" THEN b + 1 ELSE b, 8)
                  ELSE Over(IF kind = "gp" THEN a + 1 ELSE a, 8)
                         + Over(IF kind = "fp" THEN b + 1 ELSE b, 8) > 7
  BY <1>1, <1>2, <1>4 DEF Holds
<1>6. CASE kind = "gp" /\ g < 8
  <2>0. Gps(r) # 8 /\ kind = "gp"
    BY <1>2, <1>3, <1>6
  <2>1. g2 = g + 1 /\ q.fp = r.fp /\ q.stack = r.stack /\ q.dropped = r.dropped
    BY <1>2, <2>0 DEF AddedTo
  <2>2. f2 = f /\ s2 = s
    BY <1>2, <2>1 DEF Fps, Slots
  <2> QED BY <1>3, <1>4, <1>6, <2>1, <2>2 DEF UpTo, Over
<1>7. CASE kind = "fp" /\ f < 8
  <2>0. Fps(r) # 8 /\ kind = "fp"
    BY <1>2, <1>3, <1>7
  <2>1. f2 = f + 1 /\ q.gp = r.gp /\ q.stack = r.stack /\ q.dropped = r.dropped
    BY <1>2, <2>0 DEF AddedTo
  <2>2. g2 = g /\ s2 = s
    BY <1>2, <2>1 DEF Gps, Slots
  <2> QED BY <1>3, <1>4, <1>7, <2>1, <2>2 DEF UpTo, Over
<1>8. CASE kind \in {"gp", "fp"} /\ Stacked(r, q, w) /\ (kind = "gp" => g = 8) /\ (kind = "fp" => f = 8)
  <2>1. g2 = g /\ f2 = f
    BY <1>2, <1>8 DEF Stacked, Gps, Fps
  <2>2. \/ s2 = s + 1 /\ q.dropped = r.dropped
        \/ s = 7 /\ s2 = s /\ q.dropped # {}
    BY <1>2, <1>8 DEF Stacked, Slots
  <2> QED BY <1>3, <1>4, <1>8, <2>1, <2>2 DEF UpTo, Over
<1> QED
  <2>1. \/ kind = "gp" /\ g < 8
        \/ kind = "fp" /\ f < 8
        \/ kind = "gp" /\ g = 8 /\ Stacked(r, q, w)
        \/ kind = "fp" /\ f = 8 /\ Stacked(r, q, w)
    BY <1>2 DEF AddedTo
  <2> QED BY <1>6, <1>7, <1>8, <2>1

\* What n says of out: how many words are for registers of either kind.
Counts == [gp : Nat, fp : Nat]
Adds(out, n) ==
  /\ out \in Seq(Outs) /\ n \in Counts
  /\ \A r : \A a, b \in Nat : Holds(r, a, b) => Holds(AddAll(r, out), a + n.gp, b + n.fp)

LEMMA AddsNothing == Adds(<<>>, [gp |-> 0, fp |-> 0])
<1>1. ASSUME NEW r, NEW a \in Nat, NEW b \in Nat, Holds(r, a, b)
      PROVE  Holds(AddAll(r, <<>>), a + 0, b + 0)
  <2>1. AddAll(r, <<>>) = r
    BY <1>1, AddAllOfNone DEF Holds
  <2> QED BY <1>1, <2>1
<1> QED BY <1>1 DEF Adds, Counts

LEMMA AddsOneMore ==
  ASSUME NEW out, NEW n, Adds(out, n), NEW o \in Outs
  PROVE  Adds(Append(out, o), [n EXCEPT ![o.kind] = @ + 1])
<1>1. PICK m : m = [n EXCEPT ![o.kind] = @ + 1]
  OBVIOUS
<1>2. out \in Seq(Outs) /\ n \in Counts /\ o.kind \in {"gp", "fp"} /\ o.word \in Word
  BY DEF Adds, Outs
<1>3. /\ m \in Counts
      /\ m.gp = IF o.kind = "gp" THEN n.gp + 1 ELSE n.gp
      /\ m.fp = IF o.kind = "fp" THEN n.fp + 1 ELSE n.fp
      /\ n.gp \in Nat /\ n.fp \in Nat
  BY <1>1, <1>2 DEF Counts
<1>4. ASSUME NEW r, NEW a \in Nat, NEW b \in Nat, Holds(r, a, b)
      PROVE  Holds(AddAll(r, Append(out, o)), a + m.gp, b + m.fp)
  <2>1. PICK p : p = AddAll(r, out)
    OBVIOUS
  <2>2. Holds(p, a + n.gp, b + n.fp)
    BY <1>4, <2>1 DEF Adds
  <2>3. AddAll(r, Append(out, o)) = Add(p, o)
    BY <1>2, <1>4, <2>1, AddAllOfOneMore DEF Holds
  <2>4. AddedTo(p, Add(p, o), o.kind, o.word)
    BY <2>2, AddOne DEF Holds
  <2>5. a + n.gp \in Nat /\ b + n.fp \in Nat
    BY <1>3
  <2>6. /\ o.kind = "gp" => Holds(Add(p, o), (a + n.gp) + 1, b + n.fp)
        /\ o.kind = "fp" => Holds(Add(p, o), a + n.gp, (b + n.fp) + 1)
    BY <2>2, <2>4, <2>5, AddedHolds
  <2>7. /\ (a + n.gp) + 1 = a + (n.gp + 1) /\ (b + n.fp) + 1 = b + (n.fp + 1)
    BY <1>3
  <2>8. CASE o.kind = "gp"
    BY <1>3, <2>3, <2>6, <2>7, <2>8
  <2>9. CASE o.kind = "fp"
    BY <1>3, <2>3, <2>6, <2>7, <2>9
  <2> QED BY <1>2, <2>8, <2>9
<1>5. Append(out, o) \in Seq(Outs)
  BY <1>2, AppendOut
<1> QED BY <1>1, <1>3, <1>4, <1>5 DEF Adds
--------------------------------------------------------------------------------
(* placeStructRegisters, one scalar at a time.                              *)

Classes == SUBSET {"float", "int"}
RegStates == {reg \in [shift : Nat, class : Classes, word : Word] :
                reg.shift = 0 <=> reg.class = {}}
WalkStates == [out : Seq(Outs), reg : RegStates, ok : BOOLEAN]
\* The word in the register begins no later than what follows it.
From(s, off) == s.reg.class # {} => s.reg.word.off <= off

LEMMA WalkStateType ==
  ASSUME NEW s \in WalkStates
  PROVE  /\ s.out \in Seq(Outs) /\ s.reg \in RegStates /\ s.ok \in BOOLEAN
         /\ s.reg.shift \in Nat /\ s.reg.class \in Classes /\ s.reg.word \in Word
         /\ s.reg.shift = 0 <=> s.reg.class = {}
         /\ s.reg = [shift |-> s.reg.shift, class |-> s.reg.class, word |-> s.reg.word]
         /\ s = [out |-> s.out, reg |-> s.reg, ok |-> s.ok]
  BY DEF WalkStates, RegStates

LEMMA EmptyRegType == /\ EmptyReg \in RegStates /\ EmptyReg.class = {} /\ EmptyReg.shift = 0
<1>1. Unset \in Word
  BY WordsAreWords
<1> QED BY <1>1 DEF EmptyReg, RegStates, Classes

LEMMA FlushFacts ==
  ASSUME NEW s \in WalkStates
  PROVE  /\ Flush(s) \in WalkStates /\ Flush(s).reg = EmptyReg /\ Flush(s).ok = s.ok
         /\ Flush(s).out = IF s.reg.class = {} THEN s.out
                           ELSE Append(s.out, [kind |-> RegOf(s.reg.class), word |-> s.reg.word])
         /\ [kind |-> RegOf(s.reg.class), word |-> s.reg.word] \in Outs
<1>0. /\ s.out \in Seq(Outs) /\ s.reg \in RegStates /\ s.ok \in BOOLEAN
      /\ s.reg.shift \in Nat /\ s.reg.class \in Classes /\ s.reg.word \in Word
      /\ s.reg.shift = 0 <=> s.reg.class = {}
      /\ s.reg = [shift |-> s.reg.shift, class |-> s.reg.class, word |-> s.reg.word]
      /\ s = [out |-> s.out, reg |-> s.reg, ok |-> s.ok]
  BY WalkStateType
<1>1. PICK o : o = [kind |-> RegOf(s.reg.class), word |-> s.reg.word]
  OBVIOUS
<1>2. o \in Outs
  BY <1>1, WalkStateType DEF Outs, RegOf
<1>3. PICK out : out = IF s.reg.class = {} THEN s.out ELSE Append(s.out, o)
  OBVIOUS
<1>4. out \in Seq(Outs)
  BY <1>2, <1>3, WalkStateType, AppendOut
<1>5. Flush(s) = [out |-> out, reg |-> EmptyReg, ok |-> s.ok]
  <2>1. Flush(s) = [s EXCEPT !.reg = EmptyReg, !.out = out]
    BY <1>1, <1>3 DEF Flush
  <2>2. PICK a, b, c : a = s.out /\ b = s.reg /\ c = s.ok
    OBVIOUS
  <2>3. s = [out |-> a, reg |-> b, ok |-> c]
    BY <1>0, <2>2
  <2> QED BY <2>1, <2>2, <2>3
<1> QED BY <1>1, <1>2, <1>3, <1>4, <1>5, EmptyRegType, WalkStateType DEF WalkStates

LEMMA SettleFacts ==
  ASSUME NEW s \in WalkStates, NEW leaf \in Scalars
  PROVE  /\ Settle(s, leaf) \in WalkStates /\ Settle(s, leaf).ok = s.ok
         /\ Begins(s.reg.shift, s.reg.class, leaf) => Settle(s, leaf) = Flush(s)
         /\ ~Begins(s.reg.shift, s.reg.class, leaf) =>
              /\ Settle(s, leaf).out = s.out
              /\ Settle(s, leaf).reg = [shift |-> AlignUp(s.reg.shift, leaf.size),
                                        class |-> s.reg.class, word |-> s.reg.word]
<1>0. /\ s.out \in Seq(Outs) /\ s.reg \in RegStates /\ s.ok \in BOOLEAN
      /\ s.reg.shift \in Nat /\ s.reg.class \in Classes /\ s.reg.word \in Word
      /\ s.reg.shift = 0 <=> s.reg.class = {}
      /\ s.reg = [shift |-> s.reg.shift, class |-> s.reg.class, word |-> s.reg.word]
      /\ s = [out |-> s.out, reg |-> s.reg, ok |-> s.ok]
  BY WalkStateType
<1>1. CASE Begins(s.reg.shift, s.reg.class, leaf)
  BY <1>1, FlushFacts DEF Settle
<1>2. CASE ~Begins(s.reg.shift, s.reg.class, leaf)
  <2>1. PICK reg : reg = [shift |-> AlignUp(s.reg.shift, leaf.size),
                          class |-> s.reg.class, word |-> s.reg.word]
    OBVIOUS
  <2>2. Settle(s, leaf) = [out |-> s.out, reg |-> reg, ok |-> s.ok]
    BY <1>0, <1>2, <2>1 DEF Settle
  <2>3. leaf.size \in Sizes
    BY DEF Scalars
  <2>4. PICK n, m : n = s.reg.shift /\ m = AlignUp(s.reg.shift, leaf.size)
    OBVIOUS
  <2>5. m \in Nat /\ (n = 0 <=> m = 0)
    <3>1. n \in Nat
      BY <2>4, WalkStateType
    <3>2. m \in Nat /\ m >= n
      BY <2>3, <2>4, <3>1, AlignUpFacts
    <3>3. n = 0 => m = 0
      BY <2>3, <2>4 DEF AlignUp, Sizes
    <3> QED BY <3>1, <3>2, <3>3
  <2>6. reg \in RegStates
    BY <2>1, <2>4, <2>5, WalkStateType DEF RegStates
  <2> QED BY <1>2, <2>1, <2>2, <2>6, WalkStateType DEF WalkStates
<1> QED BY <1>1, <1>2

\* What a scalar does to the walk, q being the walk when there is room for it.
PlacedLeaf(i, q, leaf, p) ==
  CASE Unknown(leaf)                     -> ~p.ok /\ p.out = q.out
    [] ~Unknown(leaf) /\ leaf.size = 8   ->
         /\ p.ok /\ p.reg = EmptyReg
         /\ p.out = Append(q.out, [kind |-> IF leaf.kind = "double" THEN "fp" ELSE "gp",
                                   word |-> Bytes(i, leaf.off, 8)])
    [] OTHER                             -> p.ok /\ p = Merge(q, i, leaf)

LEMMA MergeFacts ==
  ASSUME NEW i \in Nat, NEW q \in WalkStates, NEW leaf \in Scalars, From(q, leaf.off)
  PROVE  LET p == Merge(q, i, leaf)
             from == IF q.reg.class = {} THEN leaf.off ELSE q.reg.word.off
             word == Bytes(i, from, leaf.off + leaf.size - from)
         IN  /\ p \in WalkStates /\ p.out = q.out /\ p.ok = q.ok /\ From(p, leaf.off)
             /\ p.reg.shift = q.reg.shift + leaf.size
             /\ p.reg.class = q.reg.class \cup ClassOf(leaf)
             /\ p.reg.word = IF q.reg.word.is # "converted" /\ q.reg.shift = leaf.off - from
                             THEN word ELSE Converted(word)
<1>0. /\ q.out \in Seq(Outs) /\ q.reg \in RegStates /\ q.ok \in BOOLEAN
      /\ q.reg.shift \in Nat /\ q.reg.class \in Classes /\ q.reg.word \in Word
      /\ q.reg.shift = 0 <=> q.reg.class = {}
      /\ q.reg = [shift |-> q.reg.shift, class |-> q.reg.class, word |-> q.reg.word]
      /\ q = [out |-> q.out, reg |-> q.reg, ok |-> q.ok]
  BY WalkStateType
<1>1. PICK from : from = IF q.reg.class = {} THEN leaf.off ELSE q.reg.word.off
  OBVIOUS
<1>2. PICK word : word = Bytes(i, from, leaf.off + leaf.size - from)
  OBVIOUS
<1>3. PICK w : w = IF q.reg.word.is # "converted" /\ q.reg.shift = leaf.off - from
                   THEN word ELSE Converted(word)
  OBVIOUS
<1>4. PICK reg : reg = [shift |-> q.reg.shift + leaf.size,
                        class |-> q.reg.class \cup ClassOf(leaf), word |-> w]
  OBVIOUS
<1>5. leaf.off \in Nat /\ leaf.size \in Nat \ {0}
  BY DEF Scalars, Sizes
<1>6. from \in Nat /\ from <= leaf.off
  <2>1. CASE q.reg.class = {}
    BY <1>1, <1>5, <2>1
  <2>2. CASE q.reg.class # {}
    <3>1. q.reg.word.off \in Nat
      BY <1>0 DEF Word
    <3> QED BY <1>1, <2>2, <3>1 DEF From
  <2> QED BY <2>1, <2>2
<1>7. word \in Word /\ Converted(word) \in Word /\ word.off = from /\ Converted(word).off = from
  <2>1. leaf.off + leaf.size - from \in Nat
    BY <1>5, <1>6
  <2> QED BY <1>2, <1>6, <2>1, WordsAreWords DEF Bytes, Converted
<1>8. w \in Word /\ w.off <= leaf.off
  BY <1>3, <1>6, <1>7
<1>9. ClassOf(leaf) \in Classes /\ ClassOf(leaf) # {}
  BY DEF ClassOf, Classes
<1>10. reg \in RegStates
  <2>1. PICK n, m : n = q.reg.shift /\ m = n + leaf.size
    OBVIOUS
  <2>2. m \in Nat /\ m # 0
    BY <1>0, <1>5, <2>1
  <2>3. PICK c : c = q.reg.class \cup ClassOf(leaf)
    OBVIOUS
  <2>4. c \in Classes /\ c # {}
    BY <1>0, <1>9, <2>3 DEF Classes
  <2> QED BY <1>4, <1>8, <2>1, <2>2, <2>3, <2>4 DEF RegStates
<1>11. Merge(q, i, leaf) = [out |-> q.out, reg |-> reg, ok |-> q.ok]
  <2>1. PICK class : class = q.reg.class \cup ClassOf(leaf)
    OBVIOUS
  <2>2. Merge(q, i, leaf) = [q EXCEPT !.reg = [shift |-> @.shift + leaf.size,
                                               class |-> class, word |-> w]]
    BY <1>1, <1>2, <1>3, <2>1 DEF Merge
  <2>3. Merge(q, i, leaf) = [q EXCEPT !.reg = reg]
    BY <1>4, <2>1, <2>2
  <2>4. PICK a, b, c : a = q.out /\ b = q.reg /\ c = q.ok
    OBVIOUS
  <2>5. q = [out |-> a, reg |-> b, ok |-> c]
    BY <1>0, <2>4
  <2>6. [[out |-> a, reg |-> b, ok |-> c] EXCEPT !.reg = reg]
          = [out |-> a, reg |-> reg, ok |-> c]
    OBVIOUS
  <2>7. Merge(q, i, leaf) = [out |-> a, reg |-> reg, ok |-> c]
    BY <2>3, <2>5, <2>6
  <2> QED BY <2>4, <2>7
<1>12. Merge(q, i, leaf) \in WalkStates /\ From(Merge(q, i, leaf), leaf.off)
  BY <1>4, <1>8, <1>10, <1>11, WalkStateType DEF WalkStates, From
<1>13. PICK p : p = Merge(q, i, leaf)
  OBVIOUS
<1>14. /\ p \in WalkStates /\ p.out = q.out /\ p.ok = q.ok /\ From(p, leaf.off)
       /\ p.reg = reg
  BY <1>11, <1>12, <1>13
<1>15. /\ p.reg.shift = q.reg.shift + leaf.size
       /\ p.reg.class = q.reg.class \cup ClassOf(leaf)
       /\ p.reg.word = w
  BY <1>4, <1>14
<1> QED BY <1>1, <1>2, <1>3, <1>13, <1>14, <1>15

LEMMA MergeMakes ==
  ASSUME NEW i \in Nat, NEW q \in WalkStates, NEW leaf \in Scalars, From(q, leaf.off)
  PROVE  /\ Merge(q, i, leaf).out = q.out
         /\ Merge(q, i, leaf).reg.shift = q.reg.shift + leaf.size
         /\ Merge(q, i, leaf).reg.class = q.reg.class \cup ClassOf(leaf)
  BY MergeFacts

LEMMA PlaceLeafFacts ==
  ASSUME NEW i \in Nat, NEW s \in WalkStates, NEW leaf \in Scalars, From(s, leaf.off)
  PROVE  LET p == PlaceLeaf(i, s, leaf)
         IN  /\ p \in WalkStates /\ From(p, leaf.off)
             /\ ~s.ok => p = s
             /\ s.ok => PlacedLeaf(i, Settle(s, leaf), leaf, p)
<1>1. PICK q : q = Settle(s, leaf)
  OBVIOUS
<1>2. q \in WalkStates /\ q.ok = s.ok /\ From(q, leaf.off)
  <2>1. CASE Begins(s.reg.shift, s.reg.class, leaf)
    BY <1>1, <2>1, SettleFacts, FlushFacts, EmptyRegType DEF From
  <2>2. CASE ~Begins(s.reg.shift, s.reg.class, leaf)
    <3>1. q.reg.class = s.reg.class /\ q.reg.word = s.reg.word /\ q \in WalkStates /\ q.ok = s.ok
      <4>1. /\ q.reg = [shift |-> AlignUp(s.reg.shift, leaf.size),
                        class |-> s.reg.class, word |-> s.reg.word]
            /\ q \in WalkStates /\ q.ok = s.ok
        BY <1>1, <2>2, SettleFacts
      <4> QED BY <4>1
    <3> QED BY <3>1 DEF From
  <2> QED BY <2>1, <2>2
<1>0. q = [out |-> q.out, reg |-> q.reg, ok |-> q.ok]
  BY <1>2, WalkStateType
<1>3. PICK p : p = PlaceLeaf(i, s, leaf)
  OBVIOUS
<1>4. CASE ~s.ok
  BY <1>3, <1>4 DEF PlaceLeaf
<1>5. CASE s.ok /\ Unknown(leaf)
  <2>1. p = [out |-> q.out, reg |-> q.reg, ok |-> FALSE]
    BY <1>0, <1>1, <1>3, <1>5 DEF PlaceLeaf
  <2>2. p \in WalkStates /\ From(p, leaf.off)
    BY <1>2, <2>1, WalkStateType DEF WalkStates, From
  <2> QED BY <1>1, <1>3, <1>5, <2>1, <2>2 DEF PlacedLeaf
<1>6. CASE s.ok /\ ~Unknown(leaf) /\ leaf.size = 8
  <2>1. PICK o : o = [kind |-> IF leaf.kind = "double" THEN "fp" ELSE "gp",
                      word |-> Bytes(i, leaf.off, 8)]
    OBVIOUS
  <2>2. o \in Outs
    BY <2>1, WordsAreWords DEF Outs, Scalars
  <2>3. PICK out : out = Append(q.out, o)
    OBVIOUS
  <2>4. out \in Seq(Outs)
    BY <1>2, <2>2, <2>3, WalkStateType, AppendOut
  <2>5. p = [out |-> out, reg |-> EmptyReg, ok |-> q.ok]
    BY <1>0, <1>1, <1>3, <1>6, <2>1, <2>3 DEF PlaceLeaf
  <2>6. p \in WalkStates /\ From(p, leaf.off)
    BY <1>2, <2>4, <2>5, WalkStateType, EmptyRegType DEF WalkStates, From
  <2>7. PlacedLeaf(i, q, leaf, p)
    BY <1>2, <1>6, <2>1, <2>3, <2>5 DEF PlacedLeaf
  <2> QED BY <1>1, <1>3, <1>6, <2>6, <2>7
<1>7. CASE s.ok /\ ~Unknown(leaf) /\ leaf.size # 8
  <2>1. p = Merge(q, i, leaf)
    BY <1>1, <1>3, <1>7 DEF PlaceLeaf
  <2>2. p \in WalkStates /\ From(p, leaf.off) /\ p.ok = q.ok
    BY <1>2, <2>1, MergeFacts
  <2> QED BY <1>1, <1>2, <1>3, <1>7, <2>1, <2>2 DEF PlacedLeaf
<1> QED BY <1>4, <1>5, <1>6, <1>7

\* A scalar does not begin before the one before it.
LEMMA LeavesInOrder ==
  ASSUME NEW t \in Types, NEW j \in 1..Len(t.leaves), j # 1
  PROVE  /\ j - 1 \in 1..Len(t.leaves)
         /\ t.leaves[j - 1].off \in Nat /\ t.leaves[j].off \in Nat
         /\ t.leaves[j - 1].off <= t.leaves[j].off
<1>1. PICK n : n = Len(t.leaves)
  OBVIOUS
<1>2. n \in Nat /\ j \in 1..n /\ j - 1 \in 1..n
  BY <1>1, LeavesType
<1>3. t.leaves[j] \in Scalars /\ t.leaves[j - 1] \in Scalars /\ t.leaves[j].off >= LeafEnd(t, j - 1)
  BY <1>1, <1>2, LeavesType DEF Before
<1> QED BY <1>1, <1>2, <1>3 DEF LeafEnd, Scalars, Sizes

EmptyWalk == [out |-> <<>>, reg |-> EmptyReg, ok |-> TRUE]
LEMMA EmptyWalkType == EmptyWalk \in WalkStates /\ \A off \in Nat : From(EmptyWalk, off)
  BY EmptyRegType DEF EmptyWalk, WalkStates, From

\* PlaceWalk is the function it is defined to be.
LEMMA PlaceWalkUnfolds ==
  ASSUME NEW i \in Nat, NEW t \in Types
  PROVE  /\ PlaceWalk(i, t)[0] = EmptyWalk
         /\ \A j \in 1..Len(t.leaves) :
              PlaceWalk(i, t)[j] = PlaceLeaf(i, PlaceWalk(i, t)[j - 1], t.leaves[j])
<1> DEFINE n == Len(t.leaves)
           G == [p \in (1..n) \X WalkStates |-> PlaceLeaf(i, p[2], t.leaves[p[1]])]
           R == [j \in 0..n |-> IF j = 0 THEN {EmptyWalk}
                                ELSE {s \in WalkStates : From(s, t.leaves[j].off)}]
           F(f) == f = [j \in 0..n |-> IF j = 0 THEN EmptyWalk
                                       ELSE PlaceLeaf(i, f[j - 1], t.leaves[j])]
<1>1. n \in Nat /\ \A j \in 1..n : t.leaves[j] \in Scalars
  BY LeavesType
<1>2. R \in [0..n -> SUBSET WalkStates] /\ EmptyWalk \in R[0]
  BY <1>1, EmptyWalkType
<1>3. ASSUME NEW j \in 1..n, NEW s \in R[j - 1] PROVE G[<<j, s>>] \in R[j]
  <2>1. j \in 0..n /\ j - 1 \in 0..n /\ s \in WalkStates /\ t.leaves[j] \in Scalars
    BY <1>1, <1>3, EmptyWalkType
  <2>2. From(s, t.leaves[j].off)
    <3>1. CASE j = 1
      BY <2>1, <3>1, EmptyWalkType DEF Scalars
    <3>2. CASE j # 1
      <4>1. From(s, t.leaves[j - 1].off)
        BY <2>1, <3>2
      <4>2. s.reg.word.off \in Nat
        BY <2>1, WalkStateType DEF Word
      <4>3. t.leaves[j - 1].off \in Nat /\ t.leaves[j].off \in Nat
            /\ t.leaves[j - 1].off <= t.leaves[j].off
        BY <3>2, LeavesInOrder
      <4> QED BY <4>1, <4>2, <4>3 DEF From
    <3> QED BY <3>1, <3>2
  <2>3. G[<<j, s>>] = PlaceLeaf(i, s, t.leaves[j])
    BY <2>1
  <2> QED BY <2>1, <2>2, <2>3, PlaceLeafFacts
<1> HIDE DEF n, R, G
<1>4. PICK f \in [0..n -> WalkStates] : Steps(f, n, EmptyWalk, G)
  BY <1>1, <1>2, <1>3, Iterates
<1>5. F(f)
  <2>1. ASSUME NEW j \in 1..n PROVE f[j] = PlaceLeaf(i, f[j - 1], t.leaves[j])
    <3>1. j - 1 \in 0..n /\ f[j - 1] \in WalkStates
      BY <1>1, <1>4
    <3>2. f[j] = G[<<j, f[j - 1]>>]
      BY <1>4 DEF Steps
    <3> QED BY <3>1, <3>2 DEF G
  <2>2. f[0] = EmptyWalk
    BY <1>4 DEF Steps
  <2>3. \A j \in 0..n : f[j] = IF j = 0 THEN EmptyWalk ELSE PlaceLeaf(i, f[j - 1], t.leaves[j])
    BY <1>1, <2>1, <2>2
  <2> QED BY <1>4, <2>3
<1>6. PlaceWalk(i, t) = CHOOSE g : F(g)
  BY DEF PlaceWalk, EmptyWalk, n
<1> HIDE DEF F
<1>7. F(PlaceWalk(i, t))
  BY <1>5, <1>6
<1>8. PICK g : g = PlaceWalk(i, t)
  OBVIOUS
<1>9. g = [j \in 0..n |-> IF j = 0 THEN EmptyWalk ELSE PlaceLeaf(i, g[j - 1], t.leaves[j])]
  BY <1>7, <1>8 DEF F
<1>10. g[0] = EmptyWalk /\ \A j \in 1..n : g[j] = PlaceLeaf(i, g[j - 1], t.leaves[j])
  BY <1>1, <1>9
<1> QED BY <1>8, <1>10 DEF n

\* After j scalars, and what the next one does.
LEMMA PlaceWalkSteps ==
  ASSUME NEW i \in Nat, NEW t \in Types
  PROVE  /\ PlaceWalk(i, t)[0] = EmptyWalk
         /\ \A j \in 0..Len(t.leaves) : PlaceWalk(i, t)[j] \in WalkStates
         /\ \A j \in 1..Len(t.leaves) :
              LET s == PlaceWalk(i, t)[j - 1]
                  p == PlaceWalk(i, t)[j]
              IN  /\ s \in WalkStates /\ t.leaves[j] \in Scalars /\ From(s, t.leaves[j].off)
                  /\ ~s.ok => p = s
                  /\ s.ok => PlacedLeaf(i, Settle(s, t.leaves[j]), t.leaves[j], p)
<1>1. PICK n : n = Len(t.leaves)
  OBVIOUS
<1>2. n \in Nat /\ \A j \in 1..n : t.leaves[j] \in Scalars
  BY <1>1, LeavesType
<1>3. PICK w : w = PlaceWalk(i, t)
  OBVIOUS
<1>4. w[0] = EmptyWalk /\ \A j \in 1..n : w[j] = PlaceLeaf(i, w[j - 1], t.leaves[j])
  BY <1>1, <1>3, PlaceWalkUnfolds
<1> DEFINE Good(j) == w[j] \in WalkStates /\ (j # 0 => From(w[j], t.leaves[j].off))
           S == {j \in 0..n : Good(j)}
<1>5. 0 \in S
  BY <1>2, <1>4, EmptyWalkType
<1>6. ASSUME NEW j \in 1..n, Good(j - 1) PROVE From(w[j - 1], t.leaves[j].off)
  <2>1. CASE j = 1
    BY <1>2, <1>4, <2>1, EmptyWalkType DEF Scalars
  <2>2. CASE j # 1
    <3>1. From(w[j - 1], t.leaves[j - 1].off)
      BY <1>6, <2>2
    <3>2. w[j - 1].reg.word.off \in Nat
      BY <1>6, WalkStateType DEF Word
    <3>3. t.leaves[j - 1].off \in Nat /\ t.leaves[j].off \in Nat
          /\ t.leaves[j - 1].off <= t.leaves[j].off
      BY <1>1, <2>2, LeavesInOrder
    <3> QED BY <3>1, <3>2, <3>3 DEF From
  <2> QED BY <2>1, <2>2
<1>7. ASSUME NEW j \in 1..n, j - 1 \in S PROVE j \in S
  <2>1. w[j - 1] \in WalkStates /\ From(w[j - 1], t.leaves[j].off) /\ t.leaves[j] \in Scalars
    BY <1>2, <1>6, <1>7
  <2>2. w[j] = PlaceLeaf(i, w[j - 1], t.leaves[j])
    BY <1>4
  <2> QED BY <2>1, <2>2, PlaceLeafFacts
<1> HIDE DEF S
<1>8. \A j \in 0..n : j \in S
  BY <1>2, <1>5, <1>7, UpToN
<1>9. \A j \in 0..n : Good(j)
  BY <1>8 DEF S
<1>10. ASSUME NEW j \in 1..n
       PROVE  /\ w[j - 1] \in WalkStates /\ t.leaves[j] \in Scalars
              /\ From(w[j - 1], t.leaves[j].off)
              /\ ~w[j - 1].ok => w[j] = w[j - 1]
              /\ w[j - 1].ok => PlacedLeaf(i, Settle(w[j - 1], t.leaves[j]), t.leaves[j], w[j])
  <2>1. j - 1 \in 0..n
    BY <1>2
  <2>2. w[j - 1] \in WalkStates /\ From(w[j - 1], t.leaves[j].off) /\ t.leaves[j] \in Scalars
    BY <1>2, <1>6, <1>9, <2>1
  <2>3. w[j] = PlaceLeaf(i, w[j - 1], t.leaves[j])
    BY <1>4
  <2> QED BY <2>2, <2>3, PlaceLeafFacts
<1> QED BY <1>1, <1>3, <1>4, <1>9, <1>10
--------------------------------------------------------------------------------
(* countStructRegUsage, and that it counts what placeStructRegisters uses.  *)

CountStates == {c \in [shift : Nat, class : Classes, n : Counts] : c.shift = 0 <=> c.class = {}}
AtMost(m, n) == m.gp <= n.gp /\ m.fp <= n.fp
OneMore(n, kind) == [n EXCEPT ![kind] = @ + 1]

LEMMA OneMoreCounts ==
  ASSUME NEW n \in Counts, NEW kind \in {"gp", "fp"}
  PROVE  /\ OneMore(n, kind) \in Counts /\ AtMost(n, OneMore(n, kind))
         /\ OneMore(n, kind).gp = IF kind = "gp" THEN n.gp + 1 ELSE n.gp
         /\ OneMore(n, kind).fp = IF kind = "fp" THEN n.fp + 1 ELSE n.fp
  BY DEF OneMore, Counts, AtMost

LEMMA CountStateType ==
  ASSUME NEW c \in CountStates
  PROVE  /\ c.shift \in Nat /\ c.class \in Classes /\ c.n \in Counts
         /\ c.shift = 0 <=> c.class = {}
         /\ c.n.gp \in Nat /\ c.n.fp \in Nat
         /\ c = [shift |-> c.shift, class |-> c.class, n |-> c.n]
  BY DEF CountStates, Counts

LEMMA CountFlushFacts ==
  ASSUME NEW c \in CountStates
  PROVE  LET m == IF c.class = {} THEN c.n ELSE OneMore(c.n, RegOf(c.class))
         IN  /\ CountFlush(c) = [shift |-> 0, class |-> {}, n |-> m]
             /\ CountFlush(c) \in CountStates /\ m \in Counts /\ AtMost(c.n, m)
<1>1. PICK m : m = IF c.class = {} THEN c.n ELSE OneMore(c.n, RegOf(c.class))
  OBVIOUS
<1>2. CountFlush(c) = [shift |-> 0, class |-> {}, n |-> m]
  BY <1>1 DEF CountFlush, OneMore
<1>3. RegOf(c.class) \in {"gp", "fp"} /\ c.n \in Counts /\ c.n.gp \in Nat /\ c.n.fp \in Nat
  BY CountStateType DEF RegOf
<1>4. m \in Counts /\ AtMost(c.n, m)
  <2>1. CASE c.class = {}
    BY <1>1, <1>3, <2>1 DEF AtMost
  <2>2. CASE c.class # {}
    BY <1>1, <1>3, <2>2, OneMoreCounts
  <2> QED BY <2>1, <2>2
<1>5. CountFlush(c) \in CountStates
  BY <1>2, <1>4 DEF CountStates, Classes
<1> QED BY <1>1, <1>2, <1>4, <1>5

\* The register after a scalar narrower than eight bytes, q being the count when
\* there is room for it.
CountMade(q, leaf) ==
  [shift |-> q.shift + leaf.size, class |-> q.class \cup ClassOf(leaf), n |-> q.n]
CountRoom(c, leaf) == IF Begins(c.shift, c.class, leaf) THEN CountFlush(c)
                      ELSE [shift |-> AlignUp(c.shift, leaf.size), class |-> c.class, n |-> c.n]

LEMMA CountLeafFacts ==
  ASSUME NEW c \in CountStates, NEW leaf \in Scalars
  PROVE  /\ CountLeaf(c, leaf) \in CountStates /\ AtMost(c.n, CountLeaf(c, leaf).n)
         /\ leaf.size = 8 \/ Unknown(leaf) =>
              CountLeaf(c, leaf) =
                [shift |-> 0, class |-> {},
                 n |-> OneMore(CountFlush(c).n, IF leaf.kind = "double" THEN "fp" ELSE "gp")]
         /\ ~(leaf.size = 8 \/ Unknown(leaf)) =>
              CountLeaf(c, leaf) = CountMade(CountRoom(c, leaf), leaf)
<1>1. PICK f : f = CountFlush(c)
  OBVIOUS
<1>2. /\ f \in CountStates /\ f = [shift |-> 0, class |-> {}, n |-> f.n]
      /\ f.n \in Counts /\ AtMost(c.n, f.n)
  BY <1>1, CountFlushFacts
<1>3. c.n \in Counts /\ c.n.gp \in Nat /\ c.n.fp \in Nat /\ f.n.gp \in Nat /\ f.n.fp \in Nat
  BY <1>2, CountStateType
<1>4. CASE leaf.size = 8 \/ Unknown(leaf)
  <2>1. PICK kind : kind = IF leaf.kind = "double" THEN "fp" ELSE "gp"
    OBVIOUS
  <2>2. PICK m : m = OneMore(f.n, kind)
    OBVIOUS
  <2>3. CountLeaf(c, leaf) = [f EXCEPT !.n[kind] = @ + 1]
    BY <1>1, <1>4, <2>1 DEF CountLeaf
  <2>4. PICK k : k = f.n
    OBVIOUS
  <2>5. f = [shift |-> 0, class |-> {}, n |-> k]
    BY <1>2, <2>4
  <2>6. [f EXCEPT !.n[kind] = @ + 1] = [shift |-> 0, class |-> {}, n |-> m]
    BY <2>2, <2>4, <2>5 DEF OneMore
  <2>7. m \in Counts /\ AtMost(f.n, m) /\ m.gp \in Nat /\ m.fp \in Nat
    BY <1>2, <2>1, <2>2, OneMoreCounts DEF Counts
  <2>8. AtMost(c.n, m)
    BY <1>2, <1>3, <2>7 DEF AtMost
  <2>9. [shift |-> 0, class |-> {}, n |-> m] \in CountStates
    BY <2>7 DEF CountStates, Classes
  <2> QED BY <1>1, <1>4, <2>1, <2>2, <2>3, <2>6, <2>8, <2>9
<1>5. CASE ~(leaf.size = 8 \/ Unknown(leaf))
  <2>1. PICK q : q = CountRoom(c, leaf)
    OBVIOUS
  <2>2. /\ CountLeaf(c, leaf) = [q EXCEPT !.shift = @ + leaf.size, !.class = @ \cup ClassOf(leaf)]
        /\ q \in [shift : Nat, class : Classes, n : Counts] /\ AtMost(c.n, q.n)
    <3>1. CASE Begins(c.shift, c.class, leaf)
      <4>1. q = f
        BY <1>1, <2>1, <3>1 DEF CountRoom
      <4>2. CountLeaf(c, leaf) = [q EXCEPT !.shift = @ + leaf.size, !.class = @ \cup ClassOf(leaf)]
        BY <1>1, <1>5, <3>1, <4>1 DEF CountLeaf
      <4> QED BY <1>2, <4>1, <4>2 DEF CountStates
    <3>2. CASE ~Begins(c.shift, c.class, leaf)
      <4>1. PICK a, b, d : a = c.shift /\ b = c.class /\ d = c.n
        OBVIOUS
      <4>2. c = [shift |-> a, class |-> b, n |-> d]
        BY <4>1, CountStateType
      <4>3. q = [shift |-> AlignUp(a, leaf.size), class |-> b, n |-> d]
        BY <2>1, <3>2, <4>1 DEF CountRoom
      <4>4. [c EXCEPT !.shift = AlignUp(@, leaf.size)] = q
        BY <4>2, <4>3
      <4>5. CountLeaf(c, leaf) = [q EXCEPT !.shift = @ + leaf.size, !.class = @ \cup ClassOf(leaf)]
        BY <1>5, <3>2, <4>4 DEF CountLeaf
      <4>6. q \in [shift : Nat, class : Classes, n : Counts] /\ AtMost(c.n, q.n)
        <5>1. a \in Nat /\ b \in Classes /\ d \in Counts /\ leaf.size \in Sizes
          BY <4>1, CountStateType DEF Scalars
        <5>2. AlignUp(a, leaf.size) \in Nat
          BY <5>1, AlignUpFacts
        <5> QED BY <1>3, <4>1, <4>3, <5>1, <5>2 DEF AtMost
      <4> QED BY <4>5, <4>6
    <3> QED BY <3>1, <3>2
  <2>5. PICK a, b, d : a = q.shift /\ b = q.class /\ d = q.n
    OBVIOUS
  <2>6. q = [shift |-> a, class |-> b, n |-> d] /\ a \in Nat /\ b \in Classes /\ d \in Counts
    BY <2>2, <2>5
  <2>7. PICK g, h : g = a + leaf.size /\ h = b \cup ClassOf(leaf)
    OBVIOUS
  <2>8. CountLeaf(c, leaf) = [shift |-> g, class |-> h, n |-> d]
    BY <2>2, <2>6, <2>7
  <2>9. CountLeaf(c, leaf) = CountMade(q, leaf)
    BY <2>5, <2>7, <2>8 DEF CountMade
  <2>10. g \in Nat /\ g # 0
    BY <2>6, <2>7 DEF Scalars, Sizes
  <2>11. h \in Classes /\ h # {}
    BY <2>6, <2>7 DEF Classes, ClassOf
  <2>12. CountLeaf(c, leaf) \in CountStates
    BY <2>6, <2>8, <2>10, <2>11 DEF CountStates
  <2>13. AtMost(c.n, CountLeaf(c, leaf).n)
    BY <2>2, <2>5, <2>8
  <2> QED BY <1>5, <2>1, <2>9, <2>12, <2>13
<1> QED BY <1>4, <1>5

EmptyCount == [shift |-> 0, class |-> {}, n |-> [gp |-> 0, fp |-> 0]]
LEMMA CountWalkUnfolds ==
  ASSUME NEW t \in Types
  PROVE  /\ CountWalk(t)[0] = EmptyCount
         /\ \A j \in 0..Len(t.leaves) : CountWalk(t)[j] \in CountStates
         /\ \A j \in 1..Len(t.leaves) :
              CountWalk(t)[j] = CountLeaf(CountWalk(t)[j - 1], t.leaves[j])
<1> DEFINE n == Len(t.leaves)
           G == [p \in (1..n) \X CountStates |-> CountLeaf(p[2], t.leaves[p[1]])]
           R == [j \in 0..n |-> CountStates]
           F(f) == f = [j \in 0..n |-> IF j = 0 THEN EmptyCount
                                       ELSE CountLeaf(f[j - 1], t.leaves[j])]
<1>1. n \in Nat /\ \A j \in 1..n : t.leaves[j] \in Scalars
  BY LeavesType
<1>2. EmptyCount \in CountStates
  BY DEF EmptyCount, CountStates, Counts, Classes
<1>3. R \in [0..n -> SUBSET CountStates] /\ EmptyCount \in R[0]
  BY <1>1, <1>2
<1>4. ASSUME NEW j \in 1..n, NEW s \in R[j - 1] PROVE G[<<j, s>>] \in R[j]
  <2>1. j \in 0..n /\ j - 1 \in 0..n /\ s \in CountStates /\ t.leaves[j] \in Scalars
    BY <1>1, <1>4
  <2>2. G[<<j, s>>] = CountLeaf(s, t.leaves[j])
    BY <2>1
  <2> QED BY <2>1, <2>2, CountLeafFacts
<1> HIDE DEF n, R, G
<1>5. PICK f \in [0..n -> CountStates] : Steps(f, n, EmptyCount, G)
  BY <1>1, <1>3, <1>4, Iterates
<1>6. F(f)
  <2>1. ASSUME NEW j \in 1..n PROVE f[j] = CountLeaf(f[j - 1], t.leaves[j])
    <3>1. j - 1 \in 0..n /\ f[j - 1] \in CountStates
      BY <1>1, <1>5
    <3>2. f[j] = G[<<j, f[j - 1]>>]
      BY <1>5 DEF Steps
    <3> QED BY <3>1, <3>2 DEF G
  <2>2. f[0] = EmptyCount
    BY <1>5 DEF Steps
  <2>3. \A j \in 0..n : f[j] = IF j = 0 THEN EmptyCount ELSE CountLeaf(f[j - 1], t.leaves[j])
    BY <1>1, <2>1, <2>2
  <2> QED BY <1>5, <2>3
<1>7. CountWalk(t) = CHOOSE g : F(g)
  BY DEF CountWalk, EmptyCount, n
<1> HIDE DEF F
<1>8. F(CountWalk(t))
  BY <1>6, <1>7
<1>9. PICK g : g = CountWalk(t)
  OBVIOUS
<1>10. g = [j \in 0..n |-> IF j = 0 THEN EmptyCount ELSE CountLeaf(g[j - 1], t.leaves[j])]
  BY <1>8, <1>9 DEF F
<1>11. g[0] = EmptyCount /\ \A j \in 1..n : g[j] = CountLeaf(g[j - 1], t.leaves[j])
  BY <1>1, <1>10
<1> DEFINE S == {j \in 0..n : g[j] \in CountStates}
<1>12. 0 \in S
  BY <1>1, <1>2, <1>11
<1>13. ASSUME NEW j \in 1..n, j - 1 \in S PROVE j \in S
  BY <1>1, <1>11, <1>13, CountLeafFacts
<1> HIDE DEF S
<1>14. \A j \in 0..n : j \in S
  BY <1>1, <1>12, <1>13, UpToN
<1> QED BY <1>9, <1>11, <1>14 DEF n, S

\* The two walks have the same register half filled and as many full ones.
Alike(s, c) == s.reg.shift = c.shift /\ s.reg.class = c.class /\ Adds(s.out, c.n)
\* out is a part of what is counted, and a GP register more is counted than out needs.
Short(out, n) == \E m \in Counts : Adds(out, m) /\ m.gp + 1 <= n.gp /\ m.fp <= n.fp

LEMMA FlushAlike ==
  ASSUME NEW s \in WalkStates, NEW c \in CountStates, Alike(s, c)
  PROVE  Adds(Flush(s).out, CountFlush(c).n)
<1>1. s.reg.class = c.class /\ Adds(s.out, c.n)
  BY DEF Alike
<1>2. CASE c.class = {}
  <2>1. Flush(s).out = s.out
    BY <1>1, <1>2, FlushFacts
  <2>2. CountFlush(c).n = c.n
    BY <1>2, CountFlushFacts
  <2> QED BY <1>1, <2>1, <2>2
<1>3. CASE c.class # {}
  <2>1. PICK o : o = [kind |-> RegOf(s.reg.class), word |-> s.reg.word]
    OBVIOUS
  <2>2. o \in Outs /\ Flush(s).out = Append(s.out, o) /\ o.kind = RegOf(c.class)
    BY <1>1, <1>3, <2>1, FlushFacts
  <2>3. CountFlush(c).n = OneMore(c.n, o.kind)
    BY <1>3, <2>2, CountFlushFacts
  <2> QED BY <1>1, <2>2, <2>3, AddsOneMore DEF OneMore
<1> QED BY <1>2, <1>3

LEMMA RoomAlike ==
  ASSUME NEW s \in WalkStates, NEW c \in CountStates, Alike(s, c), NEW leaf \in Scalars
  PROVE  Alike(Settle(s, leaf), CountRoom(c, leaf))
<1>1. s.reg.shift = c.shift /\ s.reg.class = c.class /\ Adds(s.out, c.n)
  BY DEF Alike
<1>2. CASE Begins(c.shift, c.class, leaf)
  <2>1. Settle(s, leaf) = Flush(s) /\ CountRoom(c, leaf) = CountFlush(c)
    BY <1>1, <1>2, SettleFacts DEF CountRoom
  <2>2. Flush(s).reg = EmptyReg
    BY FlushFacts
  <2>3. CountFlush(c).shift = 0 /\ CountFlush(c).class = {}
    BY CountFlushFacts
  <2> QED BY <2>1, <2>2, <2>3, FlushAlike, EmptyRegType DEF Alike
<1>3. CASE ~Begins(c.shift, c.class, leaf)
  <2>1. CountRoom(c, leaf) = [shift |-> AlignUp(c.shift, leaf.size), class |-> c.class, n |-> c.n]
    BY <1>3 DEF CountRoom
  <2>2. /\ Settle(s, leaf).out = s.out
        /\ Settle(s, leaf).reg = [shift |-> AlignUp(s.reg.shift, leaf.size),
                                  class |-> s.reg.class, word |-> s.reg.word]
    BY <1>1, <1>3, SettleFacts
  <2> QED BY <1>1, <2>1, <2>2 DEF Alike
<1> QED BY <1>2, <1>3

LEMMA FullBegins ==
  ASSUME NEW s \in WalkStates, NEW leaf \in Scalars, leaf.size = 8
  PROVE  Settle(s, leaf).out = Flush(s).out
<1>1. PICK n : n = s.reg.shift
  OBVIOUS
<1>2. n \in Nat /\ (n = 0 <=> s.reg.class = {})
  BY <1>1, WalkStateType
<1>3. CASE Begins(n, s.reg.class, leaf)
  BY <1>1, <1>3, SettleFacts
<1>4. CASE ~Begins(n, s.reg.class, leaf)
  <2>1. ~(AlignUp(n, 8) >= 8)
    BY <1>4 DEF Begins
  <2>2. n = 0
    BY <1>2, <2>1 DEF AlignUp
  <2>3. Flush(s).out = s.out
    BY <1>2, <2>2, FlushFacts
  <2> QED BY <1>1, <1>4, <2>3, SettleFacts
<1> QED BY <1>3, <1>4

LEMMA AddsOut ==
  ASSUME NEW out, NEW n, Adds(out, n), NEW kind \in {"gp", "fp"}, NEW w \in Word
  PROVE  Adds(Append(out, [kind |-> kind, word |-> w]), OneMore(n, kind))
<1>1. PICK o : o = [kind |-> kind, word |-> w]
  OBVIOUS
<1>2. o \in Outs /\ o.kind = kind
  BY <1>1 DEF Outs
<1> QED BY <1>1, <1>2, AddsOneMore DEF OneMore

LEMMA LeafAlike ==
  ASSUME NEW i \in Nat, NEW s \in WalkStates, NEW c \in CountStates, Alike(s, c),
         NEW leaf \in Scalars, From(s, leaf.off),
         NEW p, PlacedLeaf(i, Settle(s, leaf), leaf, p)
  PROVE  /\ p.ok => Alike(p, CountLeaf(c, leaf))
         /\ ~p.ok => Short(p.out, CountLeaf(c, leaf).n)
<1>1. PICK q : q = Settle(s, leaf)
  OBVIOUS
<1>2. PICK d : d = CountRoom(c, leaf)
  OBVIOUS
<1>3. q \in WalkStates /\ Alike(q, d)
  BY <1>1, <1>2, RoomAlike, SettleFacts
<1>4. CASE Unknown(leaf)
  <2>1. ~p.ok /\ p.out = q.out
    BY <1>1, <1>4 DEF PlacedLeaf
  <2>2. PICK f, g : f = CountFlush(c).n /\ g = CountLeaf(c, leaf).n
    OBVIOUS
  <2>3. g = OneMore(f, IF leaf.kind = "double" THEN "fp" ELSE "gp")
    BY <1>4, <2>2, CountLeafFacts
  <2>4. leaf.kind # "double"
    BY <1>4 DEF Unknown
  <2>5. f \in Counts /\ AtMost(c.n, f) /\ c.n \in Counts
    BY <2>2, CountFlushFacts, CountStateType
  <2>6. g.gp = f.gp + 1 /\ g.fp = f.fp
    BY <2>3, <2>4, <2>5, OneMoreCounts
  <2>7. \E m \in Counts : Adds(q.out, m) /\ AtMost(m, f)
    <3>1. CASE Begins(c.shift, c.class, leaf)
      <4>1. d = CountFlush(c)
        BY <1>2, <3>1 DEF CountRoom
      <4>2. Adds(q.out, f)
        BY <1>3, <2>2, <4>1 DEF Alike
      <4> QED BY <2>5, <4>2 DEF AtMost, Counts
    <3>2. CASE ~Begins(c.shift, c.class, leaf)
      <4>1. d.n = c.n
        BY <1>2, <3>2 DEF CountRoom
      <4>2. Adds(q.out, c.n)
        BY <1>3, <4>1 DEF Alike
      <4> QED BY <2>5, <4>2
    <3> QED BY <3>1, <3>2
  <2>8. PICK m \in Counts : Adds(q.out, m) /\ AtMost(m, f)
    BY <2>7
  <2>9. m.gp + 1 <= g.gp /\ m.fp <= g.fp
    BY <2>5, <2>6, <2>8 DEF AtMost, Counts
  <2>10. Short(p.out, g)
    BY <2>1, <2>8, <2>9 DEF Short
  <2> QED BY <2>1, <2>2, <2>10
<1>5. CASE ~Unknown(leaf) /\ leaf.size = 8
  <2>1. PICK kind : kind = IF leaf.kind = "double" THEN "fp" ELSE "gp"
    OBVIOUS
  <2>2. PICK w : w = Bytes(i, leaf.off, 8)
    OBVIOUS
  <2>3. p.ok /\ p.reg = EmptyReg /\ p.out = Append(q.out, [kind |-> kind, word |-> w])
    BY <1>1, <1>5, <2>1, <2>2 DEF PlacedLeaf
  <2>4. w \in Word /\ kind \in {"gp", "fp"}
    BY <2>1, <2>2, WordsAreWords DEF Scalars
  <2>5. Adds(q.out, CountFlush(c).n)
    BY <1>1, <1>5, FullBegins, FlushAlike
  <2>6. Adds(p.out, OneMore(CountFlush(c).n, kind))
    BY <2>3, <2>4, <2>5, AddsOut
  <2>7. CountLeaf(c, leaf) = [shift |-> 0, class |-> {}, n |-> OneMore(CountFlush(c).n, kind)]
    BY <1>5, <2>1, CountLeafFacts
  <2> QED BY <2>3, <2>6, <2>7, EmptyRegType DEF Alike
<1>6. CASE ~Unknown(leaf) /\ leaf.size # 8
  <2>1. p.ok /\ p = Merge(q, i, leaf)
    BY <1>1, <1>6 DEF PlacedLeaf
  <2>2. From(q, leaf.off)
    <3>1. CASE Begins(s.reg.shift, s.reg.class, leaf)
      BY <1>1, <3>1, SettleFacts, FlushFacts, EmptyRegType DEF From
    <3>2. CASE ~Begins(s.reg.shift, s.reg.class, leaf)
      <4>1. q.reg = [shift |-> AlignUp(s.reg.shift, leaf.size),
                     class |-> s.reg.class, word |-> s.reg.word]
        BY <1>1, <3>2, SettleFacts
      <4> QED BY <4>1 DEF From
    <3> QED BY <3>1, <3>2
  <2>3. /\ p.out = q.out /\ p.reg.shift = q.reg.shift + leaf.size
        /\ p.reg.class = q.reg.class \cup ClassOf(leaf)
    BY <1>3, <2>1, <2>2, MergeMakes
  <2>4. CountLeaf(c, leaf) = CountMade(d, leaf)
    BY <1>2, <1>6, CountLeafFacts
  <2> QED BY <1>3, <2>1, <2>3, <2>4 DEF Alike, CountMade
<1> QED BY <1>4, <1>5, <1>6

LEMMA PlaceStructType ==
  ASSUME NEW i \in Nat, NEW t \in Types
  PROVE  PlaceStruct(i, t).out \in Seq(Outs) /\ PlaceStruct(i, t).ok \in BOOLEAN
<1>1. PICK end : end = PlaceWalk(i, t)[Len(t.leaves)]
  OBVIOUS
<1>2. Len(t.leaves) \in 0..Len(t.leaves)
  BY LeavesType
<1>3. end \in WalkStates
  BY <1>1, <1>2, PlaceWalkSteps
<1> QED BY <1>1, <1>3, WalkStateType, FlushFacts DEF PlaceStruct

LEMMA CountsWhatIsPlaced ==
  ASSUME NEW i \in Nat, NEW t \in Types
  PROVE  /\ CountStruct(t) \in Counts
         /\ PlaceStruct(i, t).ok => Adds(PlaceStruct(i, t).out, CountStruct(t))
         /\ ~PlaceStruct(i, t).ok => Short(PlaceStruct(i, t).out, CountStruct(t))
<1>1. PICK n : n = Len(t.leaves)
  OBVIOUS
<1>2. PICK w : w = PlaceWalk(i, t)
  OBVIOUS
<1>3. PICK c : c = CountWalk(t)
  OBVIOUS
<1>4. n \in Nat /\ n \in 0..n
  BY <1>1, LeavesType
<1>5. w[0] = EmptyWalk /\ \A j \in 0..n : w[j] \in WalkStates
  BY <1>1, <1>2, PlaceWalkSteps
<1>6. /\ c[0] = EmptyCount /\ \A j \in 0..n : c[j] \in CountStates
      /\ \A j \in 1..n : c[j] = CountLeaf(c[j - 1], t.leaves[j])
  BY <1>1, <1>3, CountWalkUnfolds
<1> DEFINE Good(j) == /\ w[j].ok => Alike(w[j], c[j])
                      /\ ~w[j].ok => Short(w[j].out, c[j].n)
           S == {j \in 0..n : Good(j)}
<1>7. 0 \in S
  <2>1. w[0].ok /\ Alike(w[0], c[0])
    BY <1>5, <1>6, AddsNothing, EmptyRegType DEF EmptyWalk, EmptyCount, Alike
  <2> QED BY <1>4, <2>1
<1>8. ASSUME NEW j \in 1..n, j - 1 \in S PROVE j \in S
  <2>1. PICK leaf : leaf = t.leaves[j]
    OBVIOUS
  <2>2. PICK s, p, a, b : s = w[j - 1] /\ p = w[j] /\ a = c[j - 1] /\ b = c[j]
    OBVIOUS
  <2>3. /\ s \in WalkStates /\ leaf \in Scalars /\ From(s, leaf.off)
        /\ ~s.ok => p = s
        /\ s.ok => PlacedLeaf(i, Settle(s, leaf), leaf, p)
    BY <1>1, <1>2, <2>1, <2>2, PlaceWalkSteps
  <2>4. a \in CountStates /\ b = CountLeaf(a, leaf)
    BY <1>4, <1>6, <2>1, <2>2
  <2>5. (s.ok => Alike(s, a)) /\ (~s.ok => Short(s.out, a.n))
    BY <1>8, <2>2
  <2>6. (p.ok => Alike(p, b)) /\ (~p.ok => Short(p.out, b.n))
    <3>1. CASE s.ok
      BY <2>3, <2>4, <2>5, <3>1, LeafAlike
    <3>2. CASE ~s.ok
      <4>1. p = s /\ Short(s.out, a.n) /\ AtMost(a.n, b.n) /\ a.n \in Counts /\ b.n \in Counts
        BY <2>3, <2>4, <2>5, <3>2, CountLeafFacts, CountStateType
      <4>2. PICK m \in Counts : Adds(s.out, m) /\ m.gp + 1 <= a.n.gp /\ m.fp <= a.n.fp
        BY <4>1 DEF Short
      <4>3. m.gp + 1 <= b.n.gp /\ m.fp <= b.n.fp
        BY <4>1, <4>2 DEF AtMost, Counts
      <4>4. Short(s.out, b.n)
        BY <4>2, <4>3 DEF Short
      <4> QED BY <3>2, <4>1, <4>4
    <3> QED BY <3>1, <3>2
  <2>7. Good(j)
    BY <2>2, <2>6
  <2> QED BY <2>7
<1> HIDE DEF S
<1>9. \A j \in 0..n : j \in S
  BY <1>4, <1>7, <1>8, UpToN
<1>10. Good(n) /\ w[n] \in WalkStates /\ c[n] \in CountStates
  BY <1>4, <1>5, <1>6, <1>9 DEF S
<1>11. CountStruct(t) = CountFlush(c[n]).n
  BY <1>1, <1>3 DEF CountStruct
<1>12. CountStruct(t) \in Counts /\ AtMost(c[n].n, CountStruct(t)) /\ c[n].n \in Counts
  BY <1>10, <1>11, CountFlushFacts, CountStateType
<1>13. PlaceStruct(i, t) = IF w[n].ok THEN Flush(w[n]) ELSE w[n]
  BY <1>1, <1>2 DEF PlaceStruct
<1>14. CASE w[n].ok
  <2>1. PlaceStruct(i, t).ok /\ PlaceStruct(i, t).out = Flush(w[n]).out
    BY <1>10, <1>13, <1>14, FlushFacts
  <2>2. Adds(Flush(w[n]).out, CountFlush(c[n]).n)
    BY <1>10, <1>14, FlushAlike
  <2> QED BY <1>11, <1>12, <2>1, <2>2
<1>15. CASE ~w[n].ok
  <2>1. ~PlaceStruct(i, t).ok /\ PlaceStruct(i, t).out = w[n].out
    BY <1>13, <1>15
  <2>2. PICK m \in Counts : Adds(w[n].out, m) /\ m.gp + 1 <= c[n].n.gp /\ m.fp <= c[n].n.fp
    BY <1>10, <1>15 DEF Short
  <2>3. m.gp + 1 <= CountStruct(t).gp /\ m.fp <= CountStruct(t).fp
    BY <1>12, <2>2 DEF AtMost, Counts
  <2> QED BY <1>12, <2>1, <2>2, <2>3 DEF Short
<1> QED BY <1>14, <1>15
--------------------------------------------------------------------------------
(* A homogeneous aggregate: a word for an FP register per scalar.           *)

\* Only narrow scalars are put into a register with others.
LEMMA FreshRegister ==
  ASSUME NEW i \in Nat, NEW q \in WalkStates, q.reg = EmptyReg, NEW leaf \in Scalars
  PROVE  LET p == Merge(q, i, leaf)
         IN  /\ p \in WalkStates /\ p.out = q.out /\ p.ok = q.ok
             /\ p.reg = [shift |-> leaf.size, class |-> ClassOf(leaf),
                         word |-> Bytes(i, leaf.off, leaf.size)]
<1>1. q.reg.class = {} /\ q.reg.shift = 0 /\ q.reg.word = Unset
  BY DEF EmptyReg
<1>2. From(q, leaf.off)
  BY <1>1 DEF From
<1>3. PICK p : p = Merge(q, i, leaf)
  OBVIOUS
<1>4. leaf.off \in Nat /\ leaf.size \in Nat
  BY DEF Scalars, Sizes
<1>5. leaf.off + leaf.size - leaf.off = leaf.size /\ 0 = leaf.off - leaf.off /\ 0 + leaf.size = leaf.size
  BY <1>4
<1>6. q.reg.word.is # "converted"
  BY <1>1 DEF Unset
<1>7. /\ p \in WalkStates /\ p.out = q.out /\ p.ok = q.ok
      /\ p.reg.shift = 0 + leaf.size /\ p.reg.class = {} \cup ClassOf(leaf)
      /\ p.reg.word = Bytes(i, leaf.off, leaf.off + leaf.size - leaf.off)
  <2>1. PICK from : from = IF q.reg.class = {} THEN leaf.off ELSE q.reg.word.off
    OBVIOUS
  <2>2. PICK word : word = Bytes(i, from, leaf.off + leaf.size - from)
    OBVIOUS
  <2>3. /\ p \in WalkStates /\ p.out = q.out /\ p.ok = q.ok
        /\ p.reg.shift = q.reg.shift + leaf.size
        /\ p.reg.class = q.reg.class \cup ClassOf(leaf)
        /\ p.reg.word = IF q.reg.word.is # "converted" /\ q.reg.shift = leaf.off - from
                        THEN word ELSE Converted(word)
    BY <1>2, <1>3, <2>1, <2>2, MergeFacts
  <2>4. from = leaf.off /\ q.reg.shift = leaf.off - from
    BY <1>1, <1>5, <2>1
  <2> QED BY <1>1, <1>6, <2>2, <2>3, <2>4
<1>8. p.reg = [shift |-> p.reg.shift, class |-> p.reg.class, word |-> p.reg.word]
  BY <1>7, WalkStateType
<1> QED BY <1>3, <1>5, <1>7, <1>8

LEMMA SettleEmpty ==
  ASSUME NEW s \in WalkStates, s.reg = EmptyReg, NEW leaf \in Scalars
  PROVE  LET q == Settle(s, leaf)
         IN  q \in WalkStates /\ q.out = s.out /\ q.reg = EmptyReg /\ q.ok = s.ok
<1>1. s.reg.shift = 0 /\ s.reg.class = {} /\ s.reg.word = Unset
  BY DEF EmptyReg
<1>2. AlignUp(0, leaf.size) = 0
  BY DEF AlignUp, Scalars, Sizes
<1>3. ~Begins(0, {}, leaf)
  BY <1>2 DEF Begins
<1>4. /\ Settle(s, leaf).out = s.out /\ Settle(s, leaf) \in WalkStates /\ Settle(s, leaf).ok = s.ok
      /\ Settle(s, leaf).reg = [shift |-> AlignUp(s.reg.shift, leaf.size),
                                class |-> s.reg.class, word |-> s.reg.word]
  BY <1>1, <1>3, SettleFacts
<1> QED BY <1>1, <1>2, <1>4 DEF EmptyReg

HfaWord(i, t, k) == [kind |-> "fp", word |-> Bytes(i, t.leaves[k].off, t.leaves[k].size)]
LEMMA HfaType ==
  ASSUME NEW t \in Types, IsHFA(t)
  PROVE  /\ IsStruct(t) /\ Len(t.leaves) \in 1..4
         /\ \A j \in 1..Len(t.leaves) :
              /\ t.leaves[j] \in Scalars /\ t.leaves[j].kind = t.leaves[1].kind
              /\ ~Unknown(t.leaves[j])
              /\ \/ t.leaves[j].kind = "float" /\ t.leaves[j].size = 4
                 \/ t.leaves[j].kind = "double" /\ t.leaves[j].size = 8
              /\ t.leaves[j].size = t.leaves[1].size
<1>1. \A j \in 1..Len(t.leaves) :
        /\ t.leaves[j] \in Scalars /\ IsFloat(t.leaves[j]) /\ t.leaves[j].kind = t.leaves[1].kind
        /\ t.leaves[j].kind = "float" => t.leaves[j].size = 4
        /\ t.leaves[j].kind = "double" => t.leaves[j].size = 8
  BY LeavesType, TypesAssumption DEF IsHFA
<1>2. \A j \in 1..Len(t.leaves) :
              /\ ~Unknown(t.leaves[j])
              /\ \/ t.leaves[j].kind = "float" /\ t.leaves[j].size = 4
                 \/ t.leaves[j].kind = "double" /\ t.leaves[j].size = 8
  BY <1>1 DEF IsFloat, Unknown
<1>3. IsStruct(t) /\ Len(t.leaves) \in 1..4 /\ 1 \in 1..Len(t.leaves)
  <2>1. IsStruct(t) /\ Len(t.leaves) \in 1..4
    BY Zenon DEF IsHFA
  <2>2. \A n \in 1..4 : 1 \in 1..n
    OBVIOUS
  <2> QED BY <2>1, <2>2, Zenon
<1>4. \A j \in 1..Len(t.leaves) : t.leaves[j].size = t.leaves[1].size
  BY <1>1, <1>2, <1>3
<1> QED BY <1>1, <1>2, <1>3, <1>4

LEMMA PlaceFloats ==
  ASSUME NEW i \in Nat, NEW t \in Types, IsHFA(t)
  PROVE  LET placed == PlaceStruct(i, t)
         IN  /\ placed.ok /\ Len(placed.out) = Len(t.leaves)
             /\ \A k \in 1..Len(t.leaves) : placed.out[k] = HfaWord(i, t, k)
<1>1. PICK n : n = Len(t.leaves)
  OBVIOUS
<1>2. PICK w : w = PlaceWalk(i, t)
  OBVIOUS
<1>3. n \in 1..4 /\ n \in 0..n /\ n \in 1..n
  <2>1. n \in 1..4
    BY <1>1, HfaType
  <2> QED BY <2>1
<1>4. w[0] = EmptyWalk /\ \A j \in 0..n : w[j] \in WalkStates
  BY <1>1, <1>2, PlaceWalkSteps
<1>5. ASSUME NEW j \in 1..n, w[j - 1].ok
      PROVE  /\ w[j - 1] \in WalkStates /\ t.leaves[j] \in Scalars /\ ~Unknown(t.leaves[j])
             /\ PlacedLeaf(i, Settle(w[j - 1], t.leaves[j]), t.leaves[j], w[j])
  BY <1>1, <1>2, <1>5, PlaceWalkSteps, HfaType
<1> DEFINE First(s, m) == /\ s.ok /\ Len(s.out) = m
                          /\ \A k \in 1..m : s.out[k] = HfaWord(i, t, k)
<1>6. ASSUME NEW s \in WalkStates, NEW m \in Nat, First(s, m)
      PROVE  /\ Len(Append(s.out, HfaWord(i, t, m + 1))) = m + 1
             /\ \A k \in 1..(m + 1) : Append(s.out, HfaWord(i, t, m + 1))[k] = HfaWord(i, t, k)
  <2>1. PICK o : o = HfaWord(i, t, m + 1)
    OBVIOUS
  <2>2. PICK out : out = s.out
    OBVIOUS
  <2>3. out \in Seq(Outs) /\ Len(out) = m
    BY <1>6, <2>2, WalkStateType
  <2>4. Len(Append(out, o)) = m + 1 /\ Append(out, o)[m + 1] = o
        /\ \A k \in 1..m : Append(out, o)[k] = out[k]
    BY <2>3, AppendProperties
  <2>5. \A k \in 1..(m + 1) : k = m + 1 \/ k \in 1..m
    OBVIOUS
  <2> QED BY <1>6, <2>1, <2>2, <2>4, <2>5
<1>7. CASE t.leaves[1].kind = "double"
  <2> DEFINE S == {j \in 0..n : First(w[j], j) /\ w[j].reg = EmptyReg}
  <2>1. 0 \in S
    BY <1>3, <1>4 DEF EmptyWalk
  <2>2. ASSUME NEW j \in 1..n, j - 1 \in S PROVE j \in S
    <3>1. PICK s, leaf, p, q, m :
            s = w[j - 1] /\ leaf = t.leaves[j] /\ p = w[j] /\ q = Settle(s, leaf) /\ m = j - 1
      OBVIOUS
    <3>2. First(s, m) /\ s.reg = EmptyReg /\ m \in Nat /\ m + 1 = j /\ j \in 0..n
      BY <1>3, <2>2, <3>1
    <3>3. s \in WalkStates /\ leaf \in Scalars /\ ~Unknown(leaf) /\ PlacedLeaf(i, q, leaf, p)
      BY <1>5, <3>1, <3>2
    <3>4. leaf.kind = "double" /\ leaf.size = 8
      BY <1>1, <1>7, <3>1, HfaType
    <3>5. q.out = s.out
      BY <3>1, <3>2, <3>3, SettleEmpty
    <3>6. p.ok /\ p.reg = EmptyReg /\ p.out = Append(s.out, HfaWord(i, t, m + 1))
      BY <3>1, <3>2, <3>3, <3>4, <3>5 DEF PlacedLeaf, HfaWord
    <3> QED BY <1>6, <3>1, <3>2, <3>3, <3>6
  <2> HIDE DEF S
  <2>3. \A j \in 0..n : j \in S
    BY <1>3, <2>1, <2>2, UpToN
  <2>4. First(w[n], n) /\ w[n].reg = EmptyReg /\ w[n] \in WalkStates
    BY <1>3, <1>4, <2>3 DEF S
  <2>5. Flush(w[n]).out = w[n].out /\ Flush(w[n]).ok
    BY <2>4, FlushFacts, EmptyRegType
  <2>6. PlaceStruct(i, t) = Flush(w[n])
    BY <1>1, <1>2, <2>4 DEF PlaceStruct
  <2> QED BY <1>1, <2>4, <2>5, <2>6
<1>8. CASE t.leaves[1].kind = "float"
  <2> DEFINE Held(s, j) == /\ s.reg.class = {"float"}
                           /\ s.reg.word = Bytes(i, t.leaves[j].off, t.leaves[j].size)
             S == {j \in 0..n : IF j = 0 THEN w[j] = EmptyWalk
                                ELSE First(w[j], j - 1) /\ Held(w[j], j)}
  <2>1. 0 \in S
    BY <1>3, <1>4
  <2>2. ASSUME NEW s \in WalkStates, NEW j \in Nat, First(s, j), Held(s, j + 1)
        PROVE  First(Flush(s), j + 1)
    <3>1. Flush(s).ok /\ Flush(s).out = Append(s.out, HfaWord(i, t, j + 1))
      BY <2>2, FlushFacts DEF HfaWord, RegOf
    <3> QED BY <1>6, <2>2, <3>1
  <2>3. ASSUME NEW j \in 1..n, j - 1 \in S PROVE j \in S
    <3>1. PICK s, leaf, p, q, m :
            s = w[j - 1] /\ leaf = t.leaves[j] /\ p = w[j] /\ q = Settle(s, leaf) /\ m = j - 1
      OBVIOUS
    <3>2. m \in Nat /\ m + 1 = j /\ j \in 0..n /\ j # 0
      BY <1>3, <3>1
    <3>3. s.ok
      BY <1>4, <2>3, <3>1 DEF EmptyWalk
    <3>4. s \in WalkStates /\ leaf \in Scalars /\ ~Unknown(leaf) /\ PlacedLeaf(i, q, leaf, p)
      BY <1>5, <3>1, <3>3
    <3>5. leaf.kind = "float" /\ leaf.size = 4
      BY <1>1, <1>8, <3>1, HfaType
    <3>6. q \in WalkStates /\ q.reg = EmptyReg /\ First(q, m)
      <4>1. CASE m = 0
        <5>1. s = EmptyWalk
          BY <2>3, <3>1, <4>1
        <5>2. s.reg = EmptyReg /\ First(s, 0)
          BY <5>1 DEF EmptyWalk
        <5> QED BY <3>1, <3>4, <4>1, <5>2, SettleEmpty
      <4>2. CASE m # 0
        <5>1. First(s, m - 1) /\ Held(s, m)
          BY <2>3, <3>1, <4>2
        <5>2. Begins(s.reg.shift, s.reg.class, leaf)
          BY <3>5, <5>1 DEF Begins
        <5>3. q = Flush(s)
          BY <3>1, <3>4, <5>2, SettleFacts
        <5>4. PICK e : e = m - 1
          OBVIOUS
        <5>5. e \in Nat /\ e + 1 = m
          BY <3>2, <4>2, <5>4
        <5>6. First(s, e) /\ Held(s, e + 1)
          BY <5>1, <5>4, <5>5
        <5>7. First(Flush(s), e + 1)
          BY <2>2, <3>4, <5>5, <5>6
        <5> QED BY <3>4, <5>3, <5>5, <5>7, FlushFacts
      <4> QED BY <4>1, <4>2
    <3>7. p = Merge(q, i, leaf)
      BY <3>4, <3>5 DEF PlacedLeaf
    <3>8. /\ p.out = q.out /\ p.ok = q.ok
          /\ p.reg = [shift |-> leaf.size, class |-> ClassOf(leaf),
                      word |-> Bytes(i, leaf.off, leaf.size)]
      BY <3>4, <3>6, <3>7, FreshRegister
    <3>9. First(p, m) /\ Held(p, j)
      BY <3>1, <3>5, <3>6, <3>8 DEF ClassOf
    <3> QED BY <3>1, <3>2, <3>9
  <2> HIDE DEF S
  <2>4. \A j \in 0..n : j \in S
    BY <1>3, <2>1, <2>3, UpToN
  <2>5. First(w[n], n - 1) /\ Held(w[n], n) /\ w[n] \in WalkStates
    BY <1>3, <1>4, <2>4 DEF S
  <2>6. n - 1 \in Nat /\ (n - 1) + 1 = n
    BY <1>3
  <2>7. First(Flush(w[n]), n)
    BY <2>2, <2>5, <2>6
  <2>8. PlaceStruct(i, t) = Flush(w[n])
    BY <1>1, <1>2, <2>5 DEF PlaceStruct
  <2> QED BY <1>1, <2>7, <2>8
<1> QED
  <2>1. 1 \in 1..Len(t.leaves)
    BY <1>1, <1>3
  <2> QED BY <1>7, <1>8, <2>1, HfaType
--------------------------------------------------------------------------------
(* One argument: registers and slots stay within their bounds, and no more  *)
(* of them are taken than were counted.                                     *)

One(kind, n) == [gp |-> IF kind = "gp" THEN n ELSE 0, fp |-> IF kind = "fp" THEN n ELSE 0]
Sum(c, k) == [gp |-> c.gp + k.gp, fp |-> c.fp + k.fp]

\* Words all for registers of one kind.
LEMMA AddsAlike ==
  ASSUME NEW out \in Seq(Outs), NEW kind \in {"gp", "fp"},
         \A k \in 1..Len(out) : out[k].kind = kind
  PROVE  Adds(out, One(kind, Len(out)))
<1>1. PICK n : n = Len(out)
  OBVIOUS
<1>2. n \in Nat /\ n \in 0..n /\ \A j \in 1..n : out[j] \in Outs /\ out[j].kind = kind
  BY <1>1
<1>3. ASSUME NEW r, NEW a \in Nat, NEW b \in Nat, Holds(r, a, b)
      PROVE  Holds(AddAll(r, out), a + One(kind, n).gp, b + One(kind, n).fp)
  <2>1. r \in Filled
    BY <1>3 DEF Holds
  <2>2. PICK added : added = Added(r, out)
    OBVIOUS
  <2>3. added[0] = r /\ \A j \in 1..n : added[j] = Add(added[j - 1], out[j])
    BY <1>1, <2>1, <2>2, AddedUnfolds
  <2> DEFINE S == {j \in 0..n : Holds(added[j], a + One(kind, j).gp, b + One(kind, j).fp)}
  <2>4. 0 \in S
    BY <1>2, <1>3, <2>3 DEF One
  <2>5. ASSUME NEW j \in 1..n, j - 1 \in S PROVE j \in S
    <3>1. PICK m : m = j - 1
      OBVIOUS
    <3>2. m \in Nat /\ m + 1 = j /\ j \in 0..n
      BY <1>2, <3>1
    <3>3. PICK p, x, y : p = added[m] /\ x = a + One(kind, m).gp /\ y = b + One(kind, m).fp
      OBVIOUS
    <3>4. x \in Nat /\ y \in Nat /\ Holds(p, x, y)
      BY <2>5, <3>1, <3>2, <3>3 DEF One
    <3>5. added[j] = Add(p, out[j]) /\ out[j] \in Outs /\ out[j].kind = kind
      BY <1>2, <2>3, <3>1, <3>3
    <3>6. AddedTo(p, added[j], kind, out[j].word)
      BY <3>4, <3>5, AddOne DEF Holds
    <3>7. /\ kind = "gp" => Holds(added[j], x + 1, y)
          /\ kind = "fp" => Holds(added[j], x, y + 1)
      BY <3>4, <3>6, AddedHolds
    <3>8. /\ kind = "gp" => x + 1 = a + One(kind, j).gp /\ y = b + One(kind, j).fp
          /\ kind = "fp" => x = a + One(kind, j).gp /\ y + 1 = b + One(kind, j).fp
      BY <3>2, <3>3 DEF One
    <3>9. Holds(added[j], a + One(kind, j).gp, b + One(kind, j).fp)
      BY <3>7, <3>8
    <3> QED BY <3>2, <3>9
  <2> HIDE DEF S
  <2>6. \A j \in 0..n : j \in S
    BY <1>2, <2>4, <2>5, UpToN
  <2> QED BY <1>1, <1>2, <2>2, <2>6 DEF S, AddAll
<1>4. One(kind, n) \in Counts
  BY <1>2 DEF One, Counts
<1> QED BY <1>1, <1>3, <1>4 DEF Adds

LEMMA FullFilled ==
  ASSUME NEW words \in Seq(Word), Len(words) <= 8
  PROVE  /\ Full(words) \in Seq(Word) /\ Len(Full(words)) = 8
         /\ \A k \in 1..Len(words) : Full(words)[k] = words[k]
<1>1. PICK n : n = Len(words)
  OBVIOUS
<1>2. n \in Nat /\ n <= 8
  BY <1>1
<1>3. PICK rest : rest = [k \in 1..(8 - n) |-> Unset]
  OBVIOUS
<1>4. 8 - n \in Nat /\ Unset \in Word
  BY <1>2, WordsAreWords
<1>5. rest \in Seq(Word) /\ Len(rest) = 8 - n
  BY <1>3, <1>4
<1>6. PICK full : full = words \o rest
  OBVIOUS
<1>7. /\ full \in Seq(Word) /\ Len(full) = n + (8 - n)
      /\ \A k \in 1..n : full[k] = words[k]
  BY <1>1, <1>2, <1>4, <1>5, <1>6, ConcatProperties
<1>8. n + (8 - n) = 8
  BY <1>2
<1> QED BY <1>1, <1>3, <1>6, <1>7, <1>8 DEF Full

LEMMA ExhaustFilled ==
  ASSUME NEW r \in Filled
  PROVE  LET q == Exhaust(r)
         IN  /\ q \in Filled /\ Gps(q) = 8 /\ Fps(q) = 8
             /\ q.stack = r.stack /\ q.dropped = r.dropped
             /\ \A k \in 1..Gps(r) : q.gp[k] = r.gp[k]
             /\ \A k \in 1..Fps(r) : q.fp[k] = r.fp[k]
<1>1. /\ r.gp \in Seq(Word) /\ Len(r.gp) <= 8 /\ r.fp \in Seq(Word) /\ Len(r.fp) <= 8
      /\ r.stack \in Seq(Word) /\ r.dropped \in SUBSET Word
  BY FilledType DEF Gps, Fps
<1>2. PICK g, f : g = Full(r.gp) /\ f = Full(r.fp)
  OBVIOUS
<1>3. /\ g \in Seq(Word) /\ Len(g) = 8 /\ \A k \in 1..Len(r.gp) : g[k] = r.gp[k]
      /\ f \in Seq(Word) /\ Len(f) = 8 /\ \A k \in 1..Len(r.fp) : f[k] = r.fp[k]
  BY <1>1, <1>2, FullFilled
<1>4. PICK p : p = [r EXCEPT !.gp = g]
  OBVIOUS
<1>9. g \in Seq(Word) /\ Len(g) <= 8 /\ f \in Seq(Word) /\ Len(f) <= 8
  BY <1>3
<1>5. p \in Filled /\ p.gp = g /\ p.fp = r.fp /\ p.stack = r.stack /\ p.dropped = r.dropped
  BY <1>1, <1>4, <1>9, FilledExcept
<1>6. PICK q : q = [p EXCEPT !.fp = f]
  OBVIOUS
<1>7. q \in Filled /\ q.gp = g /\ q.fp = f /\ q.stack = r.stack /\ q.dropped = r.dropped
  BY <1>1, <1>5, <1>6, <1>9, FilledExcept
<1>8. Exhaust(r) = q
  <2>1. Exhaust(r) = [r EXCEPT !.gp = g, !.fp = f]
    BY <1>2 DEF Exhaust
  <2> QED BY <1>4, <1>6, <2>1
<1> QED BY <1>3, <1>7, <1>8 DEF Gps, Fps

LEMMA SpillFilled ==
  ASSUME NEW r \in Filled, NEW i \in Nat, NEW t \in Types
  PROVE  SpillHFA(r, i, t) \in Filled /\ r.dropped \subseteq SpillHFA(r, i, t).dropped
<1>1. PICK n : n = t.size \div 4
  OBVIOUS
<1>2. n \in Nat /\ n \in 0..n
  BY <1>1, LeavesType
<1> DEFINE Next4(q, k) == IF q.dropped # r.dropped THEN q ELSE AddFloat(q, Bytes(i, 4 * (k - 1), 4))
           G == [p \in (1..n) \X Filled |-> Next4(p[2], p[1])]
           R == [k \in 0..n |-> Filled]
           F(f) == f = [k \in 0..n |-> IF k = 0 THEN r
                          ELSE LET q == f[k - 1]
                               IN  IF q.dropped # r.dropped THEN q
                                   ELSE AddFloat(q, Bytes(i, 4 * (k - 1), 4))]
<1>3. ASSUME NEW q \in Filled, NEW k \in 1..n PROVE Next4(q, k) \in Filled
  <2>1. 4 * (k - 1) \in Nat
    BY <1>2
  <2>2. Bytes(i, 4 * (k - 1), 4) \in Word
    BY <2>1, WordsAreWords
  <2> QED BY <2>2, AddFloatAdds DEF AddedTo
<1>4. R \in [0..n -> SUBSET Filled] /\ r \in R[0]
  BY <1>2
<1>5. ASSUME NEW k \in 1..n, NEW q \in R[k - 1] PROVE G[<<k, q>>] \in R[k]
  <2>1. k \in 0..n /\ k - 1 \in 0..n /\ q \in Filled
    BY <1>2, <1>5
  <2>2. G[<<k, q>>] = Next4(q, k)
    BY <2>1
  <2> QED BY <1>3, <2>1, <2>2
<1> HIDE DEF R, G, Next4
<1>6. PICK f \in [0..n -> Filled] : Steps(f, n, r, G)
  BY <1>2, <1>4, <1>5, Iterates
<1>7. \E g : F(g)
  <2>1. ASSUME NEW k \in 1..n PROVE f[k] = Next4(f[k - 1], k)
    <3>1. k - 1 \in 0..n /\ f[k - 1] \in Filled
      BY <1>2, <1>6
    <3>2. f[k] = G[<<k, f[k - 1]>>]
      BY <1>6 DEF Steps
    <3> QED BY <3>1, <3>2 DEF G
  <2>2. f[0] = r
    BY <1>6 DEF Steps
  <2>3. \A k \in 0..n : f[k] = IF k = 0 THEN r ELSE Next4(f[k - 1], k)
    BY <1>2, <2>1, <2>2
  <2>4. F(f)
    BY <1>6, <2>3 DEF Next4
  <2> QED BY <2>4
<1>8. PICK h : h = CHOOSE g : F(g)
  OBVIOUS
<1>9. F(h)
  BY <1>7, <1>8
<1>10. h[0] = r /\ \A k \in 1..n : h[k] = Next4(h[k - 1], k)
  BY <1>2, <1>9 DEF Next4
<1> DEFINE S == {k \in 0..n : h[k] \in Filled}
<1>11. 0 \in S
  BY <1>2, <1>10
<1>12. ASSUME NEW k \in 1..n, k - 1 \in S PROVE k \in S
  <2>1. h[k - 1] \in Filled /\ k \in 0..n
    BY <1>12
  <2>2. h[k] \in Filled
    BY <1>3, <1>10, <2>1
  <2> QED BY <2>1, <2>2
<1> HIDE DEF S
<1>13. \A k \in 0..n : k \in S
  BY <1>2, <1>11, <1>12, UpToN
<1>14. h[n] \in Filled
  BY <1>2, <1>13 DEF S
<1>15. SpillHFA(r, i, t) = IF h[n].dropped = r.dropped THEN h[n]
                           ELSE AddInt([h[n] EXCEPT !.dropped = r.dropped], AddressOf(i))
  BY <1>1, <1>8 DEF SpillHFA
<1>16. PICK e, p : e = [h[n] EXCEPT !.dropped = r.dropped] /\ p = AddInt(e, AddressOf(i))
  OBVIOUS
<1>17. e \in Filled /\ e.dropped = r.dropped
  <2>1. r.dropped \in SUBSET Word /\ r.gp \in Seq(Word)
    BY FilledType
  <2> QED BY <1>14, <1>16, <2>1, FilledDropped
<1>18. AddedTo(e, p, "gp", AddressOf(i))
  BY <1>16, <1>17, WordsAreWords, AddIntAdds
<1>19. p \in Filled /\ r.dropped \subseteq p.dropped
  BY <1>17, <1>18 DEF AddedTo, Stacked
<1> QED BY <1>14, <1>15, <1>16, <1>19

LEMMA PlaceInRegsFilled ==
  ASSUME NEW r \in Filled, NEW i \in Nat, NEW t \in Types
  PROVE  /\ PlaceInRegs(r, i, t) \in Filled
         /\ PlaceInRegs(r, i, t) = LET end == AddAll(r, PlaceStruct(i, t).out)
                                   IN  IF PlaceStruct(i, t).ok THEN end
                                       ELSE AddInt(end, AddressOf(i))
         /\ AddAll(r, PlaceStruct(i, t).out) \in Filled
<1>1. PICK out, end : out = PlaceStruct(i, t).out /\ end = AddAll(r, out)
  OBVIOUS
<1>2. out \in Seq(Outs) /\ Len(out) \in Nat
  BY <1>1, PlaceStructType
<1>3. Len(out) \in 0..Len(out)
  BY <1>2
<1>4. end \in Filled
  BY <1>1, <1>2, <1>3, AddedFilled DEF AddAll
<1>5. AddInt(end, AddressOf(i)) \in Filled
  BY <1>4, WordsAreWords, AddIntAdds DEF AddedTo
<1>6. PlaceInRegs(r, i, t) = IF PlaceStruct(i, t).ok THEN end ELSE AddInt(end, AddressOf(i))
  BY <1>1 DEF PlaceInRegs, AddAll
<1> QED BY <1>1, <1>4, <1>5, <1>6

LEMMA PlaceArgFilled ==
  ASSUME NEW r \in Filled, NEW i \in Nat, NEW t \in Types
  PROVE  /\ PlaceArg(r, i, t) \in Filled
         /\ IF AtBoundary(i) THEN Exhaust(r) \in Filled ELSE TRUE
<1>1. PICK q : q = IF AtBoundary(i) THEN Exhaust(r) ELSE r
  OBVIOUS
<1>2. q \in Filled /\ Exhaust(r) \in Filled
  BY <1>1, ExhaustFilled
<1>3. /\ AddressOf(i) \in Word /\ Bytes(i, 0, t.size) \in Word
  BY LeavesType, WordsAreWords
<1>4. PlaceScalar(q, i, t) \in Filled
  BY <1>2, <1>3, AddIntAdds, AddFloatAdds DEF PlaceScalar, AddedTo
<1>5. PlaceAggregate(q, i, t) \in Filled
  <2>1. PlaceInRegs(q, i, t) \in Filled /\ SpillHFA(q, i, t) \in Filled
    BY <1>2, PlaceInRegsFilled, SpillFilled
  <2>2. AddInt(q, AddressOf(i)) \in Filled
    BY <1>2, <1>3, AddIntAdds DEF AddedTo
  <2> QED BY <2>1, <2>2 DEF PlaceAggregate
<1> QED BY <1>1, <1>2, <1>4, <1>5 DEF PlaceArg

LEMMA ScalarType ==
  ASSUME NEW t \in Types, ~IsStruct(t)
  PROVE  /\ t.size \in Sizes /\ t.align = t.size /\ Eightbytes(t) = 1
         /\ Len(t.leaves) = 1 /\ t.leaves[1] = Leaf(t.kind, 0, t.size)
<1>1. t.leaves = <<Leaf(t.kind, 0, t.size)>> /\ t.align = t.size
  BY TypesAssumption
<1>2. Len(t.leaves) = 1 /\ t.leaves[1] = Leaf(t.kind, 0, t.size)
  BY <1>1
<1>3. t.leaves[1] \in Scalars
  BY <1>2, LeavesType
<1>4. t.size \in Sizes
  BY <1>2, <1>3 DEF Scalars, Leaf
<1>5. Eightbytes(t) = 1
  BY <1>4 DEF Eightbytes, Sizes
<1> QED BY <1>1, <1>2, <1>4, <1>5

\* The cases of Classify.
LEMMA ClassifyType ==
  ASSUME NEW t \in Types
  PROVE  /\ Classify(t) \in Counts
         /\ ~IsStruct(t) => Classify(t) = IF IsFloat(t) THEN One("fp", 1) ELSE One("gp", 1)
         /\ IsHFA(t) => Classify(t) = One("fp", Len(t.leaves))
         /\ IsStruct(t) /\ ~IsHFA(t) =>
              Classify(t) = IF t.size > 16 THEN One("gp", 1) ELSE CountStruct(t)
<1>1. CASE ~IsStruct(t)
  <2>1. Eightbytes(t) = 1 /\ ~IsHFA(t)
    BY <1>1, ScalarType DEF IsHFA
  <2> QED BY <1>1, <2>1 DEF Classify, One, Counts
<1>2. CASE IsStruct(t)
  <2>1. ~IsFloat(t)
    BY <1>2 DEF IsFloat, IsStruct
  <2>2. Len(t.leaves) \in Nat /\ t.size \in Nat /\ CountStruct(t) \in Counts
    <3>1. 1 \in Nat
      OBVIOUS
    <3> QED BY <3>1, LeavesType, CountsWhatIsPlaced
  <2>3. CASE IsHFA(t)
    BY <1>2, <2>1, <2>2, <2>3 DEF Classify, One, Counts
  <2>4. CASE ~IsHFA(t) /\ t.size > 16
    BY <1>2, <2>1, <2>2, <2>4 DEF Classify, One, Counts
  <2>5. CASE ~IsHFA(t) /\ t.size <= 16
    BY <1>2, <2>1, <2>2, <2>5 DEF Classify
  <2> QED BY <2>2, <2>3, <2>4, <2>5
<1> QED BY <1>1, <1>2

\* Of what was counted up to here, c, no more was taken; m values that were counted
\* for FP registers went to GP registers, by address.
Within(c, a, b, m) == b <= c.fp /\ a <= c.gp + m /\ Over(b, 8) + m <= Over(c.fp, 8)
Fitted(r, c) == \E a, b, m \in Nat : Holds(r, a, b) /\ Within(c, a, b, m)

LEMMA FilledHolds ==
  ASSUME NEW r, NEW a \in Nat, NEW b \in Nat, Holds(r, a, b), NEW w \in Word
  PROVE  Holds(AddInt(r, w), a + 1, b) /\ Holds(AddFloat(r, w), a, b + 1)
<1>1. r \in Filled
  BY DEF Holds
<1>2. AddedTo(r, AddInt(r, w), "gp", w) /\ AddedTo(r, AddFloat(r, w), "fp", w)
  BY <1>1, AddIntAdds, AddFloatAdds
<1> QED BY <1>2, AddedHolds

LEMMA AddAllHolds ==
  ASSUME NEW r, NEW a \in Nat, NEW b \in Nat, Holds(r, a, b), NEW out, NEW n, Adds(out, n)
  PROVE  Holds(AddAll(r, out), a + n.gp, b + n.fp) /\ n.gp \in Nat /\ n.fp \in Nat
  BY DEF Adds, Counts

\* A struct with too few registers left, or one too large for them, takes a GP register.
LEMMA AddressFits ==
  ASSUME NEW r, NEW c \in Counts, NEW k \in Counts, NEW a \in Nat, NEW b \in Nat, NEW m \in Nat,
         Holds(r, a, b), Within(c, a, b, m), NEW w \in Word,
         Gps(r) + k.gp > 8 \/ Fps(r) + k.fp > 8 \/ k.gp > 0
  PROVE  Fitted(AddInt(r, w), Sum(c, k))
<1>1. c.gp \in Nat /\ c.fp \in Nat /\ k.gp \in Nat /\ k.fp \in Nat
  BY DEF Counts
<1>2. PICK d : d = Sum(c, k)
  OBVIOUS
<1>3. d.gp = c.gp + k.gp /\ d.fp = c.fp + k.fp
  BY <1>2 DEF Sum
<1>4. b <= c.fp /\ a <= c.gp + m /\ Over(b, 8) + m <= Over(c.fp, 8)
  BY DEF Within
<1>5. PICK g, f : g = Gps(r) /\ f = Fps(r)
  OBVIOUS
<1>6. g = UpTo(a, 8) /\ f = UpTo(b, 8)
  BY <1>5 DEF Holds
<1>7. \E n \in Nat : Within(d, a + 1, b, n)
  <2>1. CASE k.gp > 0
    <3>1. Within(d, a + 1, b, m)
      BY <1>1, <1>3, <1>4, <2>1 DEF Within, Over
    <3> QED BY <3>1
  <2>2. CASE k.gp = 0
    <3>1. f + k.fp > 8
      BY <1>1, <1>5, <1>6, <2>2 DEF UpTo
    <3>2. Within(d, a + 1, b, m + 1)
      BY <1>1, <1>3, <1>4, <1>6, <2>2, <3>1 DEF Within, Over, UpTo
    <3> QED BY <3>2
  <2> QED BY <1>1, <2>1, <2>2
<1>8. PICK n \in Nat : Within(d, a + 1, b, n)
  BY <1>7
<1>9. Holds(AddInt(r, w), a + 1, b) /\ a + 1 \in Nat
  BY FilledHolds
<1> QED BY <1>2, <1>8, <1>9 DEF Fitted

LEMMA RoomFits ==
  ASSUME NEW b \in Nat, NEW c \in Nat, NEW k \in Nat, NEW x \in Nat, NEW m \in Nat,
         Over(b, 8) + m <= Over(c, 8), x <= k, b + k <= 8 \/ k = 0
  PROVE  Over(b + x, 8) + m <= Over(c + k, 8)
<1>1. CASE k = 0
  BY <1>1 DEF Over
<1>2. CASE b + k <= 8
  <2>1. Over(b + x, 8) = 0 /\ Over(b, 8) = 0
    BY <1>2 DEF Over
  <2>2. Over(c, 8) <= Over(c + k, 8) /\ Over(c, 8) \in Nat
    BY DEF Over
  <2>3. Over(c + k, 8) \in Nat
    BY DEF Over
  <2> QED BY <2>1, <2>2, <2>3
<1> QED BY <1>1, <1>2

LEMMA ArgFitted ==
  ASSUME NEW r, NEW c \in Counts, Fitted(r, c), NEW i \in Nat, ~AtBoundary(i), NEW t \in Types,
         IsHFA(t) => c.fp + Len(t.leaves) <= 8
  PROVE  Fitted(PlaceArg(r, i, t), Sum(c, Classify(t)))
<1>1. PICK a \in Nat, b \in Nat, m \in Nat : Holds(r, a, b) /\ Within(c, a, b, m)
  BY DEF Fitted
<1>2. PICK k : k = Classify(t)
  OBVIOUS
<1>3. k \in Counts /\ k.gp \in Nat /\ k.fp \in Nat /\ c.gp \in Nat /\ c.fp \in Nat
  BY <1>2, ClassifyType DEF Counts
<1>4. PICK d : d = Sum(c, k)
  OBVIOUS
<1>5. d.gp = c.gp + k.gp /\ d.fp = c.fp + k.fp
  BY <1>4 DEF Sum
<1>6. b <= c.fp /\ a <= c.gp + m /\ Over(b, 8) + m <= Over(c.fp, 8)
  BY <1>1 DEF Within
<1>7. PICK q : q = PlaceArg(r, i, t)
  OBVIOUS
<1>8. q = IF IsStruct(t) THEN PlaceAggregate(r, i, t) ELSE PlaceScalar(r, i, t)
  BY <1>7 DEF PlaceArg
<1>9. AddressOf(i) \in Word /\ Bytes(i, 0, t.size) \in Word
  BY LeavesType, WordsAreWords
<1>10. r \in Filled /\ Gps(r) = UpTo(a, 8) /\ Fps(r) = UpTo(b, 8)
  BY <1>1 DEF Holds
<1>11. SUFFICES Fitted(q, d)
  BY <1>2, <1>4, <1>7
<1>12. CASE ~IsStruct(t)
  <2>1. CASE IsFloat(t)
    <3>1. k = One("fp", 1)
      BY <1>2, <1>12, <2>1, ClassifyType
    <3>2. q = AddFloat(r, Bytes(i, 0, t.size))
      BY <1>8, <1>12, <2>1 DEF PlaceScalar, IsFloat, Unknown
    <3>3. Holds(q, a, b + 1)
      BY <1>1, <1>9, <3>2, FilledHolds
    <3>4. Within(d, a, b + 1, m)
      <4>1. PICK x, y : x = c.gp /\ y = c.fp
        OBVIOUS
      <4>2. x \in Nat /\ y \in Nat /\ b <= y /\ a <= x + m /\ Over(b, 8) + m <= Over(y, 8)
        BY <1>3, <1>6, <4>1
      <4>3. d.gp = x /\ d.fp = y + 1
        BY <1>3, <1>5, <3>1, <4>1 DEF One
      <4>4. b + 1 <= y + 1 /\ a <= x + m /\ Over(b + 1, 8) + m <= Over(y + 1, 8)
        BY <4>2 DEF Over
      <4> QED BY <4>3, <4>4 DEF Within
    <3> QED BY <3>3, <3>4 DEF Fitted
  <2>2. CASE ~IsFloat(t)
    <3>1. k = One("gp", 1)
      BY <1>2, <1>12, <2>2, ClassifyType
    <3>2. PICK w \in Word : q = AddInt(r, w)
      BY <1>8, <1>9, <1>12, <2>2 DEF PlaceScalar
    <3>3. Holds(q, a + 1, b)
      BY <1>1, <3>2, FilledHolds
    <3>4. Within(d, a + 1, b, m)
      BY <1>3, <1>5, <1>6, <3>1 DEF Within, Over, One
    <3> QED BY <3>3, <3>4 DEF Fitted
  <2> QED BY <2>1, <2>2
<1>13. CASE IsHFA(t)
  <2>1. PICK n : n = Len(t.leaves)
    OBVIOUS
  <2>2. k = One("fp", n) /\ n \in 1..4 /\ c.fp + n <= 8 /\ IsStruct(t)
    BY <1>2, <1>13, <2>1, ClassifyType, HfaType
  <2>3. b + n <= 8 /\ Fps(r) = b
    BY <1>3, <1>6, <1>10, <2>2 DEF UpTo
  <2>4. q = PlaceInRegs(r, i, t)
    BY <1>8, <1>13, <2>1, <2>2, <2>3 DEF PlaceAggregate, Fps
  <2>5. PICK out : out = PlaceStruct(i, t).out
    OBVIOUS
  <2>6. PlaceStruct(i, t).ok /\ Len(out) = n /\ \A j \in 1..n : out[j].kind = "fp"
    <3>1. /\ PlaceStruct(i, t).ok /\ Len(out) = n
          /\ \A j \in 1..n : out[j] = HfaWord(i, t, j)
      BY <1>13, <2>1, <2>5, PlaceFloats
    <3> QED BY <3>1 DEF HfaWord
  <2>7. Adds(out, One("fp", n))
    <3>1. out \in Seq(Outs)
      BY <2>5, PlaceStructType
    <3> QED BY <2>6, <3>1, AddsAlike
  <2>8. q = AddAll(r, out)
    BY <1>10, <2>4, <2>5, <2>6, PlaceInRegsFilled
  <2>9. Holds(q, a, b + n)
    <3>1. Holds(q, a + One("fp", n).gp, b + One("fp", n).fp)
      BY <1>1, <2>7, <2>8, AddAllHolds
    <3>2. a + One("fp", n).gp = a /\ b + One("fp", n).fp = b + n
      BY <2>2 DEF One
    <3> QED BY <3>1, <3>2
  <2>10. Within(d, a, b + n, m) /\ b + n \in Nat
    BY <1>3, <1>5, <1>6, <2>2, <2>3 DEF Within, Over, One
  <2> QED BY <2>9, <2>10 DEF Fitted
<1>14. CASE IsStruct(t) /\ ~IsHFA(t) /\ t.size > 16
  <2>1. k = One("gp", 1) /\ k.gp > 0
    BY <1>2, <1>14, ClassifyType DEF One
  <2>2. q = AddInt(r, AddressOf(i))
    <3>1. ~(t.size <= 16)
      BY <1>14, LeavesType
    <3> QED BY <1>8, <1>14, <3>1 DEF PlaceAggregate
  <2> QED BY <1>1, <1>3, <1>4, <1>9, <2>1, <2>2, AddressFits
<1>15. CASE IsStruct(t) /\ ~IsHFA(t) /\ t.size <= 16
  <2>1. k = CountStruct(t)
    <3>1. ~(t.size > 16)
      BY <1>15, LeavesType
    <3> QED BY <1>2, <1>15, <3>1, ClassifyType
  <2>2. CASE ~(Gps(r) + k.gp <= 8 /\ Fps(r) + k.fp <= 8)
    <3>1. q = AddInt(r, AddressOf(i))
      BY <1>8, <1>15, <2>1, <2>2 DEF PlaceAggregate, Gps, Fps
    <3>2. Gps(r) + k.gp > 8 \/ Fps(r) + k.fp > 8
      BY <1>3, <1>10, <2>2 DEF UpTo
    <3> QED BY <1>1, <1>3, <1>4, <1>9, <3>1, <3>2, AddressFits
  <2>3. CASE Gps(r) + k.gp <= 8 /\ Fps(r) + k.fp <= 8
    <3>1. q = PlaceInRegs(r, i, t)
      BY <1>8, <1>15, <2>1, <2>3 DEF PlaceAggregate, Gps, Fps
    <3>2. PICK out, end : out = PlaceStruct(i, t).out /\ end = AddAll(r, out)
      OBVIOUS
    <3>3. q = IF PlaceStruct(i, t).ok THEN end ELSE AddInt(end, AddressOf(i))
      BY <1>10, <3>1, <3>2, PlaceInRegsFilled
    <3>4. b + k.fp <= 8 \/ k.fp = 0
      BY <1>3, <1>10, <2>3 DEF UpTo
    <3>5. CASE PlaceStruct(i, t).ok
      <4>1. Adds(out, k)
        BY <2>1, <3>2, <3>5, CountsWhatIsPlaced
      <4>2. Holds(q, a + k.gp, b + k.fp)
        BY <1>1, <3>2, <3>3, <3>5, <4>1, AddAllHolds
      <4>3. Within(d, a + k.gp, b + k.fp, m) /\ a + k.gp \in Nat /\ b + k.fp \in Nat
        <5>1. Over(b + k.fp, 8) + m <= Over(c.fp + k.fp, 8)
          <6>1. k.fp <= k.fp
            BY <1>3
          <6> QED BY <1>3, <1>6, <3>4, <6>1, RoomFits
        <5>2. b + k.fp <= c.fp + k.fp /\ a + k.gp <= (c.gp + k.gp) + m
          <6>1. PICK u, v, z, l : u = k.gp /\ v = k.fp /\ z = c.gp /\ l = c.fp
            OBVIOUS
          <6>2. u \in Nat /\ v \in Nat /\ z \in Nat /\ l \in Nat /\ b <= l /\ a <= z + m
            BY <1>3, <1>6, <6>1
          <6>3. b + v <= l + v /\ a + u <= (z + u) + m
            BY <6>2
          <6> QED BY <6>1, <6>3
        <5>3. a + k.gp \in Nat /\ b + k.fp \in Nat
          BY <1>3
        <5> QED BY <1>5, <5>1, <5>2, <5>3 DEF Within
      <4> QED BY <4>2, <4>3 DEF Fitted
    <3>6. CASE ~PlaceStruct(i, t).ok
      <4>1. Short(out, k)
        BY <2>1, <3>2, <3>6, CountsWhatIsPlaced
      <4>2. PICK n \in Counts : Adds(out, n) /\ n.gp + 1 <= k.gp /\ n.fp <= k.fp
        BY <4>1 DEF Short
      <4>3. Holds(end, a + n.gp, b + n.fp) /\ n.gp \in Nat /\ n.fp \in Nat
        BY <1>1, <3>2, <4>2, AddAllHolds
      <4>4. a + n.gp \in Nat /\ b + n.fp \in Nat
        BY <4>3
      <4>5. Holds(q, (a + n.gp) + 1, b + n.fp)
        BY <1>9, <3>3, <3>6, <4>3, <4>4, FilledHolds
      <4>6. Within(d, (a + n.gp) + 1, b + n.fp, m)
        <5>1. Over(b + n.fp, 8) + m <= Over(c.fp + k.fp, 8)
          BY <1>3, <1>6, <3>4, <4>2, <4>3, RoomFits
        <5>2. b + n.fp <= c.fp + k.fp /\ (a + n.gp) + 1 <= (c.gp + k.gp) + m
          <6>1. PICK x, y, u, v, z, l :
                  x = n.gp /\ y = n.fp /\ u = k.gp /\ v = k.fp /\ z = c.gp /\ l = c.fp
            OBVIOUS
          <6>2. /\ x \in Nat /\ y \in Nat /\ u \in Nat /\ v \in Nat /\ z \in Nat /\ l \in Nat
                /\ x + 1 <= u /\ y <= v /\ b <= l /\ a <= z + m
            BY <1>3, <1>6, <4>2, <4>3, <6>1
          <6>3. b + y <= l + v /\ (a + x) + 1 <= (z + u) + m
            BY <6>2
          <6> QED BY <6>1, <6>3
        <5> QED BY <1>5, <5>1, <5>2 DEF Within
      <4>7. (a + n.gp) + 1 \in Nat
        BY <4>4
      <4> QED BY <4>4, <4>5, <4>6, <4>7 DEF Fitted
    <3> QED BY <3>5, <3>6
  <2> QED BY <2>2, <2>3
<1> QED
  <2>1. IsStruct(t) => t.size > 16 \/ t.size <= 16
    BY LeavesType
  <2> QED BY <1>12, <1>13, <1>14, <1>15, <2>1
--------------------------------------------------------------------------------
(* Types of the state.                                                      *)

Interface == [args : Seq(Types), ret : Types, fixed : Nat, given : Nat]
Load == [gp |-> regs.gp, fp |-> regs.fp, stack |-> regs.stack, dropped |-> dropped]
TypeInv == /\ TypeOK
           /\ sig \in Interface /\ cbType = sig
           /\ cb # "idle" => Len(frame.gp) = 8 /\ Len(frame.fp) = 8

LEMMA InterfaceType ==
  ASSUME NEW s \in Interface
  PROVE  /\ s.args \in Seq(Types) /\ s.ret \in Types /\ s.fixed \in Nat /\ s.given \in Nat
         /\ Len(s.args) \in Nat /\ DOMAIN s.args = 1..Len(s.args)
         /\ \A i \in 1..Len(s.args) : s.args[i] \in Types
<1>1. s.args \in Seq(Types) /\ s.ret \in Types /\ s.fixed \in Nat /\ s.given \in Nat
  BY DEF Interface
<1>2. PICK a : a = s.args
  OBVIOUS
<1>3. a \in Seq(Types)
  BY <1>1, <1>2
<1>4. Len(a) \in Nat /\ DOMAIN a = 1..Len(a) /\ \A i \in 1..Len(a) : a[i] \in Types
  BY <1>3
<1> QED BY <1>1, <1>2, <1>4

LEMMA LoadType ==
  ASSUME TypeInv
  PROVE  /\ Load \in Filled /\ Load.gp = regs.gp /\ Load.fp = regs.fp
         /\ Load.stack = regs.stack /\ Load.dropped = dropped
<1>1. /\ regs \in [gp : Seq(Word), fp : Seq(Word), stack : Seq(Word), x8 : Word]
      /\ Len(regs.gp) <= 8 /\ Len(regs.fp) <= 8 /\ Len(regs.stack) <= 7
      /\ dropped \in SUBSET Word
  BY DEF TypeInv, TypeOK, CallTypeOK
<1>2. Load \in Loads
  BY <1>1 DEF Load, Loads
<1>3. Load.gp = regs.gp /\ Load.fp = regs.fp /\ Load.stack = regs.stack /\ Load.dropped = dropped
  BY DEF Load
<1>4. Gps(Load) <= 8 /\ Fps(Load) <= 8 /\ Slots(Load) <= 7
  BY <1>1, <1>3 DEF Gps, Fps, Slots
<1> QED BY <1>2, <1>3, <1>4 DEF Filled

LEMMA FilledRegs ==
  ASSUME NEW r \in Filled, NEW x \in Word
  PROVE  /\ [gp |-> r.gp, fp |-> r.fp, stack |-> r.stack, x8 |-> x]
              \in [gp : Seq(Word), fp : Seq(Word), stack : Seq(Word), x8 : Word]
         /\ Len(r.gp) <= 8 /\ Len(r.fp) <= 8 /\ Len(r.stack) <= 7 /\ r.dropped \in SUBSET Word
<1>1. /\ r.gp \in Seq(Word) /\ r.fp \in Seq(Word) /\ r.stack \in Seq(Word)
      /\ r.dropped \in SUBSET Word
  BY FilledType
<1>2. Gps(r) <= 8 /\ Fps(r) <= 8 /\ Slots(r) <= 7
  BY DEF Filled
<1> QED BY <1>1, <1>2 DEF Gps, Fps, Slots

\* Words C finds.
LEMMA AtType ==
  ASSUME TypeInv, NEW kind \in {"gp", "fp", "stack"}, NEW n \in Nat
  PROVE  At(<<kind, n>>) \in Word
<1>1. regs[kind] \in Seq(Word)
  BY DEF TypeInv, TypeOK, CallTypeOK
<1>2. Unset \in Word
  BY WordsAreWords
<1>3. \A k \in DOMAIN regs[kind] : regs[kind][k] \in Word
  BY <1>1
<1>4. <<kind, n>>[1] # "x8" /\ <<kind, n>>[1] = kind
  OBVIOUS
<1>5. At(<<kind, n>>) = Unset \/ \E k \in DOMAIN regs[kind] : At(<<kind, n>>) = regs[kind][k]
  BY <1>4 DEF At
<1> QED BY <1>2, <1>3, <1>5

LEMMA PartsAreWords ==
  ASSUME NEW i \in Nat, NEW t \in Types
  PROVE  \A j \in DOMAIN Parts(i, t) : Parts(i, t)[j] \in Word
<1>1. CASE ByReference(t)
  <2>1. PICK w : w = AddressOf(i)
    OBVIOUS
  <2>2. w \in Word
    BY <2>1, WordsAreWords
  <2>3. PICK parts : parts = Parts(i, t)
    OBVIOUS
  <2>4. parts = <<w>>
    BY <1>1, <2>1, <2>3 DEF Parts, ByReference
  <2>5. DOMAIN parts = 1..1 /\ parts[1] = w
    BY <2>4
  <2>6. \A j \in DOMAIN parts : j = 1
    BY <2>5
  <2> QED BY <2>2, <2>3, <2>5, <2>6
<1>2. CASE ~ByReference(t) /\ Hfa(t)
  <2>1. \A j \in DOMAIN t.leaves : t.leaves[j].off \in Nat /\ t.leaves[j].size \in Nat
    <3>1. DOMAIN t.leaves = 1..Len(t.leaves) /\ \A j \in 1..Len(t.leaves) : t.leaves[j] \in Scalars
      BY LeavesType
    <3>2. \A j \in DOMAIN t.leaves : t.leaves[j] \in Scalars
      BY <3>1
    <3> QED BY <3>2 DEF Scalars, Sizes
  <2> QED BY <1>2, <2>1, WordsAreWords DEF Parts
<1>3. CASE ~ByReference(t) /\ ~Hfa(t)
  <2>1. Parts(i, t) = [j \in 1..Eightbytes(t) |-> Bytes(i, 8 * (j - 1), Left(t, j - 1))]
    BY <1>3 DEF Parts
  <2>2. t.size \in Nat
    BY LeavesType
  <2>3. ASSUME NEW j \in 1..Eightbytes(t) PROVE 8 * (j - 1) \in Nat /\ Left(t, j - 1) \in Nat
    <3>1. PICK z : z = t.size
      OBVIOUS
    <3>2. z \in Nat /\ j \in 1..((z + 7) \div 8)
      BY <2>2, <2>3, <3>1 DEF Eightbytes
    <3>3. 8 * (j - 1) < z
      BY <3>2
    <3> QED BY <3>1, <3>2, <3>3 DEF Left
  <2> QED BY <2>1, <2>3, WordsAreWords
<1> QED BY <1>1, <1>2, <1>3

LEMMA ReturnedType == ASSUME NEW t \in Types, NEW r PROVE Returned(t, r) \in Word
<1>1. Unset \in Word
  BY WordsAreWords
<1>2. PICK parts : parts = Parts(0, t)
  OBVIOUS
<1>3. \A j \in DOMAIN parts : parts[j] \in Word
  BY <1>2, PartsAreWords
<1>4. PICK names : names = IF RegKind(t) = "fp" THEN <<"d0", "d1", "d2", "d3">> ELSE <<"x0", "x1">>
  OBVIOUS
<1>5. PICK here : here = {j \in DOMAIN parts : names[j] = r}
  OBVIOUS
<1>6. Returned(t, r) = IF t.kind = "void" \/ ByReference(t) \/ here = {} THEN Unset
                       ELSE parts[CHOOSE j \in here : TRUE]
  BY <1>2, <1>4, <1>5 DEF Returned
<1>7. here # {} => parts[CHOOSE j \in here : TRUE] \in Word
  <2>1. \A j \in here : parts[j] \in Word
    BY <1>3, <1>5
  <2> QED BY <2>1
<1> QED BY <1>1, <1>6, <1>7

LEMMA HandleReturnType ==
  ASSUME ret \in [RetRegs -> Word], NEW t \in Types
  PROVE  HandleReturn(t) \subseteq [off : Nat, n : Nat, word : Word]
<1> DEFINE W == [off : Nat, n : Nat, word : Word]
<1>1. \A r \in RetRegs : ret[r] \in Word
  OBVIOUS
<1>2. \A r \in RetRegs : \A off, n \in Nat : Write(off, n, ret[r]) \in W
  BY <1>1 DEF Write
<1>3. t.size \in Nat
  BY LeavesType
<1>4. "x0" \in RetRegs /\ "x1" \in RetRegs /\ "d0" \in RetRegs
  BY DEF RetRegs
<1>5. IsHFA(t) => HandleHFAReturn(t) \subseteq W
  <2> SUFFICES ASSUME IsHFA(t) PROVE HandleHFAReturn(t) \subseteq W
    OBVIOUS
  <2>1. Len(t.leaves) \in 1..4 /\ DOMAIN t.leaves = 1..Len(t.leaves)
    BY HfaType, LeavesType
  <2>2. \A k \in DOMAIN t.leaves : k \in 1..4
    <3>1. PICK n : n = Len(t.leaves)
      OBVIOUS
    <3>2. n \in 1..4 /\ DOMAIN t.leaves = 1..n
      BY <2>1, <3>1
    <3>3. \A k \in 1..n : k \in 1..4
      BY <3>2
    <3> QED BY <3>2, <3>3
  <2>3. \A k \in 1..4 : FloatReg(k) \in RetRegs
    BY DEF FloatReg, RetRegs
  <2>4. t.leaves[1].size \in Nat
    BY <2>1, LeavesType DEF Scalars, Sizes
  <2>5. ASSUME NEW k \in DOMAIN t.leaves
        PROVE  Write(t.leaves[1].size * (k - 1), t.leaves[1].size, ret[FloatReg(k)]) \in W
    <3>1. k - 1 \in Nat
      BY <2>2
    <3>2. t.leaves[1].size * (k - 1) \in Nat
      BY <2>4, <3>1
    <3> QED BY <1>2, <2>2, <2>3, <2>4, <3>2
  <2>6. HandleHFAReturn(t) \subseteq W
    BY <2>5 DEF HandleHFAReturn
  <2> QED BY <2>6
<1>6. \/ HandleReturn(t) = {}
      \/ IsHFA(t) /\ HandleReturn(t) = HandleHFAReturn(t)
      \/ HandleReturn(t) = {Write(0, t.size, ret["d0"])}
      \/ HandleReturn(t) = {Write(0, 8, ret["x0"])}
      \/ t.size \in 9..16
           /\ HandleReturn(t) = {Write(0, 8, ret["x0"]), Write(8, t.size - 8, ret["x1"])}
      \/ HandleReturn(t) = {Write(0, t.size, ret["x0"])}
  BY DEF HandleReturn
<1>7. /\ Write(0, t.size, ret["d0"]) \in W /\ Write(0, 8, ret["x0"]) \in W
      /\ Write(0, t.size, ret["x0"]) \in W
      /\ t.size \in 9..16 => Write(8, t.size - 8, ret["x1"]) \in W
  <2>1. t.size \in 9..16 => t.size - 8 \in Nat
    BY <1>3
  <2>2. 0 \in Nat /\ 8 \in Nat
    OBVIOUS
  <2> QED BY <1>2, <1>3, <1>4, <2>1, <2>2
<1> HIDE DEF W
<1>8. HandleReturn(t) \subseteq W
  BY <1>5, <1>6, <1>7
<1> QED BY <1>8 DEF W
--------------------------------------------------------------------------------
(* What the ABI uses before each argument.                                  *)

\* The same from 1 on.
StepsFromOne(f, n, a, G) == f[1] = a /\ \A j \in 1..n : f[j + 1] = G[<<j, f[j]>>]
LEMMA IteratesFromOne ==
  ASSUME NEW n \in Nat, NEW S, NEW a \in S, NEW G,
         \A j \in 1..n : \A s \in S : G[<<j, s>>] \in S
  PROVE  \E f \in [1..(n + 1) -> S] : StepsFromOne(f, n, a, G)
<1>1. PICK R : R = [j \in 0..n |-> S]
  OBVIOUS
<1>2. R \in [0..n -> SUBSET S] /\ a \in R[0]
  BY <1>1
<1>3. ASSUME NEW j \in 1..n, NEW s \in R[j - 1] PROVE G[<<j, s>>] \in R[j]
  BY <1>1, <1>3
<1>4. PICK f \in [0..n -> S] : Steps(f, n, a, G)
  BY <1>2, <1>3, Iterates
<1>5. PICK h : h = [j \in 1..(n + 1) |-> f[j - 1]]
  OBVIOUS
<1>6. h \in [1..(n + 1) -> S]
  BY <1>4, <1>5
<1>7. h[1] = a
  BY <1>4, <1>5 DEF Steps
<1>8. ASSUME NEW j \in 1..n PROVE h[j + 1] = G[<<j, h[j]>>]
  <2>1. f[j] = G[<<j, f[j - 1]>>]
    BY <1>4 DEF Steps
  <2>2. h[j + 1] = f[j] /\ h[j] = f[j - 1]
    BY <1>5
  <2> QED BY <2>1, <2>2
<1> QED BY <1>6, <1>7, <1>8 DEF StepsFromOne

UsedStates == [gp : 0..8, fp : 0..8, stack : Nat]
UseNext(o, s, i, u) ==
  LET t == s.args[i]
  IN  IF Fits(o, s, i, u) THEN [u EXCEPT ![RegKind(t)] = @ + RegNeed(t)]
      ELSE [u EXCEPT ![RegKind(t)] = IF OnStack(o, s, i) THEN @ ELSE 8,
                     !.stack = StackStart(o, s, i, u) + StackSize(o, s, i)]

LEMMA NeedType ==
  ASSUME NEW t \in Types
  PROVE  /\ RegKind(t) \in {"gp", "fp"} /\ RegNeed(t) \in Nat
         /\ ByReference(t) => RegKind(t) = "gp" /\ RegNeed(t) = 1 /\ IsStruct(t) /\ ~Hfa(t)
         /\ Hfa(t) => RegKind(t) = "fp" /\ RegNeed(t) = Len(t.leaves) /\ IsStruct(t)
         /\ ~ByReference(t) /\ ~Hfa(t) => RegNeed(t) = Eightbytes(t)
         /\ ~Hfa(t) => RegKind(t) = IF IsFloat(t) THEN "fp" ELSE "gp"
<1>1. t.size \in Nat /\ Len(t.leaves) \in Nat
  BY LeavesType
<1>2. Eightbytes(t) \in Nat
  BY <1>1 DEF Eightbytes
<1>3. IsStruct(t) => ~IsFloat(t)
  BY DEF IsStruct, IsFloat
<1>4. Hfa(t) => IsStruct(t)
  BY DEF Hfa
<1> QED BY <1>1, <1>2, <1>3, <1>4 DEF RegKind, RegNeed, ByReference

LEMMA StackType ==
  ASSUME NEW o, NEW s \in Interface, NEW i \in 1..Len(s.args), NEW u \in UsedStates
  PROVE  /\ StackAlign(o, s, i) \in Sizes /\ StackSize(o, s, i) \in Nat \ {0}
         /\ StackStart(o, s, i, u) \in Nat /\ StackStart(o, s, i, u) >= u.stack
         /\ u.stack \in Nat
<1>1. PICK t : t = s.args[i]
  OBVIOUS
<1>2. t \in Types /\ t.size \in Nat \ {0}
  BY <1>1, InterfaceType, LeavesType
<1>3. StackAlign(o, s, i) \in Sizes
  <2>1. StackAlign(o, s, i) = 8 \/ (~IsStruct(t) /\ StackAlign(o, s, i) = t.align)
    BY <1>1 DEF StackAlign
  <2>2. ~IsStruct(t) => t.align \in Sizes
    BY <1>2, ScalarType
  <2> QED BY <2>1, <2>2 DEF Sizes
<1>4. AlignUp(t.size, StackAlign(o, s, i)) \in Nat \ {0}
  BY <1>2, <1>3, AlignUpFacts
<1>5. u.stack \in Nat
  BY DEF UsedStates
<1> QED BY <1>1, <1>3, <1>4, <1>5, AlignUpFacts DEF StackSize, StackStart

LEMMA UseNextType ==
  ASSUME NEW o, NEW s \in Interface, NEW i \in 1..Len(s.args), NEW u \in UsedStates
  PROVE  LET t == s.args[i]
             v == UseNext(o, s, i, u)
         IN  /\ v \in UsedStates /\ t \in Types
             /\ Fits(o, s, i, u) =>
                  /\ v[RegKind(t)] = u[RegKind(t)] + RegNeed(t) /\ v[RegKind(t)] <= 8
                  /\ v.stack = u.stack
             /\ ~Fits(o, s, i, u) =>
                  /\ v[RegKind(t)] = IF OnStack(o, s, i) THEN u[RegKind(t)] ELSE 8
                  /\ v.stack = StackStart(o, s, i, u) + StackSize(o, s, i)
             /\ \A kind \in {"gp", "fp"} : kind # RegKind(t) => v[kind] = u[kind]
             /\ \A kind \in {"gp", "fp"} : v[kind] >= u[kind]
<1>1. PICK t, v, k : t = s.args[i] /\ v = UseNext(o, s, i, u) /\ k = RegKind(t)
  OBVIOUS
<1>2. t \in Types /\ k \in {"gp", "fp"} /\ RegNeed(t) \in Nat
  BY <1>1, InterfaceType, NeedType
<1>3. u.gp \in 0..8 /\ u.fp \in 0..8 /\ u.stack \in Nat
  BY DEF UsedStates
<1>4. CASE Fits(o, s, i, u)
  <2>1. u[k] + RegNeed(t) <= 8
    BY <1>1, <1>4 DEF Fits
  <2>2. v = [u EXCEPT ![k] = @ + RegNeed(t)]
    BY <1>1, <1>4 DEF UseNext
  <2>3. PICK m : m = u[k] + RegNeed(t)
    OBVIOUS
  <2>4. m \in 0..8 /\ m >= u[k]
    <3>1. PICK x, y : x = u[k] /\ y = RegNeed(t)
      OBVIOUS
    <3>2. x \in 0..8 /\ y \in Nat
      BY <1>2, <1>3, <3>1
    <3>3. x + y <= 8 /\ m = x + y
      BY <2>1, <2>3, <3>1
    <3>4. \A a \in 0..8, b \in Nat : a + b <= 8 => a + b \in 0..8 /\ a + b >= a
      OBVIOUS
    <3>5. m \in 0..8 /\ m >= x
      BY <3>2, <3>3, <3>4, Zenon
    <3> QED BY <3>1, <3>5
  <2>5. v = [u EXCEPT ![k] = m]
    BY <2>2, <2>3
  <2>6. v \in UsedStates /\ v[k] = m /\ v.stack = u.stack
        /\ \A kind \in {"gp", "fp"} : kind # k => v[kind] = u[kind]
    BY <1>2, <2>4, <2>5 DEF UsedStates
  <2>7. \A kind \in {"gp", "fp"} : v[kind] >= u[kind]
    BY <1>3, <2>4, <2>6
  <2> QED BY <1>1, <1>2, <1>4, <2>1, <2>3, <2>6, <2>7
<1>5. CASE ~Fits(o, s, i, u)
  <2>1. PICK m, z : /\ m = IF OnStack(o, s, i) THEN u[k] ELSE 8
                    /\ z = StackStart(o, s, i, u) + StackSize(o, s, i)
    OBVIOUS
  <2>2. v = [u EXCEPT ![k] = m, !.stack = z]
    BY <1>1, <1>5, <2>1 DEF UseNext
  <2>3. z \in Nat
    BY <2>1, StackType
  <2>4. m \in 0..8 /\ m >= u[k]
    BY <1>2, <1>3, <2>1
  <2>5. v \in UsedStates /\ v[k] = m /\ v.stack = z
        /\ \A kind \in {"gp", "fp"} : kind # k => v[kind] = u[kind]
    BY <1>2, <2>2, <2>3, <2>4 DEF UsedStates
  <2>6. \A kind \in {"gp", "fp"} : v[kind] >= u[kind]
    BY <1>3, <2>4, <2>5
  <2> QED BY <1>1, <1>2, <1>5, <2>1, <2>5, <2>6
<1> QED BY <1>4, <1>5

NoneUsed == [gp |-> 0, fp |-> 0, stack |-> 0]
LEMMA UsedUnfolds ==
  ASSUME NEW o, NEW s \in Interface
  PROVE  /\ Used(o, s)[1] = NoneUsed
         /\ \A j \in 1..(Len(s.args) + 1) : Used(o, s)[j] \in UsedStates
         /\ \A j \in 1..Len(s.args) : Used(o, s)[j + 1] = UseNext(o, s, j, Used(o, s)[j])
<1>1. PICK n : n = Len(s.args)
  OBVIOUS
<1>2. n \in Nat
  BY <1>1, InterfaceType
<1> DEFINE G == [p \in (1..n) \X UsedStates |-> UseNext(o, s, p[1], p[2])]
           F(f) == f = [j \in 1..(n + 1) |-> IF j = 1 THEN NoneUsed ELSE UseNext(o, s, j - 1, f[j - 1])]
<1>3. NoneUsed \in UsedStates
  BY DEF NoneUsed, UsedStates
<1>4. \A j \in 1..n : \A u \in UsedStates : G[<<j, u>>] \in UsedStates
  BY <1>1, UseNextType
<1>5. \A j \in 1..n : \A u \in UsedStates : G[<<j, u>>] = UseNext(o, s, j, u)
  OBVIOUS
<1> HIDE DEF G
<1>6. PICK f \in [1..(n + 1) -> UsedStates] : StepsFromOne(f, n, NoneUsed, G)
  BY <1>2, <1>3, <1>4, IteratesFromOne
<1>7. F(f)
  <2>1. ASSUME NEW j \in 1..(n + 1)
        PROVE  f[j] = IF j = 1 THEN NoneUsed ELSE UseNext(o, s, j - 1, f[j - 1])
    <3>1. CASE j = 1
      BY <1>6, <3>1 DEF StepsFromOne
    <3>2. CASE j # 1
      <4>1. j - 1 \in 1..n /\ (j - 1) + 1 = j /\ j - 1 \in 1..(n + 1)
        BY <1>2, <3>2
      <4>2. f[j] = G[<<j - 1, f[j - 1]>>] /\ f[j - 1] \in UsedStates
        BY <1>6, <4>1 DEF StepsFromOne
      <4> QED BY <1>5, <3>2, <4>1, <4>2
    <3> QED BY <3>1, <3>2
  <2> QED BY <1>6, <2>1
<1>8. Used(o, s) = CHOOSE f2 : F(f2)
  BY <1>1 DEF Used, UseNext, NoneUsed
<1> HIDE DEF F
<1>9. F(Used(o, s))
  BY <1>7, <1>8
<1>10. PICK h : h = Used(o, s)
  OBVIOUS
<1>11. h = [j \in 1..(n + 1) |-> IF j = 1 THEN NoneUsed ELSE UseNext(o, s, j - 1, h[j - 1])]
  BY <1>9, <1>10 DEF F
<1>12. h[1] = NoneUsed
  BY <1>2, <1>11
<1>13. ASSUME NEW j \in 1..n PROVE h[j + 1] = UseNext(o, s, j, h[j])
  <2>1. j + 1 \in 1..(n + 1) /\ j + 1 # 1 /\ (j + 1) - 1 = j
    BY <1>2
  <2> QED BY <1>11, <2>1
<1> DEFINE S == {j \in 0..n : h[j + 1] \in UsedStates}
<1>14. 0 \in S
  BY <1>2, <1>3, <1>12
<1>15. ASSUME NEW j \in 1..n, j - 1 \in S PROVE j \in S
  <2>1. h[j] \in UsedStates /\ j \in 0..n
    BY <1>2, <1>15
  <2>2. h[j + 1] \in UsedStates
    BY <1>1, <1>13, <2>1, UseNextType
  <2> QED BY <2>1, <2>2
<1> HIDE DEF S
<1>16. \A j \in 0..n : j \in S
  BY <1>2, <1>14, <1>15, UpToN
<1>17. ASSUME NEW j \in 1..(n + 1) PROVE h[j] \in UsedStates
  <2>1. j - 1 \in 0..n /\ (j - 1) + 1 = j
    BY <1>2
  <2>2. j - 1 \in S
    BY <1>16, <2>1
  <2> QED BY <2>1, <2>2 DEF S
<1> QED BY <1>1, <1>10, <1>12, <1>13, <1>17
--------------------------------------------------------------------------------
(* Type correctness.                                                        *)

LEMMA AbiFrameType ==
  ASSUME NEW s \in Interface
  PROVE  LET f == AbiFrame(s)
         IN  /\ f \in [gp : Seq(Word), fp : Seq(Word), stack : Seq(Word)]
             /\ Len(f.gp) = 8 /\ Len(f.fp) = 8
<1>1. PICK parts : parts = UNION {{Placed(os, s, i)[j] : j \in DOMAIN Placed(os, s, i)} : i \in DOMAIN s.args}
  OBVIOUS
<1>2. ASSUME NEW p \in parts PROVE p.word \in Word
  <2>1. PICK i \in DOMAIN s.args : \E j \in DOMAIN Placed(os, s, i) : p = Placed(os, s, i)[j]
    BY <1>1
  <2>2. PICK j \in DOMAIN Placed(os, s, i) : p = Placed(os, s, i)[j]
    BY <2>1
  <2>3. s.args[i] \in Types /\ i \in Nat
    BY InterfaceType
  <2>4. PICK ps : ps = Parts(i, s.args[i])
    OBVIOUS
  <2>5. \A k \in DOMAIN ps : ps[k] \in Word
    BY <2>3, <2>4, PartsAreWords
  <2>6. j \in DOMAIN ps /\ Placed(os, s, i)[j].word = ps[j]
    BY <2>4 DEF Placed
  <2> QED BY <2>2, <2>5, <2>6
<1> DEFINE held(at) == LET here == {p \in parts : p.at = at}
                       IN  IF here = {} THEN Unset ELSE (CHOOSE p \in here : TRUE).word
<1>3. ASSUME NEW at PROVE held(at) \in Word
  <2>1. PICK here : here = {p \in parts : p.at = at}
    OBVIOUS
  <2>2. here # {} => (CHOOSE p \in here : TRUE) \in parts
    BY <2>1
  <2>3. held(at) = IF here = {} THEN Unset ELSE (CHOOSE p \in here : TRUE).word
    BY <2>1
  <2> QED BY <1>2, <2>2, <2>3, WordsAreWords
<1>4. PICK slots : slots = (Used(os, s)[Len(s.args) + 1].stack + 7) \div 8
  OBVIOUS
<1>5. slots \in Nat
  <2>1. Len(s.args) \in Nat
    BY InterfaceType
  <2>2. Len(s.args) + 1 \in 1..(Len(s.args) + 1)
    BY <2>1
  <2>3. Used(os, s)[Len(s.args) + 1] \in UsedStates
    BY <2>2, UsedUnfolds
  <2> QED BY <1>4, <2>3 DEF UsedStates
<1>6. AbiFrame(s) = [gp |-> [j \in 1..8 |-> held(Nth("gp", j))],
                     fp |-> [j \in 1..8 |-> held(Nth("fp", j))],
                     stack |-> [j \in 1..slots |-> held(Nth("stack", j))]]
  BY <1>1, <1>4 DEF AbiFrame
<1> HIDE DEF held
<1>7. PICK g, f, k : /\ g = [j \in 1..8 |-> held(Nth("gp", j))]
                     /\ f = [j \in 1..8 |-> held(Nth("fp", j))]
                     /\ k = [j \in 1..slots |-> held(Nth("stack", j))]
  OBVIOUS
<1>8. g \in Seq(Word) /\ Len(g) = 8
  BY <1>3, <1>7
<1>9. f \in Seq(Word) /\ Len(f) = 8
  BY <1>3, <1>7
<1>10. k \in Seq(Word)
  BY <1>3, <1>5, <1>7
<1> QED BY <1>6, <1>7, <1>8, <1>9, <1>10

LEMMA PassedFrameType ==
  ASSUME TypeInv
  PROVE  LET f == [gp |-> [j \in 1..8 |-> At(Nth("gp", j))],
                   fp |-> [j \in 1..8 |-> At(Nth("fp", j))],
                   stack |-> [j \in 1..7 |-> At(Nth("stack", j))]]
         IN  /\ f \in [gp : Seq(Word), fp : Seq(Word), stack : Seq(Word)]
             /\ Len(f.gp) = 8 /\ Len(f.fp) = 8
<1>1. ASSUME NEW kind \in {"gp", "fp", "stack"}, NEW j \in 1..8 PROVE At(Nth(kind, j)) \in Word
  <2>1. 8 * (j - 1) \in Nat /\ j \in Nat
    OBVIOUS
  <2> QED BY <2>1, AtType DEF Nth
<1>2. PICK g, f, k : /\ g = [j \in 1..8 |-> At(Nth("gp", j))]
                     /\ f = [j \in 1..8 |-> At(Nth("fp", j))]
                     /\ k = [j \in 1..7 |-> At(Nth("stack", j))]
  OBVIOUS
<1>3. g \in Seq(Word) /\ Len(g) = 8
  BY <1>1, <1>2
<1>4. f \in Seq(Word) /\ Len(f) = 8
  BY <1>1, <1>2
<1>5. k \in Seq(Word)
  BY <1>1, <1>2
<1> QED BY <1>2, <1>3, <1>4, <1>5

LEMMA HereType ==
  ASSUME TypeInv, cb # "idle", NEW kind \in {"gp", "fp"}
  PROVE  Here(kind) \in Word /\ Advance(kind) \in [gp : 0..8, fp : 0..8, stack : Nat]
<1>1. /\ frame.gp \in Seq(Word) /\ frame.fp \in Seq(Word) /\ frame.stack \in Seq(Word)
      /\ Len(frame.gp) = 8 /\ Len(frame.fp) = 8
      /\ pos \in [gp : 0..8, fp : 0..8, stack : Nat]
  BY DEF TypeInv, TypeOK, CbTypeOK
<1>2. PICK f : f = frame[kind]
  OBVIOUS
<1>3. f \in Seq(Word) /\ Len(f) = 8
  BY <1>1, <1>2
<1>4. PICK m : m = pos[kind]
  OBVIOUS
<1>5. m \in 0..8
  BY <1>1, <1>4
<1>6. m < 8 => m + 1 \in 1..8
  BY <1>5
<1>7. m < 8 => f[m + 1] \in Word
  <2>1. \A k \in 1..Len(f) : f[k] \in Word
    BY <1>3, ElementOfSeq
  <2> QED BY <1>3, <1>6, <2>1
<1>8. \A k \in DOMAIN frame.stack : frame.stack[k] \in Word
  BY <1>1
<1>9. Here(kind) \in Word
  BY <1>2, <1>4, <1>7, <1>8, WordsAreWords DEF Here
<1>10. Advance(kind) \in [gp : 0..8, fp : 0..8, stack : Nat]
  <2>1. CASE m < 8
    <3>1. Advance(kind) = [pos EXCEPT ![kind] = m + 1]
      BY <1>4, <2>1 DEF Advance
    <3>2. m + 1 \in 0..8
      BY <1>5, <2>1
    <3> QED BY <1>1, <3>1, <3>2
  <2>2. CASE ~(m < 8)
    <3>1. PICK z : z = pos.stack + 1
      OBVIOUS
    <3>2. Advance(kind) = [pos EXCEPT !["stack"] = z]
      BY <1>4, <2>2, <3>1 DEF Advance
    <3>3. z \in Nat
      BY <1>1, <3>1
    <3> QED BY <1>1, <3>2, <3>3
  <2> QED BY <2>1, <2>2
<1> QED BY <1>9, <1>10

LEMMA CallKept ==
  ASSUME TypeInv, CallTypeOK', UNCHANGED <<sig, callee, cbVars>>
  PROVE  TypeInv'
  BY DEF TypeInv, TypeOK, CbTypeOK, cbVars

LEMMA CbKept ==
  ASSUME TypeInv, CbTypeOK', UNCHANGED <<callVars, callee, cbType>>,
         cb' # "idle" => Len(frame'.gp) = 8 /\ Len(frame'.fp) = 8
  PROVE  TypeInv'
  BY DEF TypeInv, TypeOK, CallTypeOK, callVars

LEMMA DispatchKept ==
  ASSUME TypeInv, UNCHANGED <<callVars, callee>>, NEW f, Dispatch(sig, f),
         f \in [gp : Seq(Word), fp : Seq(Word), stack : Seq(Word)], Len(f.gp) = 8, Len(f.fp) = 8
  PROVE  TypeInv'
<1>1. cb' = "read" /\ cbType' = sig /\ frame' = f /\ pos' = pos /\ got' = got
  BY DEF Dispatch
<1>2. CbTypeOK'
  BY <1>1 DEF TypeInv, TypeOK, CbTypeOK
<1>3. cbType' = cbType
  BY <1>1 DEF TypeInv
<1> QED BY <1>1, <1>2, <1>3, CbKept

LEMMA ExecuteTyped ==
  ASSUME TypeInv, Execute
  PROVE  /\ Load \in Filled /\ next \in 1..Len(sig.args) /\ sig.args[next] \in Types
         /\ LET r == PlaceArg(Load, next, sig.args[next])
            IN  r \in Filled /\ regs' = [gp |-> r.gp, fp |-> r.fp, stack |-> r.stack, x8 |-> regs.x8]
                  /\ dropped' = r.dropped /\ Load' = r
<1>1. next \in 1..Len(sig.args) /\ sig \in Interface
  BY InterfaceType DEF Execute, Values, TypeInv
<1>2. sig.args[next] \in Types
  BY <1>1, InterfaceType
<1>3. PICK r : r = PlaceArg(Load, next, sig.args[next])
  OBVIOUS
<1>4. Load \in Filled /\ next \in Nat
  BY <1>1, LoadType
<1>5. r \in Filled
  BY <1>2, <1>3, <1>4, PlaceArgFilled
<1>6. regs' = [gp |-> r.gp, fp |-> r.fp, stack |-> r.stack, x8 |-> regs.x8] /\ dropped' = r.dropped
  BY <1>3 DEF Execute, Load
<1>7. r = [gp |-> r.gp, fp |-> r.fp, stack |-> r.stack, dropped |-> r.dropped]
  BY <1>5 DEF Filled, Loads
<1>8. Load' = r
  BY <1>6, <1>7 DEF Load
<1> QED BY <1>1, <1>2, <1>3, <1>4, <1>5, <1>6, <1>8

LEMMA TypeKept == TypeInv /\ [Next]_vars => TypeInv'
<1> SUFFICES ASSUME TypeInv, [Next]_vars PROVE TypeInv'
  OBVIOUS
<1>1. CallTypeOK /\ CbTypeOK /\ callee \in {"c", "go"} /\ sig \in Interface /\ cbType = sig
  BY DEF TypeInv, TypeOK
<1>2. CASE CountArg /\ UNCHANGED <<cbVars, callee>>
  <2>1. sig.args[next] \in Types
    <3>1. next \in 1..Len(sig.args)
      BY <1>1, <1>2, InterfaceType DEF CountArg, CallTypeOK
    <3> QED BY <1>1, <3>1, InterfaceType
  <2>2. PICK c : c = Classify(sig.args[next])
    OBVIOUS
  <2>3. c \in Counts
    BY <2>1, <2>2, ClassifyType
  <2>4. totals' \in [gp : Nat, fp : Nat]
    <3>1. PICK a, b : a = totals.gp + c.gp /\ b = totals.fp + c.fp
      OBVIOUS
    <3>2. totals.gp \in Nat /\ totals.fp \in Nat /\ c.gp \in Nat /\ c.fp \in Nat
      BY <1>1, <2>3 DEF CallTypeOK, Counts
    <3>3. a \in Nat /\ b \in Nat
      BY <3>1, <3>2
    <3>4. totals' = [gp |-> a, fp |-> b]
      BY <1>2, <2>2, <3>1 DEF CountArg
    <3> QED BY <3>3, <3>4
  <2>5. next' \in 1..(Len(sig.args) + 1) /\ Len(sig'.args) = Len(sig.args)
    <3>1. PICK n : n = Len(sig.args)
      OBVIOUS
    <3>2. n \in Nat
      BY <1>1, <3>1, InterfaceType
    <3>3. next \in 1..(n + 1) /\ next <= n /\ next' = next + 1 /\ sig' = sig
      BY <1>1, <1>2, <3>1 DEF CountArg, CallTypeOK
    <3> QED BY <3>1, <3>2, <3>3
  <2>6. CallTypeOK'
    BY <1>1, <1>2, <2>4, <2>5 DEF CountArg, CallTypeOK
  <2> QED BY <1>2, <2>6, CallKept DEF CountArg
<1>3. CASE Prepared /\ UNCHANGED <<cbVars, callee>>
  <2>1. regs' \in [gp : Seq(Word), fp : Seq(Word), stack : Seq(Word), x8 : Word]
        /\ regs'.gp = regs.gp /\ regs'.fp = regs.fp /\ regs'.stack = regs.stack
    <3>1. AddressOf(0) \in Word
      BY WordsAreWords
    <3>2. regs' = regs \/ \E x \in Word : regs' = [regs EXCEPT !.x8 = x]
      BY <1>1, <1>3, <3>1 DEF Prepared, CallTypeOK
    <3> QED BY <1>1, <3>2 DEF CallTypeOK
  <2>2. phase' \in {"place", "rejected"} /\ next' = 1
    BY <1>3 DEF Prepared
  <2>3. 1 \in 1..(Len(sig.args) + 1)
    BY <1>1, InterfaceType
  <2>4. CallTypeOK'
    BY <1>1, <1>3, <2>1, <2>2, <2>3 DEF Prepared, CallTypeOK
  <2> QED BY <1>3, <2>4, CallKept DEF Prepared
<1>4. CASE Execute /\ UNCHANGED <<cbVars, callee>>
  <2>1. PICK r : r = PlaceArg(Load, next, sig.args[next])
    OBVIOUS
  <2>2. /\ r \in Filled /\ next \in 1..Len(sig.args)
        /\ regs' = [gp |-> r.gp, fp |-> r.fp, stack |-> r.stack, x8 |-> regs.x8]
        /\ dropped' = r.dropped
    BY <1>4, <2>1, ExecuteTyped
  <2>3. regs.x8 \in Word
    BY <1>1 DEF CallTypeOK
  <2>4. /\ regs' \in [gp : Seq(Word), fp : Seq(Word), stack : Seq(Word), x8 : Word]
        /\ Len(regs'.gp) <= 8 /\ Len(regs'.fp) <= 8 /\ Len(regs'.stack) <= 7
        /\ dropped' \in SUBSET Word
    BY <2>2, <2>3, FilledRegs
  <2>5. next' \in 1..(Len(sig.args) + 1) /\ Len(sig'.args) = Len(sig.args)
    BY <1>1, <1>4, <2>2, InterfaceType DEF Execute
  <2>6. CallTypeOK'
    BY <1>1, <1>4, <2>4, <2>5 DEF Execute, CallTypeOK
  <2> QED BY <1>4, <2>6, CallKept DEF Execute
<1>5. CASE EnterC /\ UNCHANGED <<cbVars, callee>>
  BY <1>1, <1>5, CallKept DEF EnterC, CallTypeOK
<1>6. CASE Return /\ UNCHANGED <<cbVars, callee>>
  <2>1. HandleReturn(sig.ret) \subseteq [off : Nat, n : Nat, word : Word]
    BY <1>1, InterfaceType, HandleReturnType DEF CallTypeOK
  <2>2. CallTypeOK'
    BY <1>1, <1>6, <2>1 DEF Return, CallTypeOK
  <2> QED BY <1>6, <2>2, CallKept DEF Return
<1>7. CASE ReadArg /\ UNCHANGED <<callVars, callee>>
  <2>1. PICK t, kind : /\ t = cbType.args[Len(got) + 1]
                       /\ kind = IF IsFloat(t) THEN "fp" ELSE "gp"
    OBVIOUS
  <2>2. /\ got' = Append(got, IF t.kind = "float" THEN Converted(Here(kind)) ELSE Here(kind))
        /\ pos' = Advance(kind) /\ cb = "read" /\ UNCHANGED <<cb, cbType, frame>>
    BY <1>7, <2>1 DEF ReadArg
  <2>3. kind \in {"gp", "fp"} /\ cb # "idle"
    BY <2>1, <2>2
  <2>4. Here(kind) \in Word /\ Advance(kind) \in [gp : 0..8, fp : 0..8, stack : Nat]
    BY <2>3, HereType
  <2>5. got' \in Seq(Word)
    <3>1. PICK w : w = IF t.kind = "float" THEN Converted(Here(kind)) ELSE Here(kind)
      OBVIOUS
    <3>2. w \in Word
      BY <2>4, <3>1, WordsAreWords
    <3> QED BY <1>1, <2>2, <3>1, <3>2, AppendWord DEF CbTypeOK
  <2>6. CbTypeOK'
    BY <1>1, <2>2, <2>4, <2>5 DEF CbTypeOK
  <2> QED BY <1>7, <2>2, <2>6, CbKept DEF TypeInv
<1>8. CASE (CallGo \/ LeaveGo) /\ UNCHANGED <<callVars, callee>>
  <2>1. cb \in {"read", "run"} /\ cb' \in {"run", "returned"} /\ UNCHANGED <<cbType, frame, pos, got>>
    BY <1>8 DEF CallGo, LeaveGo
  <2>2. CbTypeOK'
    BY <1>1, <2>1 DEF CbTypeOK
  <2> QED BY <1>8, <2>1, <2>2, CbKept DEF TypeInv
<1>9. CASE CCallsBack
  BY <1>1, <1>9, AbiFrameType, DispatchKept DEF CCallsBack
<1>10. CASE GoEntered
  BY <1>10, PassedFrameType, DispatchKept DEF GoEntered
<1>11. CASE CReturns \/ GoReturns
  <2>1. PICK v : LeaveC(v) /\ v \in [RetRegs -> Word]
    <3>1. CASE CReturns
      <4>1. \A r \in RetRegs : Returned(sig.ret, r) \in Word
        BY <1>1, InterfaceType, ReturnedType
      <4> QED BY <3>1, <4>1 DEF CReturns
    <3>2. CASE GoReturns
      <4>1. Unset \in Word /\ Bytes(0, 0, 8) \in Word /\ Converted(Bytes(0, 0, 8)) \in Word
        BY WordsAreWords
      <4>2. \A r \in RetRegs : CallbackRegs(r) \in Word
        BY <4>1 DEF CallbackRegs, Result
      <4> QED BY <3>2, <4>2 DEF GoReturns
    <3> QED BY <1>11, <3>1, <3>2
  <2>2. CallTypeOK'
    BY <1>1, <2>1 DEF LeaveC, CallTypeOK
  <2> QED BY <1>11, <2>1, <2>2, CallKept DEF LeaveC, CReturns, GoReturns
<1>12. CASE UNCHANGED vars
  BY <1>12 DEF vars, callVars, cbVars, TypeInv, TypeOK, CallTypeOK, CbTypeOK
<1> QED BY <1>2, <1>3, <1>4, <1>5, <1>6, <1>7, <1>8, <1>9, <1>10, <1>11, <1>12
        DEF Next, CallNext, CbNext

LEMMA TypeInit == Init => TypeInv
<1> SUFFICES ASSUME Init PROVE TypeInv
  OBVIOUS
<1>1. CallInit /\ CbInit(sig) /\ callee \in {"c", "go"}
  BY DEF Init
<1>2. sig \in Interface
  BY <1>1, SignaturesAssumption DEF CallInit, Interface
<1>3. Len(sig.args) \in Nat /\ 1 \in 1..(Len(sig.args) + 1)
  BY <1>2, InterfaceType
<1>4. Unset \in Word /\ <<>> \in Seq(Word) /\ Len(<<>>) = 0
  BY WordsAreWords
<1>5. CallTypeOK
  BY <1>1, <1>3, <1>4 DEF CallInit, CallTypeOK
<1>6. CbTypeOK /\ cb = "idle" /\ cbType = sig
  BY <1>1, <1>4 DEF CbInit, CbTypeOK
<1> QED BY <1>1, <1>2, <1>5, <1>6 DEF TypeInv, TypeOK

\* Every variable keeps its type: in particular no more than eight registers of either
\* kind and seven slots are ever filled, whatever preparePlatformSpecific let through,
\* and callbackWrap reads within the registers callbackDispatcher saved.
THEOREM TypeCorrect == Spec => []TypeOK
<1>1. Spec => []TypeInv
  BY TypeInit, TypeKept, PTL DEF Spec
<1>2. TypeInv => TypeOK
  BY DEF TypeInv
<1> QED BY <1>1, <1>2, PTL
--------------------------------------------------------------------------------
(* What a part of a value holds.                                            *)

LEMMA HfaIsHFA ==
  ASSUME NEW t \in Types
  PROVE  /\ Hfa(t) <=> IsHFA(t)
         /\ ViaPointer(t) <=> ByReference(t)
<1>1. 1 \in DOMAIN t.leaves
  <2>1. PICK n : n = Len(t.leaves)
    OBVIOUS
  <2>2. n \in Nat \ {0} /\ DOMAIN t.leaves = 1..n
    BY <2>1, LeavesType
  <2> QED BY <2>2
<1>2. ASSUME Hfa(t) PROVE IsHFA(t)
  <2>1. /\ IsStruct(t) /\ Len(t.leaves) \in 1..4
        /\ \E kind \in {"float", "double"} : \A j \in DOMAIN t.leaves : t.leaves[j].kind = kind
    BY <1>2 DEF Hfa
  <2>2. PICK kind \in {"float", "double"} : \A j \in DOMAIN t.leaves : t.leaves[j].kind = kind
    BY <2>1
  <2>3. 1 \in DOMAIN t.leaves
    BY <1>1
  <2>4. \A j \in DOMAIN t.leaves : IsFloat(t.leaves[j]) /\ t.leaves[j].kind = t.leaves[1].kind
    BY <2>2, <2>3 DEF IsFloat
  <2> QED BY <2>1, <2>4 DEF IsHFA
<1>3. ASSUME IsHFA(t) PROVE Hfa(t)
  <2>1. /\ IsStruct(t) /\ Len(t.leaves) \in 1..4
        /\ \A j \in DOMAIN t.leaves : IsFloat(t.leaves[j]) /\ t.leaves[j].kind = t.leaves[1].kind
    BY <1>3 DEF IsHFA
  <2>2. 1 \in DOMAIN t.leaves
    BY <1>1
  <2>3. t.leaves[1].kind \in {"float", "double"}
    BY <2>1, <2>2 DEF IsFloat
  <2> QED BY <2>1, <2>3 DEF Hfa
<1>4. Hfa(t) <=> IsHFA(t)
  BY <1>2, <1>3
<1> QED BY <1>4 DEF ViaPointer, ByReference

LEMMA LeafAligned ==
  ASSUME NEW t \in Types, NEW j \in 1..Len(t.leaves)
  PROVE  /\ t.leaves[j].off \in Nat /\ t.leaves[j].size \in Sizes
         /\ t.leaves[j].off % t.leaves[j].size = 0
<1>1. j \in DOMAIN t.leaves
  BY LeavesType
<1>2. t.leaves[j].off % t.leaves[j].size = 0
  BY <1>1, TypesAssumption
<1> QED BY <1>2, LeavesType DEF Scalars

\* A scalar is aligned, so it does not lie across two words.
LEMMA LeafInWord ==
  ASSUME NEW t \in Types, NEW j \in 1..Len(t.leaves), NEW k \in Nat,
         t.leaves[j].off \in (8 * k)..(8 * k + 7)
  PROVE  LeafEnd(t, j) <= 8 * k + 8 /\ LeafEnd(t, j) <= t.size
<1>1. PICK off, size : off = t.leaves[j].off /\ size = t.leaves[j].size
  OBVIOUS
<1>2. off \in Nat /\ size \in Sizes /\ off % size = 0 /\ LeafEnd(t, j) <= t.size
  BY <1>1, LeavesType, LeafAligned
<1>3. LeafEnd(t, j) = off + size
  BY <1>1 DEF LeafEnd
<1>4. off >= 8 * k /\ off <= 8 * k + 7
  BY <1>1
<1>5. off + size <= 8 * k + 8
  <2>1. CASE size = 1
    BY <1>2, <1>4, <2>1
  <2>2. CASE size = 2
    BY <1>2, <1>4, <2>2
  <2>3. CASE size = 4
    BY <1>2, <1>4, <2>3
  <2>4. CASE size = 8
    BY <1>2, <1>4, <2>4
  <2> QED BY <1>2, <2>1, <2>2, <2>3, <2>4 DEF Sizes
<1> QED BY <1>2, <1>3, <1>5

LEMMA SameLeaf ==
  ASSUME NEW t \in Types, IsHFA(t), NEW j \in 1..Len(t.leaves), NEW k \in 1..Len(t.leaves),
         t.leaves[j].off \in t.leaves[k].off..(t.leaves[k].off + t.leaves[k].size - 1)
  PROVE  LeafEnd(t, j) <= t.leaves[k].off + t.leaves[k].size
<1>1. PICK a, b, s : a = t.leaves[j].off /\ b = t.leaves[k].off /\ s = t.leaves[1].size
  OBVIOUS
<1>2. t.leaves[j].size = s /\ t.leaves[k].size = s /\ s \in {4, 8}
  BY <1>1, HfaType
<1>3. a \in Nat /\ b \in Nat /\ a % s = 0 /\ b % s = 0
  <2>1. a \in Nat /\ a % t.leaves[j].size = 0
    BY <1>1, LeafAligned
  <2>2. b \in Nat /\ b % t.leaves[k].size = 0
    BY <1>1, LeafAligned
  <2> QED BY <1>2, <2>1, <2>2
<1>4. a >= b /\ a <= b + s - 1
  BY <1>1, <1>2, <1>3
<1>5. a + s <= b + s
  <2>1. CASE s = 4
    BY <1>3, <1>4, <2>1
  <2>2. CASE s = 8
    BY <1>3, <1>4, <2>2
  <2> QED BY <1>2, <2>1, <2>2
<1> QED BY <1>1, <1>2, <1>5 DEF LeafEnd

\* The words that carry a value.
LEMMA PartsAre ==
  ASSUME NEW i \in Nat, NEW t \in Types
  PROVE  /\ ByReference(t) => Parts(i, t) = <<AddressOf(i)>>
         /\ IsHFA(t) => /\ DOMAIN Parts(i, t) = 1..Len(t.leaves)
                        /\ \A j \in 1..Len(t.leaves) :
                             Parts(i, t)[j] = Bytes(i, t.leaves[j].off, t.leaves[j].size)
         /\ ~ByReference(t) /\ ~IsHFA(t) =>
              /\ DOMAIN Parts(i, t) = 1..Eightbytes(t)
              /\ \A j \in 1..Eightbytes(t) : Parts(i, t)[j] = Bytes(i, 8 * (j - 1), Left(t, j - 1))
<1>1. Hfa(t) <=> IsHFA(t)
  BY HfaIsHFA
<1>2. DOMAIN t.leaves = 1..Len(t.leaves)
  BY LeavesType
<1>3. ByReference(t) => ~Hfa(t)
  BY DEF ByReference
<1>4. ByReference(t) => Parts(i, t) = <<AddressOf(i)>>
  <2>1. PICK w : w = AddressOf(i)
    OBVIOUS
  <2> QED BY <1>3, <2>1 DEF Parts
<1>5. Hfa(t) => Parts(i, t) = [j \in DOMAIN t.leaves |-> Bytes(i, t.leaves[j].off, t.leaves[j].size)]
  BY <1>3 DEF Parts
<1>6. ~ByReference(t) /\ ~Hfa(t) =>
        Parts(i, t) = [j \in 1..Eightbytes(t) |-> Bytes(i, 8 * (j - 1), Left(t, j - 1))]
  BY DEF Parts
<1> QED BY <1>1, <1>2, <1>4, <1>5, <1>6

\* A part has the scalars that begin in it to their ends.
LEMMA PartsWhole ==
  ASSUME NEW i \in Nat, NEW t \in Types, NEW j \in DOMAIN Parts(i, t)
  PROVE  Delivers(Parts(i, t)[j], Parts(i, t)[j], t)
<1>1. PICK p : p = Parts(i, t)[j]
  OBVIOUS
<1>2. DOMAIN t.leaves = 1..Len(t.leaves)
  BY LeavesType
<1>3. SUFFICES ASSUME NEW l \in 1..Len(t.leaves), t.leaves[l].off \in p.off..(p.off + p.len - 1)
               PROVE  LeafEnd(t, l) <= p.off + p.len
  BY <1>1, <1>2 DEF Delivers
<1>4. CASE ByReference(t)
  <2>1. p = AddressOf(i)
    <3>1. PICK w : w = AddressOf(i)
      OBVIOUS
    <3>2. Parts(i, t) = <<w>>
      BY <1>4, <3>1, PartsAre
    <3> QED BY <1>1, <3>1, <3>2
  <2>2. p.off = 0 /\ p.len = 8
    BY <2>1 DEF AddressOf
  <2>3. t.leaves[l].off \in (8 * 0)..(8 * 0 + 7)
    BY <1>3, <2>2
  <2>4. LeafEnd(t, l) <= 8 * 0 + 8
    BY <2>3, LeafInWord
  <2> QED BY <2>2, <2>4
<1>5. CASE IsHFA(t)
  <2>1. j \in 1..Len(t.leaves) /\ p = Bytes(i, t.leaves[j].off, t.leaves[j].size)
    BY <1>1, <1>5, PartsAre
  <2>2. p.off = t.leaves[j].off /\ p.len = t.leaves[j].size
    BY <2>1 DEF Bytes
  <2> QED BY <1>3, <1>5, <2>1, <2>2, SameLeaf
<1>6. CASE ~ByReference(t) /\ ~IsHFA(t)
  <2>1. j \in 1..Eightbytes(t) /\ p = Bytes(i, 8 * (j - 1), Left(t, j - 1))
    BY <1>1, <1>6, PartsAre
  <2>2. PICK k : k = j - 1
    OBVIOUS
  <2>3. t.size \in Nat /\ t.leaves[l].off \in Nat
    BY LeavesType DEF Scalars
  <2>4. j \in Nat /\ k \in Nat
    BY <2>1, <2>2, <2>3 DEF Eightbytes
  <2>5. p.off = 8 * k /\ p.len = Left(t, k)
    BY <2>1, <2>2 DEF Bytes
  <2>6. PICK z, off : z = t.size /\ off = t.leaves[l].off
    OBVIOUS
  <2>7. Left(t, k) = IF z - 8 * k < 8 THEN z - 8 * k ELSE 8
    BY <2>6 DEF Left
  <2>8. PICK len : len = Left(t, k)
    OBVIOUS
  <2>9. off >= 8 * k /\ off <= 8 * k + len - 1 /\ len <= 8 /\ len \in Int
    BY <1>3, <2>3, <2>4, <2>5, <2>6, <2>7, <2>8
  <2>10. t.leaves[l].off \in (8 * k)..(8 * k + 7)
    BY <2>3, <2>4, <2>6, <2>9
  <2>11. LeafEnd(t, l) <= 8 * k + 8 /\ LeafEnd(t, l) <= z
    BY <2>4, <2>6, <2>10, LeafInWord
  <2>12. LeafEnd(t, l) \in Int
    BY LeavesType DEF LeafEnd, Scalars, Sizes
  <2>13. LeafEnd(t, l) <= 8 * k + len
    BY <2>3, <2>4, <2>6, <2>7, <2>8, <2>11, <2>12
  <2> QED BY <2>5, <2>8, <2>13
<1> QED BY <1>4, <1>5, <1>6
--------------------------------------------------------------------------------
(* Results.                                                                 *)

\* The register C leaves part j of a result in.
LEMMA ReturnedIs ==
  ASSUME NEW t \in Types, t.kind # "void", ~ByReference(t), NEW j \in DOMAIN Parts(0, t)
  PROVE  /\ RegKind(t) = "fp" /\ j \in 1..4 => Returned(t, FloatReg(j)) = Parts(0, t)[j]
         /\ RegKind(t) = "gp" /\ j = 1 => Returned(t, "x0") = Parts(0, t)[j]
         /\ RegKind(t) = "gp" /\ j = 2 => Returned(t, "x1") = Parts(0, t)[j]
<1>1. PICK parts : parts = Parts(0, t)
  OBVIOUS
<1>2. PICK floats, ints : floats = <<"d0", "d1", "d2", "d3">> /\ ints = <<"x0", "x1">>
  OBVIOUS
<1>3. PICK names : names = IF RegKind(t) = "fp" THEN floats ELSE ints
  OBVIOUS
<1>4. ASSUME NEW r, \A k \in DOMAIN parts : names[k] = r <=> k = j
      PROVE  Returned(t, r) = parts[j]
  <2>1. {k \in DOMAIN parts : names[k] = r} = {j}
    BY <1>1, <1>4
  <2>2. (CHOOSE k \in {j} : TRUE) = j
    OBVIOUS
  <2>3. Returned(t, r) = IF t.kind = "void" \/ ByReference(t) \/ {j} = {} THEN Unset
                         ELSE parts[CHOOSE k \in {j} : TRUE]
    BY <1>1, <1>2, <1>3, <2>1 DEF Returned
  <2> QED BY <2>2, <2>3
<1>5. ASSUME RegKind(t) = "fp", j \in 1..4 PROVE Returned(t, FloatReg(j)) = parts[j]
  <2>1. DOMAIN parts \subseteq 1..4
    <3>1. CASE IsHFA(t)
      <4>1. PICK n : n = Len(t.leaves)
        OBVIOUS
      <4>2. n \in 1..4 /\ DOMAIN parts = 1..n
        BY <1>1, <3>1, <4>1, HfaType, PartsAre
      <4> QED BY <4>2
    <3>2. CASE ~IsHFA(t)
      <4>1. IsFloat(t) /\ ~IsStruct(t)
        BY <1>5, <3>2, HfaIsHFA DEF RegKind, IsFloat, IsStruct
      <4>2. t.size \in {1, 2, 4, 8}
        BY <4>1, ScalarType DEF Sizes
      <4>3. Eightbytes(t) = 1
        BY <4>2 DEF Eightbytes
      <4>4. DOMAIN parts = 1..1
        BY <1>1, <3>2, <4>3, PartsAre
      <4> QED BY <4>4
    <3> QED BY <3>1, <3>2
  <2>2. \A k \in 1..4 : names[k] = FloatReg(k)
    BY <1>2, <1>3, <1>5 DEF FloatReg
  <2>3. \A k \in 1..4 : FloatReg(k) = FloatReg(j) <=> k = j
    BY <1>5 DEF FloatReg
  <2>4. \A k \in DOMAIN parts : names[k] = FloatReg(j) <=> k = j
    BY <2>1, <2>2, <2>3
  <2> QED BY <1>4, <2>4
<1>6. ASSUME RegKind(t) = "gp" PROVE DOMAIN parts \subseteq 1..2
  <2>1. ~IsHFA(t) /\ ~IsFloat(t)
    BY <1>6, HfaIsHFA DEF RegKind
  <2>2. t.size \in 1..16
    <3>1. CASE IsStruct(t)
      <4>1. t.size \in Nat \ {0}
        BY LeavesType
      <4>2. ~(t.size > 16)
        BY <2>1, <3>1, HfaIsHFA DEF ByReference
      <4> QED BY <4>1, <4>2
    <3>2. CASE ~IsStruct(t)
      <4>1. t.size \in {1, 2, 4, 8}
        BY <3>2, ScalarType DEF Sizes
      <4> QED BY <4>1
    <3> QED BY <3>1, <3>2
  <2>3. Eightbytes(t) \in 1..2
    <3>1. PICK z : z = t.size
      OBVIOUS
    <3>2. z \in 1..16 /\ Eightbytes(t) = (z + 7) \div 8
      BY <2>2, <3>1 DEF Eightbytes
    <3> QED BY <3>2
  <2>4. DOMAIN parts = 1..Eightbytes(t)
    BY <1>1, <2>1, PartsAre
  <2>5. PICK n : n = Eightbytes(t)
    OBVIOUS
  <2> QED BY <2>3, <2>4, <2>5
<1>7. ASSUME RegKind(t) = "gp", j = 1 PROVE Returned(t, "x0") = parts[j]
  <2>1. \A k \in 1..2 : names[k] = "x0" <=> k = j
    BY <1>2, <1>3, <1>7
  <2> QED BY <1>4, <1>6, <1>7, <2>1
<1>8. ASSUME RegKind(t) = "gp", j = 2 PROVE Returned(t, "x1") = parts[j]
  <2>1. \A k \in 1..2 : names[k] = "x1" <=> k = j
    BY <1>2, <1>3, <1>8
  <2> QED BY <1>4, <1>6, <1>8, <2>1
<1> QED BY <1>1, <1>5, <1>7, <1>8

\* The scalars of a homogeneous aggregate lie side by side.
LEMMA HfaOffsets ==
  ASSUME NEW t \in Types, IsHFA(t), NEW k \in 1..Len(t.leaves)
  PROVE  t.leaves[k].off = t.leaves[1].size * (k - 1)
<1>1. PICK n, s : n = Len(t.leaves) /\ s = t.leaves[1].size
  OBVIOUS
<1>2. n \in 1..4 /\ k \in 1..n /\ s \in Nat /\ DOMAIN t.leaves = 1..n
  BY <1>1, HfaType, LeavesType DEF Scalars, Sizes
<1>3. \A j \in 1..n : t.leaves[j].off = IF j = 1 THEN 0 ELSE LeafEnd(t, j - 1)
  BY <1>2, TypesAssumption
<1>4. \A j \in 1..n : t.leaves[j].size = s /\ t.leaves[j].off \in Nat
  BY <1>1, HfaType DEF Scalars
<1>5. \A j \in 1..n : t.leaves[j].off = IF j = 1 THEN 0 ELSE t.leaves[j - 1].off + s
  <2>1. \A j \in 1..n : j # 1 => j - 1 \in 1..n
    BY <1>2
  <2> QED BY <1>3, <1>4, <2>1 DEF LeafEnd
<1>6. t.leaves[1].off = 0
  BY <1>2, <1>5
<1>7. 2 <= n => t.leaves[2].off = s
  BY <1>2, <1>4, <1>5, <1>6
<1>8. 3 <= n => t.leaves[3].off = s + s
  BY <1>2, <1>4, <1>5, <1>7
<1>9. 4 <= n => t.leaves[4].off = s + s + s
  BY <1>2, <1>4, <1>5, <1>8
<1>10. k \in {1, 2, 3, 4} /\ k <= n
  BY <1>2
<1>11. s * 0 = 0 /\ s * 1 = s /\ s * 2 = s + s /\ s * 3 = s + s + s
  BY <1>2
<1> QED BY <1>1, <1>6, <1>7, <1>8, <1>9, <1>10, <1>11

\* A word of rvalue that has part p of a result.
Got(w, p, t) == w.off = p.off /\ w.n >= p.len /\ Delivers(w.word, p, t)

LEMMA ResultDelivered ==
  ASSUME NEW t \in Types, ret = [r \in RetRegs |-> Returned(t, r)],
         t.kind # "void", t.kind # "int", ~ByReference(t),
         ~(Hfa(t) /\ Len(t.leaves) = 1), NEW j \in DOMAIN Parts(0, t)
  PROVE  \E w \in HandleReturn(t) : Got(w, Parts(0, t)[j], t)
<1>1. PICK p : p = Parts(0, t)[j]
  OBVIOUS
<1>2. Delivers(p, p, t)
  BY <1>1, PartsWhole
<1>3. /\ Hfa(t) <=> IsHFA(t)
      /\ ~ViaPointer(t)
  BY HfaIsHFA
<1>4. \A r \in RetRegs : ret[r] = Returned(t, r)
  OBVIOUS
<1>5. ASSUME NEW off, NEW n, NEW r \in RetRegs, ret[r] = p, off = p.off, n >= p.len
      PROVE  Got(Write(off, n, ret[r]), p, t)
  BY <1>2, <1>5 DEF Got, Write
<1>6. {"x0", "x1", "d0", "d1", "d2", "d3"} = RetRegs
  BY DEF RetRegs
<1>7. CASE IsHFA(t)
  <2>1. PICK n : n = Len(t.leaves)
    OBVIOUS
  <2>2. n \in 2..4
    BY <1>3, <1>7, <2>1, HfaType
  <2>3. DOMAIN t.leaves = 1..n /\ j \in 1..n /\ p = Bytes(0, t.leaves[j].off, t.leaves[j].size)
    BY <1>1, <1>7, <2>1, LeavesType, PartsAre
  <2>4. j \in 1..4
    BY <2>2, <2>3
  <2>5. RegKind(t) = "fp"
    BY <1>3, <1>7 DEF RegKind
  <2>6. FloatReg(j) \in RetRegs
    BY <1>6, <2>4 DEF FloatReg
  <2>7. ret[FloatReg(j)] = p
    BY <1>1, <1>4, <2>4, <2>5, <2>6, ReturnedIs
  <2>8. p.off = t.leaves[1].size * (j - 1) /\ p.len = t.leaves[1].size
    BY <1>7, <2>1, <2>3, HfaOffsets, HfaType DEF Bytes
  <2>9. t.leaves[1].size \in Nat
    <3>1. 1 \in 1..n
      BY <2>2
    <3>2. t.leaves[1] \in Scalars
      BY <2>1, <3>1, LeavesType
    <3> QED BY <3>2 DEF Scalars, Sizes
  <2>10. PICK w : w = Write(t.leaves[1].size * (j - 1), t.leaves[1].size, ret[FloatReg(j)])
    OBVIOUS
  <2>11. Got(w, p, t)
    BY <1>5, <2>6, <2>7, <2>8, <2>9, <2>10
  <2>12. HandleReturn(t) = HandleHFAReturn(t)
    <3>1. n > 1
      BY <2>2
    <3>2. Len(t.leaves) > 1
      BY <2>1, <3>1, Zenon
    <3>3. IsStruct(t) /\ ~IsFloat(t)
      BY <1>7 DEF IsHFA, IsStruct, IsFloat
    <3> QED BY <1>3, <1>7, <3>2, <3>3 DEF HandleReturn
  <2>13. w \in HandleHFAReturn(t)
    BY <2>3, <2>10 DEF HandleHFAReturn
  <2> QED BY <1>1, <2>11, <2>12, <2>13
<1>8. CASE ~IsHFA(t)
  <2>1. j \in 1..Eightbytes(t) /\ p = Bytes(0, 8 * (j - 1), Left(t, j - 1))
    <3>1. 0 \in Nat
      OBVIOUS
    <3>2. /\ DOMAIN Parts(0, t) = 1..Eightbytes(t)
          /\ \A k \in 1..Eightbytes(t) : Parts(0, t)[k] = Bytes(0, 8 * (k - 1), Left(t, k - 1))
      BY <1>8, <3>1, PartsAre
    <3>3. j \in 1..Eightbytes(t)
      BY <3>2, Zenon
    <3> QED BY <1>1, <3>2, <3>3
  <2>2. PICK z : z = t.size
    OBVIOUS
  <2>3. z \in Nat \ {0} /\ Eightbytes(t) = (z + 7) \div 8
        /\ Left(t, 0) = (IF z < 8 THEN z ELSE 8)
    BY <2>2, LeavesType DEF Eightbytes, Left
  <2>4. p.off = 8 * (j - 1) /\ p.len = Left(t, j - 1)
    BY <2>1 DEF Bytes
  <2>5. CASE IsStruct(t) /\ z \in 9..16
    <3>1. Left(t, 1) = z - 8
      BY <2>2, <2>5 DEF Left
    <3>2. j \in {1, 2}
      BY <2>1, <2>3, <2>5
    <3>3. RegKind(t) = "gp"
      BY <1>3, <1>8, <2>5 DEF RegKind, IsStruct, IsFloat
    <3>4. HandleReturn(t) = {Write(0, 8, ret["x0"]), Write(8, z - 8, ret["x1"])}
      <4>1. t.kind = "struct" /\ ~IsFloat(t) /\ ~(t.size <= 8) /\ t.size \in 9..16
        BY <2>2, <2>5 DEF IsStruct, IsFloat
      <4> QED BY <1>3, <1>8, <2>2, <2>5, <4>1 DEF HandleReturn
    <3>5. CASE j = 1
      <4>1. ret["x0"] = p
        BY <1>1, <1>4, <1>6, <3>3, <3>5, ReturnedIs
      <4>2. p.off = 0 /\ p.len = 8
        BY <2>3, <2>4, <2>5, <3>5
      <4>3. Got(Write(0, 8, ret["x0"]), p, t)
        BY <1>5, <1>6, <4>1, <4>2
      <4> QED BY <1>1, <3>4, <4>3
    <3>6. CASE j = 2
      <4>1. ret["x1"] = p
        BY <1>1, <1>4, <1>6, <3>3, <3>6, ReturnedIs
      <4>2. p.off = 8 /\ p.len = z - 8
        BY <2>4, <3>1, <3>6
      <4>3. Got(Write(8, z - 8, ret["x1"]), p, t)
        BY <1>5, <1>6, <2>3, <4>1, <4>2
      <4> QED BY <1>1, <3>4, <4>3
    <3> QED BY <3>2, <3>5, <3>6
  <2>6. CASE ~(IsStruct(t) /\ z \in 9..16)
    <3>1. z <= 8 /\ (~IsStruct(t) => z \in Sizes)
      <4>1. CASE IsStruct(t)
        BY <1>3, <1>8, <2>2, <2>3, <2>6, <4>1 DEF ByReference
      <4>2. CASE ~IsStruct(t)
        BY <2>2, <4>2, ScalarType DEF Sizes
      <4> QED BY <4>1, <4>2
    <3>2. j = 1
      BY <2>1, <2>3, <3>1
    <3>3. p.off = 0 /\ p.len = z /\ 8 >= z
      BY <2>3, <2>4, <3>1, <3>2
    <3>4. CASE IsFloat(t)
      <4>1. RegKind(t) = "fp" /\ FloatReg(1) = "d0" /\ ~IsStruct(t)
        BY <3>4 DEF RegKind, FloatReg, IsFloat, IsStruct
      <4>2. ret["d0"] = p
        BY <1>1, <1>4, <1>6, <3>2, <4>1, ReturnedIs
      <4>3. HandleReturn(t) = {Write(0, z, ret["d0"])}
        BY <1>3, <1>8, <2>2, <3>4, <4>1 DEF HandleReturn
      <4>4. Got(Write(0, z, ret["d0"]), p, t)
        BY <1>5, <1>6, <2>3, <3>3, <4>2
      <4> QED BY <1>1, <4>3, <4>4
    <3>5. CASE ~IsFloat(t)
      <4>1. RegKind(t) = "gp"
        BY <1>3, <1>8, <3>5 DEF RegKind
      <4>2. ret["x0"] = p
        BY <1>1, <1>4, <1>6, <3>2, <4>1, ReturnedIs
      <4>3. HandleReturn(t) = {Write(0, IF IsStruct(t) THEN 8 ELSE z, ret["x0"])}
        <5>1. CASE IsStruct(t)
          BY <1>3, <1>8, <2>2, <3>1, <3>5, <5>1 DEF HandleReturn
        <5>2. CASE ~IsStruct(t)
          BY <1>3, <1>8, <2>2, <3>5, <5>2 DEF HandleReturn
        <5> QED BY <5>1, <5>2
      <4>4. Got(Write(0, IF IsStruct(t) THEN 8 ELSE z, ret["x0"]), p, t)
        <5>1. PICK m : m = IF IsStruct(t) THEN 8 ELSE z
          OBVIOUS
        <5>2. m >= p.len
          BY <2>3, <3>3, <5>1
        <5> QED BY <1>5, <1>6, <3>3, <4>2, <5>1, <5>2
      <4> QED BY <1>1, <4>3, <4>4
    <3> QED BY <3>4, <3>5
  <2> QED BY <2>5, <2>6
<1> QED BY <1>7, <1>8

ResultInv == /\ callee = "c" /\ phase = "return" => ret = [r \in RetRegs |-> Returned(sig.ret, r)]
             /\ ResultArrives

LEMMA ResultKept == TypeInv /\ ResultInv /\ [Next]_vars => ResultInv'
<1> SUFFICES ASSUME TypeInv, ResultInv, [Next]_vars PROVE ResultInv'
  OBVIOUS
<1>1. ASSUME phase' \notin {"return", "done"} PROVE ResultInv'
  BY <1>1 DEF ResultInv, ResultArrives
<1>2. ASSUME UNCHANGED <<callVars, callee>> PROVE ResultInv'
  BY <1>2 DEF ResultInv, ResultArrives, callVars
<1>3. CASE (CountArg \/ Prepared \/ Execute \/ EnterC) /\ UNCHANGED <<cbVars, callee>>
  BY <1>1, <1>3 DEF CountArg, Prepared, Execute, EnterC
<1>4. CASE Return /\ UNCHANGED <<cbVars, callee>>
  <2>1. CASE sig.ret.kind = "int"
    BY <1>1, <1>4, <2>1 DEF Return
  <2>2. CASE sig.ret.kind # "int"
    <3>1. phase = "return" /\ phase' = "done" /\ result' = HandleReturn(sig.ret)
          /\ sig' = sig /\ callee' = callee
      BY <1>4, <2>2 DEF Return
    <3>2. sig.ret \in Types
      BY InterfaceType DEF TypeInv
    <3>3. ASSUME callee = "c", sig.ret.kind # "void", ~ByReference(sig.ret),
                 ~(Hfa(sig.ret) /\ Len(sig.ret.leaves) = 1), NEW j \in DOMAIN Parts(0, sig.ret)
          PROVE  \E w \in result' : Got(w, Parts(0, sig.ret)[j], sig.ret)
      <4>1. ret = [r \in RetRegs |-> Returned(sig.ret, r)]
        BY <3>1, <3>3 DEF ResultInv
      <4>2. \E w \in HandleReturn(sig.ret) : Got(w, Parts(0, sig.ret)[j], sig.ret)
        BY <2>2, <3>2, <3>3, <4>1, ResultDelivered
      <4> QED BY <3>1, <4>2
    <3>4. ResultArrives'
      BY <3>1, <3>3 DEF ResultArrives, Got
    <3> QED BY <3>1, <3>4 DEF ResultInv
  <2> QED BY <2>1, <2>2
<1>5. CASE CbNext /\ UNCHANGED <<callVars, callee>>
  BY <1>2, <1>5
<1>6. CASE CCallsBack \/ GoEntered
  BY <1>2, <1>6 DEF CCallsBack, GoEntered
<1>7. CASE CReturns \/ GoReturns
  <2>1. phase' = "return" /\ sig' = sig /\ (CReturns => callee' = "c") /\ (GoReturns => callee' = "go")
        /\ (CReturns => ret' = [r \in RetRegs |-> Returned(sig.ret, r)])
    BY <1>7 DEF CReturns, GoReturns, LeaveC, callVars
  <2> QED BY <1>7, <2>1 DEF ResultInv, ResultArrives
<1>8. CASE UNCHANGED vars
  BY <1>2, <1>8 DEF vars
<1> QED BY <1>3, <1>4, <1>5, <1>6, <1>7, <1>8 DEF Next, CallNext

\* rvalue receives what C returned (handleReturn and handleHFAReturn), for every result
\* type but a struct of a single float and a C int.
THEOREM ResultsArrive == Spec => []ResultArrives
<1>1. Init => TypeInv /\ ResultInv
  BY TypeInit DEF Init, CallInit, ResultInv, ResultArrives
<1>2. TypeInv /\ ResultInv /\ [Next]_vars => TypeInv' /\ ResultInv'
  BY TypeKept, ResultKept
<1>3. ResultInv => ResultArrives
  BY DEF ResultInv
<1> QED BY <1>1, <1>2, <1>3, PTL DEF Spec
--------------------------------------------------------------------------------
(* A small struct that goffi passes as the ABI does: a word for a GP        *)
(* register for each eight bytes of it.                                     *)

Tidy(t) == /\ Small(t) /\ ~FloatsApart(t) /\ ~Lags(t)
           /\ \A j \in DOMAIN t.leaves : ~Unknown(t.leaves[j])
Ends(t, j) == IF j = 0 THEN 0 ELSE LeafEnd(t, j)

LEMMA TidyType ==
  ASSUME NEW t \in Types, Tidy(t)
  PROVE  /\ IsStruct(t) /\ ~IsHFA(t) /\ ~ByReference(t) /\ t.size \in 1..16
         /\ \A j \in 1..Len(t.leaves) :
              ~Unknown(t.leaves[j]) /\ t.leaves[j].off = AlignUp(Ends(t, j - 1), t.leaves[j].size)
<1>1. DOMAIN t.leaves = 1..Len(t.leaves) /\ t.size \in Nat \ {0}
  BY LeavesType
<1>2. IsStruct(t) /\ ~IsHFA(t) /\ t.size <= 16
  <2>1. Small(t)
    BY DEF Tidy
  <2>2. IsStruct(t) /\ ~Hfa(t) /\ t.size <= 16
    BY <2>1 DEF Small
  <2> QED BY <2>2, HfaIsHFA
<1>3. ~ByReference(t) /\ t.size \in 1..16
  <2>1. PICK z : z = t.size
    OBVIOUS
  <2>2. z \in Nat /\ z # 0 /\ z <= 16
    BY <1>1, <1>2, <2>1
  <2>3. z \in 1..16 /\ ~(z > 16)
    BY <2>2
  <2> QED BY <2>1, <2>3 DEF ByReference
<1>4. \A j \in 1..Len(t.leaves) : ~Unknown(t.leaves[j])
  BY <1>1 DEF Tidy
<1>5. \A j \in 1..Len(t.leaves) :
        t.leaves[j].off = AlignUp(IF j = 1 THEN 0 ELSE LeafEnd(t, j - 1), t.leaves[j].size)
  BY <1>1 DEF Tidy, Lags
<1>6. \A j \in 1..Len(t.leaves) : Ends(t, j - 1) = IF j = 1 THEN 0 ELSE LeafEnd(t, j - 1)
  <2>1. PICK n : n = Len(t.leaves)
    OBVIOUS
  <2>2. n \in Nat
    BY <2>1, LeavesType
  <2>3. \A j \in 1..n : j - 1 = 0 <=> j = 1
    BY <2>2
  <2> QED BY <2>1, <2>3 DEF Ends
<1> QED BY <1>2, <1>3, <1>4, <1>5, <1>6

\* Scalars lie one after the other.
LEMMA EndsInOrder ==
  ASSUME NEW t \in Types
  PROVE  /\ \A j \in 0..Len(t.leaves) : Ends(t, j) \in Nat /\ Ends(t, j) <= t.size
         /\ \A j \in 1..Len(t.leaves) :
              /\ Ends(t, j) = t.leaves[j].off + t.leaves[j].size
              /\ t.leaves[j].off \in Nat /\ t.leaves[j].size \in Sizes
              /\ t.leaves[j].off >= Ends(t, j - 1)
         /\ \A j \in 0..Len(t.leaves) : \A l \in 1..j : Ends(t, l) <= Ends(t, j)
         /\ \A j \in 1..Len(t.leaves) : \A l \in (j + 1)..Len(t.leaves) :
              t.leaves[l].off >= Ends(t, j)
<1>1. PICK n : n = Len(t.leaves)
  OBVIOUS
<1>2. n \in Nat /\ t.size \in Nat
  BY <1>1, LeavesType
<1>3. \A j \in 0..n : Ends(t, j) \in Nat /\ Ends(t, j) <= t.size
  <2>1. \A j \in 1..n : LeafEnd(t, j) \in Nat /\ LeafEnd(t, j) <= t.size
    BY <1>1, LeavesType
  <2>2. \A j \in 0..n : j # 0 => j \in 1..n
    BY <1>2
  <2> QED BY <1>2, <2>1, <2>2 DEF Ends
<1>4. ASSUME NEW j \in 1..n
      PROVE  /\ Ends(t, j) = t.leaves[j].off + t.leaves[j].size
             /\ t.leaves[j].off \in Nat /\ t.leaves[j].size \in Sizes
             /\ t.leaves[j].off >= Ends(t, j - 1)
  <2>1. j # 0 /\ (j - 1 = 0 <=> j = 1)
    BY <1>2
  <2>2. t.leaves[j].off >= Before(t, j) /\ t.leaves[j] \in Scalars
    BY <1>1, LeavesType
  <2> QED BY <2>1, <2>2 DEF Ends, LeafEnd, Before, Scalars
<1>5. ASSUME NEW j \in 1..n PROVE Ends(t, j - 1) <= Ends(t, j)
  <2>1. PICK a, b, c, d : a = Ends(t, j - 1) /\ b = t.leaves[j].off
                            /\ c = t.leaves[j].size /\ d = Ends(t, j)
    OBVIOUS
  <2>2. j - 1 \in 0..n
    BY <1>2
  <2>3. a \in Nat /\ b \in Nat /\ c \in Nat /\ d = b + c /\ b >= a
    BY <1>3, <1>4, <2>1, <2>2 DEF Sizes
  <2> QED BY <2>1, <2>3
<1> DEFINE S == {j \in 0..n : \A l \in 1..j : Ends(t, l) <= Ends(t, j)}
<1>6. 0 \in S
  BY <1>2
<1>7. ASSUME NEW j \in 1..n, j - 1 \in S PROVE j \in S
  <2>1. j \in 0..n /\ j - 1 \in 0..n /\ \A l \in 1..j : l = j \/ l \in 1..(j - 1)
    BY <1>2
  <2>2. ASSUME NEW l \in 1..j PROVE Ends(t, l) <= Ends(t, j)
    <3>1. CASE l = j
      BY <1>3, <2>1, <3>1
    <3>2. CASE l \in 1..(j - 1)
      <4>1. Ends(t, l) <= Ends(t, j - 1) /\ Ends(t, j - 1) <= Ends(t, j)
        BY <1>5, <1>7, <3>2
      <4>2. l \in 0..n
        BY <1>2, <2>1, <3>2
      <4> QED BY <1>3, <2>1, <4>1, <4>2
    <3> QED BY <2>1, <3>1, <3>2
  <2> QED BY <2>1, <2>2
<1> HIDE DEF S
<1>8. \A j \in 0..n : j \in S
  BY <1>2, <1>6, <1>7, UpToN
<1>9. \A j \in 0..n : \A l \in 1..j : Ends(t, l) <= Ends(t, j)
  BY <1>8 DEF S
<1>10. ASSUME NEW j \in 1..n, NEW l \in (j + 1)..n PROVE t.leaves[l].off >= Ends(t, j)
  <2>1. l \in 1..n /\ l - 1 \in 0..n /\ j \in 1..(l - 1) /\ j \in 0..n
    BY <1>2
  <2>2. Ends(t, j) <= Ends(t, l - 1) /\ t.leaves[l].off >= Ends(t, l - 1) /\ t.leaves[l].off \in Nat
    BY <1>4, <1>9, <2>1
  <2> QED BY <1>3, <2>1, <2>2
<1> QED BY <1>1, <1>3, <1>4, <1>9, <1>10

\* Eight bytes in which all scalars are floats.
LEMMA NotApart ==
  ASSUME NEW t \in Types, Tidy(t), NEW q \in 0..1, NEW j \in 1..Len(t.leaves),
         t.leaves[j].off \in (8 * q)..(8 * q + 7),
         \A l \in 1..Len(t.leaves) :
           t.leaves[l].off \in (8 * q)..(8 * q + 7) => IsFloat(t.leaves[l])
  PROVE  FALSE
<1>1. DOMAIN t.leaves = 1..Len(t.leaves) /\ \A l \in 1..Len(t.leaves) : t.leaves[l].off \in Nat
  BY LeavesType DEF Scalars
<1>2. \A x \in Nat : x \div 8 = q <=> x \in (8 * q)..(8 * q + 7)
  <2>1. q = 0 \/ q = 1
    OBVIOUS
  <2> QED BY <2>1
<1>3. PICK here : here = {l \in DOMAIN t.leaves : t.leaves[l].off \div 8 = q}
  OBVIOUS
<1>4. j \in here /\ \A l \in here : IsFloat(t.leaves[l])
  BY <1>1, <1>2, <1>3
<1>5. here # {}
  BY <1>4
<1>6. FloatsApart(t)
  BY <1>3, <1>4, <1>5 DEF FloatsApart, Tidy
<1> QED BY <1>6 DEF Tidy

LEMMA AlignFrom ==
  ASSUME NEW q \in Nat, NEW x \in 0..8, NEW a \in Sizes
  PROVE  /\ AlignUp(8 * q + x, a) = 8 * q + AlignUp(x, a)
         /\ AlignUp(x, a) \in 0..8 /\ (x = 0 => AlignUp(x, a) = 0)
         /\ a = 8 /\ AlignUp(x, a) < 8 => x = 0
         /\ a = 4 => AlignUp(x, a) \in {0, 4, 8}
<1>1. CASE a = 1
  BY <1>1 DEF AlignUp
<1>2. CASE a = 2
  BY <1>2 DEF AlignUp
<1>3. CASE a = 4
  BY <1>3 DEF AlignUp
<1>4. CASE a = 8
  BY <1>4 DEF AlignUp
<1> QED BY <1>1, <1>2, <1>3, <1>4 DEF Sizes

\* Word w has eight bytes of argument i, the k-th, as far as the first j scalars go.
Holding(i, t, j, k, w) ==
  /\ w.is = "bytes" /\ w.arg = i /\ w.off = 8 * (k - 1) /\ w.len \in Nat
  /\ \A l \in 1..j : t.leaves[l].off \in (8 * (k - 1))..(8 * (k - 1) + 7) =>
       Ends(t, l) <= 8 * (k - 1) + w.len
OutHolds(i, t, j, out) ==
  \A k \in 1..Len(out) : out[k].kind = "gp" /\ Holding(i, t, j, k, out[k].word)
\* A register with nothing but floats in it, q words being out.
FloatsSince(t, j, q, class) ==
  class = {"float"} => \A l \in 1..j : t.leaves[l].off >= 8 * q => IsFloat(t.leaves[l])

\* The walk after j scalars, with q words out and the last scalar's end at e.
InStep(i, t, s, j, q, e) ==
  /\ s \in WalkStates /\ s.ok /\ q \in Nat /\ Len(s.out) = q /\ e = Ends(t, j)
  /\ OutHolds(i, t, j, s.out)
  /\ IF s.reg.class = {} THEN s.reg = EmptyReg /\ e = 8 * q
     ELSE /\ e \in (8 * q + 1)..(8 * q + 8)
          /\ s.reg.shift = e - 8 * q /\ s.reg.word = Bytes(i, 8 * q, e - 8 * q)
          /\ FloatsSince(t, j, q, s.reg.class)

LEMMA HoldingOn ==
  ASSUME NEW i, NEW t \in Types, NEW j \in 1..Len(t.leaves), NEW out, Len(out) \in Nat,
         OutHolds(i, t, j - 1, out), t.leaves[j].off >= 8 * Len(out)
  PROVE  OutHolds(i, t, j, out)
<1>1. PICK q, off : q = Len(out) /\ off = t.leaves[j].off
  OBVIOUS
<1>2. j \in Nat /\ q \in Nat /\ off \in Nat /\ off >= 8 * q
  BY <1>1, LeavesType DEF Scalars
<1>3. ASSUME NEW k \in 1..q, NEW l \in 1..j,
             t.leaves[l].off \in (8 * (k - 1))..(8 * (k - 1) + 7)
      PROVE  l \in 1..(j - 1)
  <2>1. t.leaves[l].off < 8 * q
    BY <1>2, <1>3
  <2> QED BY <1>1, <1>2, <1>3, <2>1
<1> QED BY <1>1, <1>3 DEF OutHolds, Holding

\* Flushing such a register.
LEMMA FlushInStep ==
  ASSUME NEW i \in Nat, NEW t \in Types, NEW s, NEW j \in 0..Len(t.leaves), NEW q, NEW e,
         InStep(i, t, s, j, q, e), s.reg.class # {}, s.reg.class # {"float"}
  PROVE  /\ Flush(s) \in WalkStates /\ Flush(s).ok /\ Flush(s).reg = EmptyReg
         /\ Len(Flush(s).out) = q + 1 /\ OutHolds(i, t, j, Flush(s).out)
<1>1. /\ s \in WalkStates /\ s.ok /\ q \in Nat /\ Len(s.out) = q /\ e = Ends(t, j)
      /\ OutHolds(i, t, j, s.out)
      /\ e \in (8 * q + 1)..(8 * q + 8)
      /\ s.reg.word = Bytes(i, 8 * q, e - 8 * q)
  BY DEF InStep
<1>2. PICK w, o, out : w = Bytes(i, 8 * q, e - 8 * q) /\ o = [kind |-> "gp", word |-> w] /\ out = s.out
  OBVIOUS
<1>3. Flush(s) \in WalkStates /\ Flush(s).ok /\ Flush(s).reg = EmptyReg /\ Flush(s).out = Append(out, o)
  BY <1>1, <1>2, FlushFacts DEF RegOf
<1>4. out \in Seq(Outs) /\ Len(out) = q
  BY <1>1, <1>2, WalkStateType
<1>5. Len(Append(out, o)) = q + 1 /\ Append(out, o)[q + 1] = o
      /\ \A k \in 1..q : Append(out, o)[k] = out[k]
  BY <1>4, AppendProperties
<1>6. Holding(i, t, j, q + 1, w)
  <2>1. e \in Nat /\ \A l \in 1..j : Ends(t, l) <= e
    BY <1>1, EndsInOrder
  <2>2. w.is = "bytes" /\ w.arg = i /\ w.off = 8 * q /\ w.len = e - 8 * q
    BY <1>2 DEF Bytes
  <2>3. w.len \in Nat /\ 8 * ((q + 1) - 1) = 8 * q /\ 8 * q + w.len = e
    BY <1>1, <2>1, <2>2
  <2> QED BY <2>1, <2>2, <2>3 DEF Holding
<1>7. \A k \in 1..(q + 1) : k \in 1..q \/ k = q + 1
  BY <1>1
<1>8. OutHolds(i, t, j, Append(out, o))
  BY <1>1, <1>2, <1>5, <1>6, <1>7 DEF OutHolds
<1> QED BY <1>3, <1>5, <1>8

\* The walk with room for scalar j.
Ready(i, t, s, j, q, e) ==
  /\ s \in WalkStates /\ s.ok /\ q \in Nat /\ Len(s.out) = q /\ e = Ends(t, j - 1)
  /\ OutHolds(i, t, j - 1, s.out)
  /\ t.leaves[j].off \in (8 * q)..(8 * q + 7)
  /\ s.reg.shift = t.leaves[j].off - 8 * q
  /\ IF s.reg.class = {} THEN s.reg.word = Unset /\ t.leaves[j].off = 8 * q /\ e <= 8 * q
     ELSE /\ t.leaves[j].size # 8 /\ s.reg.word = Bytes(i, 8 * q, e - 8 * q)
          /\ FloatsSince(t, j - 1, q, s.reg.class)

\* A register of floats alone would be eight bytes of them.
LEMMA NoFloatsAlone ==
  ASSUME NEW i \in Nat, NEW t \in Types, Tidy(t), NEW s, NEW j \in 1..Len(t.leaves), NEW q, NEW e,
         InStep(i, t, s, j, q, e), s.reg.class # {},
         \A l \in (j + 1)..Len(t.leaves) :
           t.leaves[l].off \in (8 * q)..(8 * q + 7) => IsFloat(t.leaves[l])
  PROVE  s.reg.class # {"float"}
<1>1. SUFFICES ASSUME s.reg.class = {"float"} PROVE FALSE
  OBVIOUS
<1>2. q \in Nat /\ e = Ends(t, j) /\ e \in (8 * q + 1)..(8 * q + 8)
      /\ \A l \in 1..j : t.leaves[l].off >= 8 * q => IsFloat(t.leaves[l])
  BY <1>1 DEF InStep, FloatsSince
<1>3. PICK n, off, size : n = Len(t.leaves) /\ off = t.leaves[j].off /\ size = t.leaves[j].size
  OBVIOUS
<1>4. /\ n \in Nat /\ j \in 1..n /\ off \in Nat /\ size \in Sizes
      /\ e = off + size /\ e <= t.size /\ t.size \in 1..16
  <2>1. n \in Nat /\ j \in 1..n
    BY <1>3, LeavesType
  <2>2. j \in 0..n
    BY <2>1
  <2>3. e <= t.size
    BY <1>2, <1>3, <2>2, EndsInOrder
  <2>4. off \in Nat /\ size \in Sizes /\ e = off + size
    BY <1>2, <1>3, EndsInOrder
  <2> QED BY <2>1, <2>3, <2>4, TidyType
<1>5. q \in 0..1
  <2>1. PICK z : z = t.size
    OBVIOUS
  <2>2. z \in 1..16 /\ e <= z
    BY <1>4, <2>1
  <2> QED BY <1>2, <2>2
<1>6. off \in (8 * q)..(8 * q + 7)
  <2>1. off <= 8 * q + 7
    BY <1>2, <1>4 DEF Sizes
  <2>2. off >= 8 * q
    <3>1. SUFFICES ASSUME off < 8 * q PROVE FALSE
      BY <1>2, <1>4
    <3>2. q = 1 /\ off \in (8 * 0)..(8 * 0 + 7)
      BY <1>4, <1>5, <3>1
    <3>3. LeafEnd(t, j) <= 8 * 0 + 8
      BY <1>3, <3>2, LeafInWord
    <3>4. LeafEnd(t, j) = e
      BY <1>3, <1>4 DEF LeafEnd
    <3> QED BY <1>2, <3>2, <3>3, <3>4
  <2> QED BY <1>2, <1>4, <2>1, <2>2
<1>7. ASSUME NEW l \in 1..n, t.leaves[l].off \in (8 * q)..(8 * q + 7) PROVE IsFloat(t.leaves[l])
  <2>1. l \in 1..j \/ l \in (j + 1)..n
    BY <1>4
  <2>2. t.leaves[l].off >= 8 * q
    BY <1>2, <1>7
  <2> QED BY <1>2, <1>3, <1>7, <2>1, <2>2
<1> QED BY <1>3, <1>5, <1>6, <1>7, NotApart

LEMMA SettledIsReady ==
  ASSUME NEW i \in Nat, NEW t \in Types, Tidy(t), NEW s, NEW j \in 1..Len(t.leaves),
         NEW q, NEW e, InStep(i, t, s, j - 1, q, e)
  PROVE  \E m \in q..(q + 1) : Ready(i, t, Settle(s, t.leaves[j]), j, m, e)
<1>1. PICK n, leaf, off, size, x, class, d :
        /\ n = Len(t.leaves) /\ leaf = t.leaves[j] /\ off = leaf.off /\ size = leaf.size
        /\ x = s.reg.shift /\ class = s.reg.class /\ d = Settle(s, leaf)
  OBVIOUS
<1>2. /\ n \in Nat /\ j \in 1..n /\ j - 1 \in 0..n /\ leaf \in Scalars
      /\ off \in Nat /\ size \in Sizes
  <2>1. n \in Nat /\ j \in 1..n /\ leaf \in Scalars
    BY <1>1, LeavesType
  <2> QED BY <1>1, <2>1 DEF Scalars
<1>3. /\ s \in WalkStates /\ s.ok /\ q \in Nat /\ Len(s.out) = q /\ e = Ends(t, j - 1)
      /\ OutHolds(i, t, j - 1, s.out) /\ e \in Nat
      /\ class = {} => s.reg = EmptyReg /\ e = 8 * q
      /\ class # {} => /\ e \in (8 * q + 1)..(8 * q + 8)
                       /\ x = e - 8 * q /\ s.reg.word = Bytes(i, 8 * q, e - 8 * q)
                       /\ FloatsSince(t, j - 1, q, class)
  BY <1>1, <1>2, EndsInOrder DEF InStep
<1>4. x \in 0..8 /\ e = 8 * q + x /\ (x = 0 <=> class = {})
  <2>1. CASE class = {}
    <3>1. x = 0
      BY <1>1, <1>3, <2>1, EmptyRegType
    <3> QED BY <1>3, <2>1, <3>1
  <2>2. CASE class # {}
    <3>1. e \in (8 * q + 1)..(8 * q + 8) /\ x = e - 8 * q /\ q \in Nat
      BY <1>3, <2>2
    <3>2. x \in 1..8 /\ e = 8 * q + x
      BY <3>1
    <3> QED BY <2>2, <3>2
  <2> QED BY <2>1, <2>2
<1>5. PICK y : y = AlignUp(x, size)
  OBVIOUS
<1>6. /\ off = 8 * q + y /\ y \in 0..8 /\ (x = 0 => y = 0) /\ (size = 8 /\ y < 8 => x = 0)
      /\ size = 4 => y \in {0, 4, 8}
  <2>1. off = AlignUp(e, size)
    BY <1>1, <1>3, TidyType
  <2>2. q \in Nat /\ x \in 0..8 /\ size \in Sizes
    BY <1>2, <1>3, <1>4
  <2>3. /\ AlignUp(8 * q + x, size) = 8 * q + y
        /\ y \in 0..8 /\ (x = 0 => y = 0) /\ (size = 8 /\ y < 8 => x = 0)
        /\ size = 4 => y \in {0, 4, 8}
    BY <1>5, <2>2, AlignFrom
  <2> QED BY <1>4, <2>1, <2>3
<1>7. Begins(x, class, leaf) <=> y >= 8 \/ (leaf.kind = "float" /\ class = {"float"})
  BY <1>1, <1>5 DEF Begins
<1>8. /\ d \in WalkStates /\ d.ok = s.ok
      /\ Begins(x, class, leaf) => d = Flush(s)
      /\ ~Begins(x, class, leaf) =>
           d.out = s.out /\ d.reg = [shift |-> y, class |-> class, word |-> s.reg.word]
  BY <1>1, <1>2, <1>3, <1>5, SettleFacts
<1>9. leaf.kind = "float" => size = 4
  <2>1. j \in DOMAIN t.leaves
    BY <1>1, <1>2, LeavesType
  <2> QED BY <1>1, <2>1, TypesAssumption
<1>10. ASSUME Begins(x, class, leaf) PROVE Ready(i, t, d, j, q + 1, e)
  <2>1. class # {}
    <3>1. CASE y >= 8
      BY <1>4, <1>6, <3>1
    <3>2. CASE class = {"float"}
      BY <3>2
    <3> QED BY <1>7, <1>10, <3>1, <3>2
  <2>2. j - 1 # 0
    BY <1>3, <1>4, <2>1 DEF Ends
  <2>3. j - 1 \in 1..n
    BY <1>2, <2>2
  <2>4. class # {"float"}
    <3>1. SUFFICES ASSUME class = {"float"} PROVE FALSE
      OBVIOUS
    <3>2. ASSUME NEW l \in j..n, t.leaves[l].off \in (8 * q)..(8 * q + 7) PROVE IsFloat(t.leaves[l])
      <4>1. t.leaves[l].off \in Nat /\ t.leaves[l].off <= 8 * q + 7
        <5>1. l \in 1..n
          BY <1>2
        <5> QED BY <1>1, <1>3, <3>2, <5>1, EndsInOrder
      <4>2. PICK f : f = Ends(t, j)
        OBVIOUS
      <4>3. f = off + size /\ \A m \in (j + 1)..n : t.leaves[m].off >= f
        BY <1>1, <4>2, EndsInOrder
      <4>4. CASE l = j
        <5>1. t.leaves[l] = leaf
          BY <1>1, <4>4
        <5>2. off <= 8 * q + 7
          BY <1>1, <4>1, <5>1
        <5>3. y < 8
          BY <1>3, <1>6, <5>2
        <5>4. leaf.kind = "float"
          BY <1>6, <1>7, <1>10, <5>3
        <5> QED BY <5>1, <5>4 DEF IsFloat
      <4>5. CASE l # j
        <5>1. l \in (j + 1)..n
          BY <1>2, <4>5
        <5>2. PICK z : z = t.leaves[l].off
          OBVIOUS
        <5>3. z >= f /\ z \in Nat /\ z <= 8 * q + 7
          BY <4>1, <4>3, <5>1, <5>2
        <5>4. size \in Nat
          BY <1>2 DEF Sizes
        <5>5. off + size <= 8 * q + 7
          BY <1>2, <1>3, <4>3, <5>3, <5>4
        <5>6. y < 8
          BY <1>2, <1>3, <1>6, <5>5 DEF Sizes
        <5>7. size = 4 /\ x # 0
          <6>1. leaf.kind = "float"
            BY <1>6, <1>7, <1>10, <5>6
          <6> QED BY <1>4, <1>9, <2>1, <6>1
        <5>8. y >= x
          BY <1>2, <1>4, <1>5, AlignUpFacts
        <5>9. y = 4
          BY <1>4, <1>6, <5>6, <5>7, <5>8
        <5> QED BY <1>3, <1>6, <5>5, <5>7, <5>9
      <4> QED BY <4>4, <4>5
    <3>3. (j - 1) + 1 = j
      BY <1>2
    <3>4. \A l \in ((j - 1) + 1)..Len(t.leaves) :
            t.leaves[l].off \in (8 * q)..(8 * q + 7) => IsFloat(t.leaves[l])
      BY <1>1, <3>2, <3>3
    <3>5. j - 1 \in 1..Len(t.leaves)
      BY <1>1, <2>3
    <3>6. s.reg.class # {}
      BY <1>1, <2>1
    <3>7. s.reg.class # {"float"}
      BY <3>4, <3>5, <3>6, NoFloatsAlone
    <3> QED BY <1>1, <3>1, <3>7
  <2>5. y = 8
    <3>1. y >= 8
      BY <1>7, <1>10, <2>4
    <3> QED BY <1>6, <3>1
  <2>6. /\ d \in WalkStates /\ d.ok /\ d.reg = EmptyReg
        /\ Len(d.out) = q + 1 /\ OutHolds(i, t, j - 1, d.out)
    <3>1. j - 1 \in 0..Len(t.leaves)
      BY <1>1, <1>2
    <3>2. s.reg.class # {} /\ s.reg.class # {"float"}
      BY <1>1, <2>1, <2>4
    <3> QED BY <1>8, <1>10, <3>1, <3>2, FlushInStep
  <2>7. d.reg.class = {} /\ d.reg.shift = 0 /\ d.reg.word = Unset
    BY <2>6 DEF EmptyReg
  <2>8. off = 8 * (q + 1) /\ e <= 8 * (q + 1) /\ q + 1 \in Nat
    BY <1>3, <1>4, <1>6, <2>5
  <2>9. off \in (8 * (q + 1))..(8 * (q + 1) + 7) /\ 0 = off - 8 * (q + 1)
    BY <2>8
  <2> QED BY <1>1, <1>3, <2>6, <2>7, <2>8, <2>9 DEF Ready
<1>11. ASSUME ~Begins(x, class, leaf) PROVE Ready(i, t, d, j, q, e)
  <2>1. y < 8
    BY <1>6, <1>7, <1>11
  <2>2. /\ d \in WalkStates /\ d.ok /\ d.out = s.out
        /\ d.reg.shift = y /\ d.reg.class = class /\ d.reg.word = s.reg.word
    BY <1>3, <1>8, <1>11
  <2>3. off \in (8 * q)..(8 * q + 7) /\ y = off - 8 * q
    BY <1>2, <1>3, <1>6, <2>1
  <2>4. class = {} => s.reg.word = Unset /\ off = 8 * q /\ e <= 8 * q
    BY <1>3, <1>4, <1>6 DEF EmptyReg
  <2>5. class # {} => size # 8
    BY <1>4, <1>6, <2>1
  <2> QED BY <1>1, <1>3, <2>2, <2>3, <2>4, <2>5 DEF Ready
<1>12. q \in q..(q + 1) /\ q + 1 \in q..(q + 1)
  BY <1>3
<1> QED BY <1>1, <1>10, <1>11, <1>12

\* A scalar merged where it belongs.
LEMMA Merged ==
  ASSUME NEW i \in Nat, NEW q \in WalkStates, NEW leaf \in Scalars, From(q, leaf.off),
         NEW p, p = Merge(q, i, leaf), NEW from,
         from = IF q.reg.class = {} THEN leaf.off ELSE q.reg.word.off,
         q.reg.word.is # "converted", q.reg.shift = leaf.off - from
  PROVE  /\ p.out = q.out
         /\ p.reg.shift = q.reg.shift + leaf.size
         /\ p.reg.class = q.reg.class \cup ClassOf(leaf)
         /\ p.reg.word = Bytes(i, from, leaf.off + leaf.size - from)
<1>1. PICK word : word = Bytes(i, from, leaf.off + leaf.size - from)
  OBVIOUS
<1>2. /\ p.out = q.out
      /\ p.reg.shift = q.reg.shift + leaf.size
      /\ p.reg.class = q.reg.class \cup ClassOf(leaf)
      /\ p.reg.word = IF q.reg.word.is # "converted" /\ q.reg.shift = leaf.off - from
                      THEN word ELSE Converted(word)
  BY <1>1, MergeFacts
<1> QED BY <1>1, <1>2

LEMMA ReadyPlaces ==
  ASSUME NEW i \in Nat, NEW t \in Types, Tidy(t), NEW d, NEW j \in 1..Len(t.leaves),
         NEW q, NEW e, Ready(i, t, d, j, q, e), NEW p \in WalkStates,
         PlacedLeaf(i, d, t.leaves[j], p)
  PROVE  \E m \in Nat : \E f : InStep(i, t, p, j, m, f)
<1>1. PICK n, leaf, off, size, class, f :
        /\ n = Len(t.leaves) /\ leaf = t.leaves[j] /\ off = leaf.off /\ size = leaf.size
        /\ class = d.reg.class /\ f = Ends(t, j)
  OBVIOUS
<1>2. n \in Nat /\ j \in 1..n /\ j \in 0..n /\ j - 1 \in 0..n /\ leaf \in Scalars
  <2>1. n \in Nat /\ j \in 1..n /\ leaf \in Scalars
    BY <1>1, LeavesType
  <2> QED BY <2>1
<1>3. off \in Nat /\ size \in Sizes /\ size \in Nat /\ f = off + size /\ e = Ends(t, j - 1)
      /\ e \in Nat /\ e <= off /\ f <= t.size /\ t.size \in 1..16
  <2>1. off \in Nat /\ size \in Sizes /\ f = off + size /\ off >= Ends(t, j - 1)
    BY <1>1, EndsInOrder
  <2>2. e = Ends(t, j - 1)
    BY DEF Ready
  <2>3. Ends(t, j - 1) \in Nat /\ f <= t.size
    BY <1>1, <1>2, EndsInOrder
  <2> QED BY <2>1, <2>2, <2>3, TidyType DEF Sizes
<1>4. /\ d \in WalkStates /\ d.ok /\ q \in Nat /\ Len(d.out) = q
      /\ OutHolds(i, t, j - 1, d.out)
      /\ off \in (8 * q)..(8 * q + 7) /\ d.reg.shift = off - 8 * q
  BY <1>1 DEF Ready
<1>5. /\ class = {} => d.reg.word = Unset /\ off = 8 * q /\ e <= 8 * q
      /\ class # {} => /\ size # 8 /\ d.reg.word = Bytes(i, 8 * q, e - 8 * q)
                       /\ FloatsSince(t, j - 1, q, class)
  BY <1>1 DEF Ready
<1>6. OutHolds(i, t, j, d.out)
  BY <1>1, <1>4, HoldingOn
<1>7. ~Unknown(leaf)
  BY <1>1, TidyType
<1>8. f \in (8 * q + 1)..(8 * q + 8)
  <2>1. LeafEnd(t, j) <= 8 * q + 8
    BY <1>1, <1>4, LeafInWord
  <2>2. LeafEnd(t, j) = f
    BY <1>1, <1>3 DEF LeafEnd
  <2>3. size >= 1
    BY <1>3 DEF Sizes
  <2> QED BY <1>3, <1>4, <2>1, <2>2, <2>3
<1>9. ASSUME NEW l \in 1..(j - 1), class = {} PROVE t.leaves[l].off < 8 * q
  <2>1. l \in 1..n
    BY <1>2
  <2>2. PICK a, b, c : a = t.leaves[l].off /\ b = t.leaves[l].size /\ c = Ends(t, l)
    OBVIOUS
  <2>3. a \in Nat /\ b \in Sizes /\ c = a + b /\ c <= e
    BY <1>1, <1>2, <1>3, <2>1, <2>2, EndsInOrder
  <2>4. a < c /\ c \in Nat
    BY <2>3 DEF Sizes
  <2>5. e <= 8 * q
    BY <1>5, <1>9
  <2>6. a < 8 * q
    BY <1>3, <1>4, <2>3, <2>4, <2>5
  <2> QED BY <2>2, <2>6
<1>10. CASE size = 8
  <2>1. class = {} /\ off = 8 * q /\ f = 8 * q + 8
    BY <1>3, <1>4, <1>5, <1>10
  <2>2. leaf.kind # "double"
    <3>1. SUFFICES ASSUME leaf.kind = "double" PROVE FALSE
      OBVIOUS
    <3>2. q \in 0..1
      <4>1. PICK z : z = t.size
        OBVIOUS
      <4>2. 8 * q + 8 <= z /\ z \in 1..16
        BY <1>3, <2>1, <4>1
      <4> QED BY <1>4, <4>2
    <3>3. ASSUME NEW l \in 1..n, t.leaves[l].off \in (8 * q)..(8 * q + 7) PROVE l = j
      <4>1. PICK z : z = t.leaves[l].off
        OBVIOUS
      <4>2. z \in Nat /\ z >= 8 * q /\ z <= 8 * q + 7
        BY <1>1, <1>4, <3>3, <4>1, EndsInOrder
      <4>3. ~(l \in 1..(j - 1))
        <5>1. l \in 1..(j - 1) => t.leaves[l].off < 8 * q
          BY <1>9, <2>1
        <5> QED BY <1>4, <4>1, <4>2, <5>1
      <4>4. l \in (j + 1)..n => z >= f
        BY <1>1, <4>1, EndsInOrder
      <4>5. ~(l \in (j + 1)..n)
        BY <1>3, <1>4, <2>1, <4>2, <4>4
      <4> QED BY <1>2, <4>3, <4>5
    <3>4. \A l \in 1..n : t.leaves[l].off \in (8 * q)..(8 * q + 7) => IsFloat(t.leaves[l])
      BY <1>1, <3>1, <3>3 DEF IsFloat
    <3> QED BY <1>1, <1>4, <3>2, <3>4, NotApart
  <2>3. PICK w, o, out : w = Bytes(i, 8 * q, 8) /\ o = [kind |-> "gp", word |-> w] /\ out = d.out
    OBVIOUS
  <2>4. p.ok /\ p.reg = EmptyReg /\ p.out = Append(out, o)
    BY <1>1, <1>7, <1>10, <2>1, <2>2, <2>3 DEF PlacedLeaf
  <2>5. out \in Seq(Outs) /\ Len(out) = q
    BY <1>4, <2>3, WalkStateType
  <2>6. Len(Append(out, o)) = q + 1 /\ Append(out, o)[q + 1] = o
        /\ \A k \in 1..q : Append(out, o)[k] = out[k]
    BY <2>5, AppendProperties
  <2>7. Holding(i, t, j, q + 1, w)
    <3>1. \A l \in 1..j : Ends(t, l) <= f
      BY <1>1, <1>2, EndsInOrder
    <3>2. w.is = "bytes" /\ w.arg = i /\ w.off = 8 * q /\ w.len = 8
      BY <2>3 DEF Bytes
    <3>3. w.len \in Nat /\ 8 * ((q + 1) - 1) = 8 * q /\ 8 * q + w.len = f
      BY <1>4, <2>1, <3>2
    <3> QED BY <3>1, <3>2, <3>3 DEF Holding
  <2>8. \A k \in 1..(q + 1) : k \in 1..q \/ k = q + 1
    BY <1>4
  <2>9. OutHolds(i, t, j, Append(out, o))
    BY <1>4, <1>6, <2>3, <2>5, <2>6, <2>7, <2>8 DEF OutHolds
  <2>10. p.reg.class = {} /\ f = 8 * (q + 1) /\ q + 1 \in Nat
    BY <1>4, <2>1, <2>4, EmptyRegType
  <2>11. InStep(i, t, p, j, q + 1, f)
    BY <1>1, <2>4, <2>6, <2>9, <2>10 DEF InStep
  <2> QED BY <2>10, <2>11
<1>11. CASE size # 8
  <2>1. p.ok /\ p = Merge(d, i, leaf)
    BY <1>1, <1>7, <1>11 DEF PlacedLeaf
  <2>2. From(d, off)
    <3>1. class # {} => d.reg.word.off = 8 * q
      BY <1>5 DEF Bytes
    <3> QED BY <1>1, <1>3, <1>4, <3>1 DEF From
  <2>3. PICK from : from = IF d.reg.class = {} THEN off ELSE d.reg.word.off
    OBVIOUS
  <2>4. from = 8 * q
    <3>1. class # {} => d.reg.word.off = 8 * q
      BY <1>5 DEF Bytes
    <3> QED BY <1>1, <1>5, <2>3, <3>1
  <2>5. /\ p.out = d.out
        /\ p.reg.shift = d.reg.shift + size /\ p.reg.class = class \cup ClassOf(leaf)
        /\ p.reg.word = Bytes(i, 8 * q, f - 8 * q)
    <3>1. From(d, leaf.off)
      BY <1>1, <2>2
    <3>2. d.reg.word.is # "converted"
      BY <1>5 DEF Unset, Bytes
    <3>3. from = IF d.reg.class = {} THEN leaf.off ELSE d.reg.word.off
      BY <1>1, <2>3
    <3>4. d.reg.shift = leaf.off - from
      BY <1>1, <1>4, <2>4
    <3>5. /\ p.out = d.out
          /\ p.reg.shift = d.reg.shift + leaf.size
          /\ p.reg.class = d.reg.class \cup ClassOf(leaf)
          /\ p.reg.word = Bytes(i, from, leaf.off + leaf.size - from)
      BY <1>2, <1>4, <2>1, <3>1, <3>2, <3>3, <3>4, Merged
    <3>6. leaf.off + leaf.size - from = f - 8 * q
      BY <1>1, <1>3, <1>4, <2>4
    <3> QED BY <1>1, <2>4, <3>5, <3>6
  <2>7. p.reg.word = Bytes(i, 8 * q, f - 8 * q) /\ p.reg.shift = f - 8 * q
    BY <1>3, <1>4, <2>5
  <2>8. p.reg.class # {}
    BY <2>5 DEF ClassOf
  <2>9. FloatsSince(t, j, q, p.reg.class)
    <3>1. SUFFICES ASSUME p.reg.class = {"float"}, NEW l \in 1..j, t.leaves[l].off >= 8 * q
                   PROVE  IsFloat(t.leaves[l])
      BY DEF FloatsSince
    <3>2. CASE l = j
      <4>1. leaf.kind = "float"
        BY <2>5, <3>1 DEF ClassOf
      <4> QED BY <1>1, <3>2, <4>1 DEF IsFloat
    <3>3. CASE l # j
      <4>1. l \in 1..(j - 1)
        BY <1>2, <3>3
      <4>2. class # {}
        <5>1. SUFFICES ASSUME class = {} PROVE FALSE
          OBVIOUS
        <5>2. t.leaves[l].off < 8 * q /\ t.leaves[l].off \in Nat
          BY <1>1, <1>2, <1>9, <4>1, <5>1, EndsInOrder
        <5> QED BY <1>4, <3>1, <5>2
      <4>3. class = {"float"}
        BY <2>5, <3>1, <4>2
      <4> QED BY <1>5, <3>1, <4>1, <4>3 DEF FloatsSince
    <3> QED BY <3>2, <3>3
  <2>10. InStep(i, t, p, j, q, f)
    BY <1>1, <1>4, <1>6, <1>8, <2>1, <2>5, <2>7, <2>8, <2>9 DEF InStep
  <2> QED BY <1>4, <2>10
<1> QED BY <1>10, <1>11

\* What a tidy struct is passed as.
LEMMA TidyPlaced ==
  ASSUME NEW i \in Nat, NEW t \in Types, Tidy(t)
  PROVE  LET placed == PlaceStruct(i, t)
         IN  /\ placed.ok /\ Len(placed.out) = Eightbytes(t)
             /\ OutHolds(i, t, Len(t.leaves), placed.out)
<1>1. PICK n, w : n = Len(t.leaves) /\ w = PlaceWalk(i, t)
  OBVIOUS
<1>2. n \in Nat \ {0} /\ n \in 0..n /\ n \in 1..n
  BY <1>1, LeavesType
<1>3. w[0] = EmptyWalk /\ \A j \in 0..n : w[j] \in WalkStates
  BY <1>1, PlaceWalkSteps
<1> DEFINE S == {j \in 0..n : \E q \in Nat : \E e : InStep(i, t, w[j], j, q, e)}
<1>4. 0 \in S
  <2>1. EmptyWalk \in WalkStates /\ EmptyWalk.ok /\ EmptyWalk.out = <<>> /\ EmptyWalk.reg = EmptyReg
    BY EmptyWalkType DEF EmptyWalk
  <2>2. Len(<<>>) = 0 /\ Ends(t, 0) = 0 /\ 0 = 8 * 0
    BY DEF Ends
  <2>3. OutHolds(i, t, 0, <<>>)
    BY DEF OutHolds
  <2>4. InStep(i, t, EmptyWalk, 0, 0, 0)
    BY <2>1, <2>2, <2>3, EmptyRegType DEF InStep
  <2> QED BY <1>2, <1>3, <2>4
<1>5. ASSUME NEW j \in 1..n, j - 1 \in S PROVE j \in S
  <2>1. PICK q, e : InStep(i, t, w[j - 1], j - 1, q, e)
    BY <1>5
  <2>2. PICK m : Ready(i, t, Settle(w[j - 1], t.leaves[j]), j, m, e)
    BY <1>1, <2>1, SettledIsReady
  <2>3. w[j - 1].ok
    BY <2>1 DEF InStep
  <2>4. j \in 0..n /\ w[j] \in WalkStates /\ j \in 1..Len(t.leaves)
    BY <1>1, <1>2, <1>3
  <2>5. PlacedLeaf(i, Settle(w[j - 1], t.leaves[j]), t.leaves[j], w[j])
    BY <1>1, <2>3, <2>4, PlaceWalkSteps
  <2>6. \E k \in Nat : \E f : InStep(i, t, w[j], j, k, f)
    BY <2>2, <2>4, <2>5, ReadyPlaces
  <2> QED BY <2>4, <2>6
<1> HIDE DEF S
<1>6. \A j \in 0..n : j \in S
  BY <1>2, <1>4, <1>5, UpToN
<1>7. PICK q, e : q \in Nat /\ InStep(i, t, w[n], n, q, e)
  BY <1>2, <1>6 DEF S
<1>8. PICK s : s = w[n]
  OBVIOUS
<1>9. /\ s \in WalkStates /\ s.ok /\ Len(s.out) = q /\ e = Ends(t, n) /\ OutHolds(i, t, n, s.out)
      /\ s.reg.class = {} => e = 8 * q
      /\ s.reg.class # {} => e \in (8 * q + 1)..(8 * q + 8)
  BY <1>7, <1>8 DEF InStep
<1>10. PlaceStruct(i, t) = Flush(s)
  BY <1>1, <1>8, <1>9 DEF PlaceStruct
<1>11. e \in Nat \ {0} /\ e <= t.size /\ 8 * (Eightbytes(t) - 1) < e
  <2>1. Ends(t, n) = LeafEnd(t, n)
    BY <1>2 DEF Ends
  <2>2. 8 * (Eightbytes(t) - 1) < LeafEnd(t, n)
    BY <1>1, TypesAssumption
  <2>3. e \in Nat /\ e <= t.size
    BY <1>1, <1>2, <1>9, EndsInOrder
  <2>4. Ends(t, n) = t.leaves[n].off + t.leaves[n].size /\ t.leaves[n].off \in Nat
        /\ t.leaves[n].size \in Sizes
    BY <1>1, <1>2, EndsInOrder
  <2>5. e # 0
    <3>1. PICK a, b : a = t.leaves[n].off /\ b = t.leaves[n].size
      OBVIOUS
    <3>2. a \in Nat /\ b \in Sizes /\ e = a + b
      BY <1>9, <2>4, <3>1
    <3> QED BY <3>2 DEF Sizes
  <2> QED BY <1>9, <2>1, <2>2, <2>3, <2>5
<1>12. PICK z, b : z = t.size /\ b = Eightbytes(t)
  OBVIOUS
<1>13. z \in Nat /\ b = (z + 7) \div 8 /\ e <= z /\ 8 * (b - 1) < e
  BY <1>11, <1>12, LeavesType DEF Eightbytes
<1>14. CASE s.reg.class = {}
  <2>1. Flush(s).ok /\ Flush(s).out = s.out
    BY <1>9, <1>14, FlushFacts
  <2>2. b = q
    BY <1>9, <1>13, <1>14
  <2> QED BY <1>1, <1>9, <1>10, <1>12, <2>1, <2>2
<1>15. CASE s.reg.class # {}
  <2>1. s.reg.class # {"float"}
    <3>1. n \in 1..Len(t.leaves) /\ \A l \in (n + 1)..Len(t.leaves) : FALSE
      BY <1>1, <1>2
    <3> QED BY <1>7, <1>8, <1>15, <3>1, NoFloatsAlone
  <2>2. n \in 0..Len(t.leaves)
    BY <1>1, <1>2
  <2>3. Flush(s).ok /\ Len(Flush(s).out) = q + 1 /\ OutHolds(i, t, n, Flush(s).out)
    BY <1>7, <1>8, <1>15, <2>1, <2>2, FlushInStep
  <2>4. b = q + 1
    BY <1>9, <1>13, <1>15
  <2> QED BY <1>1, <1>10, <1>12, <2>3, <2>4
<1> QED BY <1>14, <1>15

\* It is counted as what it is.
LEMMA TidyCounts ==
  ASSUME NEW t \in Types, Tidy(t)
  PROVE  Eightbytes(t) \in 1..2 /\ CountStruct(t) = One("gp", Eightbytes(t))
<1>1. PICK n, out, c : n = Eightbytes(t) /\ out = PlaceStruct(0, t).out /\ c = CountStruct(t)
  OBVIOUS
<1>2. n \in 1..2
  <2>1. PICK z : z = t.size
    OBVIOUS
  <2>2. z \in 1..16 /\ n = (z + 7) \div 8
    BY <1>1, <2>1, TidyType DEF Eightbytes
  <2> QED BY <2>2
<1>3. out \in Seq(Outs) /\ Len(out) = n /\ \A k \in 1..Len(out) : out[k].kind = "gp"
  BY <1>1, PlaceStructType, TidyPlaced DEF OutHolds
<1>4. Adds(out, One("gp", n))
  BY <1>3, AddsAlike
<1>5. c \in Counts /\ Adds(out, c)
  BY <1>1, TidyPlaced, CountsWhatIsPlaced
<1>6. PICK r : r = [gp |-> <<>>, fp |-> <<>>, stack |-> <<>>, dropped |-> {}]
  OBVIOUS
<1>7. Holds(r, 0, 0)
  BY <1>6 DEF Holds, Filled, Loads, Gps, Fps, Slots, UpTo, Over
<1>8. PICK q : q = AddAll(r, out)
  OBVIOUS
<1>9. Holds(q, 0 + c.gp, 0 + c.fp) /\ c.gp \in Nat /\ c.fp \in Nat
  BY <1>5, <1>7, <1>8, AddAllHolds
<1>10. PICK m : m = One("gp", n)
  OBVIOUS
<1>11. m.gp = n /\ m.fp = 0
  BY <1>10 DEF One
<1>12. Holds(q, 0 + m.gp, 0 + m.fp)
  BY <1>4, <1>7, <1>8, <1>10, AddAllHolds
<1>13. PICK a, b : a = c.gp /\ b = c.fp
  OBVIOUS
<1>14. UpTo(a, 8) = UpTo(n, 8) /\ UpTo(b, 8) = UpTo(0, 8)
  <2>1. 0 + c.gp = a /\ 0 + c.fp = b /\ 0 + m.gp = n /\ 0 + m.fp = 0
    BY <1>2, <1>9, <1>11, <1>13
  <2>2. Holds(q, a, b) /\ Holds(q, n, 0)
    BY <1>9, <1>12, <2>1
  <2> QED BY <2>2 DEF Holds
<1>15. a = n /\ b = 0
  BY <1>2, <1>9, <1>13, <1>14 DEF UpTo
<1>16. c = One("gp", n)
  BY <1>5, <1>13, <1>15 DEF Counts, One
<1> QED BY <1>1, <1>2, <1>16
--------------------------------------------------------------------------------
(* Arguments that goffi passes as the ABI does.                             *)

\* out is what argument i is passed as: a word for each of its parts, all of one kind.
PassedAs(i, t, out) ==
  /\ out \in Seq(Outs) /\ Len(out) = RegNeed(t) /\ DOMAIN Parts(i, t) = 1..RegNeed(t)
  /\ \A k \in 1..RegNeed(t) :
       out[k].kind = RegKind(t) /\ Delivers(out[k].word, Parts(i, t)[k], t)
\* There are registers for all of it.
Room(r, t) == /\ RegKind(t) = "gp" => Gps(r) + RegNeed(t) <= 8
              /\ RegKind(t) = "fp" => Fps(r) + RegNeed(t) <= 8
\* Execute's cases, but for the boundary of variadic arguments.
PlaceOne(r, i, t) == IF IsStruct(t) THEN PlaceAggregate(r, i, t) ELSE PlaceScalar(r, i, t)
\* One word, which may go to the stack.
Single(t) == ~IsStruct(t) \/ ByReference(t)

LEMMA AddAllOfOne ==
  ASSUME NEW r \in Filled, NEW o \in Outs
  PROVE  <<o>> \in Seq(Outs) /\ Len(<<o>>) = 1 /\ <<o>>[1] = o /\ AddAll(r, <<o>>) = Add(r, o)
<1>1. <<>> \in Seq(Outs) /\ <<o>> = Append(<<>>, o)
  OBVIOUS
<1>2. AddAll(r, <<>>) = r
  BY AddAllOfNone
<1>3. AddAll(r, Append(<<>>, o)) = Add(AddAll(r, <<>>), o)
  BY <1>1, AddAllOfOneMore
<1> QED BY <1>1, <1>2, <1>3

LEMMA SinglePasses ==
  ASSUME NEW i \in Nat, NEW t \in Types, Single(t), ~Unknown(t) \/ ByReference(t)
  PROVE  /\ RegNeed(t) = 1
         /\ \E o \in Outs : /\ PassedAs(i, t, <<o>>)
                            /\ \A r \in Filled : PlaceOne(r, i, t) = AddAll(r, <<o>>)
<1>1. CASE ByReference(t)
  <2>1. PICK o : o = [kind |-> "gp", word |-> AddressOf(i)]
    OBVIOUS
  <2>2. o \in Outs /\ o.kind = "gp" /\ o.word = AddressOf(i)
    BY <2>1, WordsAreWords DEF Outs
  <2>3. RegKind(t) = "gp" /\ RegNeed(t) = 1 /\ IsStruct(t) /\ ~IsHFA(t) /\ t.size > 16
    BY <1>1, NeedType, HfaIsHFA DEF ByReference
  <2>4. DOMAIN Parts(i, t) = 1..1 /\ Parts(i, t)[1] = AddressOf(i)
    BY <1>1, PartsAre
  <2>5. Delivers(AddressOf(i), AddressOf(i), t)
    BY <2>4, PartsWhole
  <2>6. \A k \in 1..1 : k = 1
    OBVIOUS
  <2>7. <<o>> \in Seq(Outs) /\ Len(<<o>>) = 1 /\ <<o>>[1] = o
    BY <2>2
  <2>8. PassedAs(i, t, <<o>>)
    BY <2>2, <2>3, <2>4, <2>5, <2>6, <2>7 DEF PassedAs
  <2>9. ASSUME NEW r \in Filled PROVE PlaceOne(r, i, t) = AddAll(r, <<o>>)
    <3>1. AddAll(r, <<o>>) = Add(r, o)
      BY <2>2, AddAllOfOne
    <3>2. Add(r, o) = AddInt(r, AddressOf(i))
      BY <2>2 DEF Add
    <3>3. PlaceAggregate(r, i, t) = AddInt(r, AddressOf(i))
      <4>1. t.size \in Nat /\ ~(t.size <= 16)
        BY <2>3, LeavesType
      <4> QED BY <2>3, <4>1 DEF PlaceAggregate
    <3> QED BY <2>3, <3>1, <3>2, <3>3 DEF PlaceOne
  <2> QED BY <2>2, <2>3, <2>8, <2>9
<1>2. CASE ~ByReference(t)
  <2>1. ~IsStruct(t) /\ ~Unknown(t)
    BY <1>2 DEF Single
  <2>2. PICK w, o : w = Bytes(i, 0, t.size) /\ o = [kind |-> RegKind(t), word |-> w]
    OBVIOUS
  <2>3. t.size \in Sizes /\ t.size \in Nat /\ Eightbytes(t) = 1
    BY <2>1, ScalarType DEF Sizes
  <2>4. ~Hfa(t) /\ ~IsHFA(t)
    BY <2>1 DEF Hfa, IsHFA
  <2>5. RegKind(t) = (IF IsFloat(t) THEN "fp" ELSE "gp") /\ RegNeed(t) = 1
    BY <1>2, <2>3, <2>4, NeedType
  <2>6. o \in Outs /\ o.kind = RegKind(t) /\ o.word = w
    BY <2>2, <2>3, <2>5, WordsAreWords DEF Outs
  <2>7. DOMAIN Parts(i, t) = 1..1 /\ Parts(i, t)[1] = w
    <3>1. PICK z : z = t.size
      OBVIOUS
    <3>2. Left(t, 0) = z
      BY <2>3, <3>1 DEF Left, Sizes
    <3>3. 8 * (1 - 1) = 0 /\ 1 - 1 = 0 /\ 1 \in 1..1
      OBVIOUS
    <3>4. DOMAIN Parts(i, t) = 1..Eightbytes(t)
          /\ \A j \in 1..Eightbytes(t) : Parts(i, t)[j] = Bytes(i, 8 * (j - 1), Left(t, j - 1))
      BY <1>2, <2>4, PartsAre
    <3>5. Parts(i, t)[1] = Bytes(i, 8 * (1 - 1), Left(t, 1 - 1))
      BY <2>3, <3>3, <3>4
    <3> QED BY <2>2, <2>3, <3>1, <3>2, <3>3, <3>4, <3>5
  <2>8. Delivers(w, w, t)
    BY <2>7, PartsWhole
  <2>9. \A k \in 1..1 : k = 1
    OBVIOUS
  <2>10. <<o>> \in Seq(Outs) /\ Len(<<o>>) = 1 /\ <<o>>[1] = o
    BY <2>6
  <2>11. PassedAs(i, t, <<o>>)
    BY <2>5, <2>6, <2>7, <2>8, <2>9, <2>10 DEF PassedAs
  <2>12. ASSUME NEW r \in Filled PROVE PlaceOne(r, i, t) = AddAll(r, <<o>>)
    <3>1. AddAll(r, <<o>>) = Add(r, o)
      BY <2>6, AddAllOfOne
    <3>2. PlaceScalar(r, i, t) = IF IsFloat(t) THEN AddFloat(r, w) ELSE AddInt(r, w)
      BY <2>1, <2>2 DEF PlaceScalar
    <3>3. Add(r, o) = IF IsFloat(t) THEN AddFloat(r, w) ELSE AddInt(r, w)
      BY <2>5, <2>6 DEF Add
    <3> QED BY <2>1, <3>1, <3>2, <3>3 DEF PlaceOne
  <2> QED BY <2>5, <2>6, <2>11, <2>12
<1> QED BY <1>1, <1>2

LEMMA FloatsPass ==
  ASSUME NEW i \in Nat, NEW t \in Types, IsHFA(t)
  PROVE  \E out : /\ PassedAs(i, t, out)
                  /\ \A r \in Filled : Room(r, t) => PlaceOne(r, i, t) = AddAll(r, out)
<1>1. PICK n, out : n = Len(t.leaves) /\ out = PlaceStruct(i, t).out
  OBVIOUS
<1>2. Hfa(t) /\ IsStruct(t) /\ n \in 1..4
  BY <1>1, HfaIsHFA, HfaType
<1>3. RegKind(t) = "fp" /\ RegNeed(t) = n
  BY <1>1, <1>2, NeedType
<1>4. PlaceStruct(i, t).ok /\ Len(out) = n /\ \A k \in 1..n : out[k] = HfaWord(i, t, k)
  BY <1>1, PlaceFloats
<1>5. out \in Seq(Outs)
  BY <1>1, PlaceStructType
<1>6. DOMAIN Parts(i, t) = 1..n
      /\ \A k \in 1..n : Parts(i, t)[k] = Bytes(i, t.leaves[k].off, t.leaves[k].size)
  BY <1>1, PartsAre
<1>7. ASSUME NEW k \in 1..n PROVE out[k].kind = "fp" /\ Delivers(out[k].word, Parts(i, t)[k], t)
  <2>1. out[k].kind = "fp" /\ out[k].word = Parts(i, t)[k]
    BY <1>4, <1>6 DEF HfaWord
  <2>2. Delivers(Parts(i, t)[k], Parts(i, t)[k], t)
    BY <1>6, PartsWhole
  <2> QED BY <2>1, <2>2
<1>8. PassedAs(i, t, out)
  BY <1>3, <1>4, <1>5, <1>6, <1>7 DEF PassedAs
<1>9. ASSUME NEW r \in Filled, Room(r, t) PROVE PlaceOne(r, i, t) = AddAll(r, out)
  <2>1. Len(r.fp) + Len(t.leaves) <= 8 /\ ~(Len(r.fp) + Len(t.leaves) > 8)
    <3>1. PICK f, m : f = Len(r.fp) /\ m = Len(t.leaves)
      OBVIOUS
    <3>2. Fps(r) = f /\ Fps(r) \in Nat /\ m = n
      BY <1>1, <3>1, FilledType DEF Fps
    <3>3. Fps(r) + RegNeed(t) <= 8
      BY <1>3, <1>9 DEF Room
    <3>4. f + m <= 8 /\ ~(f + m > 8)
      <4>1. f \in Nat /\ n \in Nat /\ f + n <= 8
        BY <1>2, <1>3, <3>2, <3>3
      <4> QED BY <3>2, <4>1
    <3> QED BY <3>1, <3>4
  <2>2. PlaceAggregate(r, i, t) = PlaceInRegs(r, i, t)
    BY <2>1 DEF PlaceAggregate
  <2>3. PlaceInRegs(r, i, t) = LET end == AddAll(r, PlaceStruct(i, t).out)
                               IN  IF PlaceStruct(i, t).ok THEN end
                                   ELSE AddInt(end, AddressOf(i))
    BY PlaceInRegsFilled
  <2>4. PlaceInRegs(r, i, t) = AddAll(r, out)
    BY <1>1, <1>4, <2>3
  <2> QED BY <1>2, <2>2, <2>4 DEF PlaceOne
<1> QED BY <1>8, <1>9

LEMMA TidyPasses ==
  ASSUME NEW i \in Nat, NEW t \in Types, Tidy(t)
  PROVE  \E out : /\ PassedAs(i, t, out)
                  /\ \A r \in Filled : Room(r, t) => PlaceOne(r, i, t) = AddAll(r, out)
<1>1. PICK n, m, out : n = Eightbytes(t) /\ m = Len(t.leaves) /\ out = PlaceStruct(i, t).out
  OBVIOUS
<1>2. /\ IsStruct(t) /\ ~IsHFA(t) /\ ~Hfa(t) /\ ~ByReference(t) /\ t.size \in 1..16
      /\ n \in 1..2 /\ CountStruct(t) = One("gp", n)
  BY <1>1, TidyType, HfaIsHFA, TidyCounts
<1>3. RegKind(t) = "gp" /\ RegNeed(t) = n
  BY <1>1, <1>2, NeedType DEF IsFloat, IsStruct
<1>4. PlaceStruct(i, t).ok /\ Len(out) = n /\ OutHolds(i, t, m, out)
  BY <1>1, TidyPlaced
<1>5. out \in Seq(Outs)
  BY <1>1, PlaceStructType
<1>6. DOMAIN Parts(i, t) = 1..n
      /\ \A k \in 1..n : Parts(i, t)[k] = Bytes(i, 8 * (k - 1), Left(t, k - 1))
  BY <1>1, <1>2, PartsAre
<1>7. DOMAIN t.leaves = 1..m
  BY <1>1, LeavesType
<1>8. ASSUME NEW k \in 1..n PROVE out[k].kind = "gp" /\ Delivers(out[k].word, Parts(i, t)[k], t)
  <2>1. PICK w, p : w = out[k].word /\ p = Parts(i, t)[k]
    OBVIOUS
  <2>2. out[k].kind = "gp" /\ Holding(i, t, m, k, w)
    BY <1>4, <2>1 DEF OutHolds
  <2>3. p.is = "bytes" /\ p.arg = i /\ p.off = 8 * (k - 1) /\ p.len = Left(t, k - 1)
    BY <1>6, <2>1 DEF Bytes
  <2>4. p.len \in Int /\ p.len <= 8
    <3>1. PICK z, y : z = t.size /\ y = k - 1
      OBVIOUS
    <3>2. z \in Int /\ y \in Int
      BY <1>2, <3>1
    <3> QED BY <2>3, <3>1, <3>2 DEF Left
  <2>5. w.is = p.is /\ w.arg = p.arg /\ w.off = p.off
    BY <2>2, <2>3 DEF Holding
  <2>6. ASSUME NEW j \in 1..m, t.leaves[j].off \in p.off..(p.off + p.len - 1)
        PROVE  LeafEnd(t, j) <= w.off + w.len
    <3>1. PICK a, b, c : a = p.off /\ b = p.len /\ c = t.leaves[j].off
      OBVIOUS
    <3>2. a \in Int /\ b \in Int /\ b <= 8 /\ c \in a..(a + b - 1)
      BY <1>2, <2>3, <2>4, <2>6, <3>1
    <3>3. c \in a..(a + 7)
      BY <3>2
    <3>4. t.leaves[j].off \in (8 * (k - 1))..(8 * (k - 1) + 7)
      BY <2>3, <3>1, <3>3
    <3>5. Ends(t, j) <= 8 * (k - 1) + w.len
      BY <2>2, <3>4 DEF Holding
    <3>6. Ends(t, j) = LeafEnd(t, j)
      BY DEF Ends
    <3> QED BY <2>3, <2>5, <3>5, <3>6
  <2>7. Delivers(w, p, t)
    BY <1>7, <2>5, <2>6 DEF Delivers
  <2> QED BY <2>1, <2>2, <2>7
<1>9. PassedAs(i, t, out)
  BY <1>3, <1>4, <1>5, <1>6, <1>8 DEF PassedAs
<1>10. ASSUME NEW r \in Filled, Room(r, t) PROVE PlaceOne(r, i, t) = AddAll(r, out)
  <2>1. PICK g, f : g = Len(r.gp) /\ f = Len(r.fp)
    OBVIOUS
  <2>2. g \in Nat /\ g + n <= 8 /\ f \in Nat /\ f <= 8
    BY <1>3, <1>10, <2>1, FilledType DEF Room, Gps, Fps
  <2>3. CountStruct(t).gp = n /\ CountStruct(t).fp = 0
    BY <1>2 DEF One
  <2>4. Len(r.gp) + CountStruct(t).gp <= 8 /\ Len(r.fp) + CountStruct(t).fp <= 8
    BY <2>1, <2>2, <2>3
  <2>5. t.size <= 16
    BY <1>2
  <2>6. PlaceAggregate(r, i, t) = PlaceInRegs(r, i, t)
    BY <1>2, <2>4, <2>5 DEF PlaceAggregate
  <2>7. PlaceInRegs(r, i, t) = LET end == AddAll(r, PlaceStruct(i, t).out)
                               IN  IF PlaceStruct(i, t).ok THEN end
                                   ELSE AddInt(end, AddressOf(i))
    BY PlaceInRegsFilled
  <2>8. PlaceInRegs(r, i, t) = AddAll(r, out)
    BY <1>1, <1>4, <2>7
  <2> QED BY <1>2, <2>6, <2>8 DEF PlaceOne
<1> QED BY <1>9, <1>10

\* The types goffi passes as the ABI does.
LEMMA Alikes ==
  ASSUME NEW t \in Types, ~Unlike(t)
  PROVE  /\ \/ Single(t) /\ (~Unknown(t) \/ ByReference(t))
            \/ IsHFA(t) /\ ~Single(t)
            \/ Tidy(t) /\ ~Single(t)
         /\ RegKind(t) \in {"gp", "fp"} /\ RegNeed(t) \in 1..4
         /\ Classify(t) = One(RegKind(t), RegNeed(t))
<1>1. /\ ByReference(t) \/ \A j \in DOMAIN t.leaves : ~Unknown(t.leaves[j])
      /\ ~FloatsApart(t) /\ ~Lags(t)
  BY DEF Unlike
<1>2. t.size \in Nat
  BY LeavesType
<1>3. CASE ByReference(t)
  <2>1. IsStruct(t) /\ ~IsHFA(t) /\ t.size > 16 /\ RegKind(t) = "gp" /\ RegNeed(t) = 1
    BY <1>3, NeedType, HfaIsHFA DEF ByReference
  <2>2. Classify(t) = One("gp", 1)
    BY <2>1, ClassifyType
  <2> QED BY <1>3, <2>1, <2>2 DEF Single
<1>4. CASE ~IsStruct(t)
  <2>1. Len(t.leaves) = 1 /\ t.leaves[1] = Leaf(t.kind, 0, t.size) /\ DOMAIN t.leaves = 1..1
    BY <1>4, ScalarType, LeavesType
  <2>2. ~ByReference(t) /\ ~Hfa(t)
    BY <1>4 DEF ByReference, Hfa
  <2>3. ~Unknown(t.leaves[1]) /\ t.leaves[1].kind = t.kind
    BY <1>1, <2>1, <2>2 DEF Leaf
  <2>4. ~Unknown(t)
    BY <2>3 DEF Unknown
  <2>5. RegKind(t) = (IF IsFloat(t) THEN "fp" ELSE "gp") /\ RegNeed(t) = 1
    BY <1>4, <2>2, NeedType, ScalarType
  <2>6. Classify(t) = IF IsFloat(t) THEN One("fp", 1) ELSE One("gp", 1)
    BY <1>4, ClassifyType
  <2> QED BY <1>4, <2>4, <2>5, <2>6 DEF Single
<1>5. CASE IsHFA(t)
  <2>1. IsStruct(t) /\ Len(t.leaves) \in 1..4 /\ Hfa(t) /\ ~ByReference(t)
    BY <1>5, HfaType, HfaIsHFA DEF ByReference
  <2>2. RegKind(t) = "fp" /\ RegNeed(t) = Len(t.leaves)
    BY <2>1, NeedType
  <2>3. Classify(t) = One("fp", Len(t.leaves))
    BY <1>5, ClassifyType
  <2> QED BY <1>5, <2>1, <2>2, <2>3 DEF Single
<1>6. CASE IsStruct(t) /\ ~IsHFA(t) /\ ~ByReference(t)
  <2>1. ~Hfa(t) /\ t.size <= 16
    BY <1>2, <1>6, HfaIsHFA DEF ByReference
  <2>2. Tidy(t)
    BY <1>1, <1>6, <2>1 DEF Tidy, Small
  <2>3. Eightbytes(t) \in 1..2 /\ CountStruct(t) = One("gp", Eightbytes(t))
    BY <2>2, TidyCounts
  <2>4. RegKind(t) = "gp" /\ RegNeed(t) = Eightbytes(t)
    BY <1>6, <2>1, NeedType DEF IsFloat, IsStruct
  <2>5. Classify(t) = CountStruct(t)
    BY <1>2, <1>6, <2>1, ClassifyType
  <2> QED BY <1>6, <2>2, <2>3, <2>4, <2>5 DEF Single
<1> QED BY <1>3, <1>4, <1>5, <1>6
--------------------------------------------------------------------------------
(* What was placed stays where it is.                                       *)

Extends(r, q) ==
  /\ \A k \in 1..Gps(r) : k \in 1..Gps(q) /\ q.gp[k] = r.gp[k]
  /\ \A k \in 1..Fps(r) : k \in 1..Fps(q) /\ q.fp[k] = r.fp[k]
  /\ \A k \in 1..Slots(r) : k \in 1..Slots(q) /\ q.stack[k] = r.stack[k]
  /\ r.dropped \subseteq q.dropped

LEMMA ExtendsOn ==
  ASSUME NEW r, NEW q, NEW p, Extends(r, q), Extends(q, p)
  PROVE  Extends(r, p)
  BY DEF Extends

LEMMA AddedExtends ==
  ASSUME NEW r \in Filled, NEW q, NEW kind, NEW w \in Word, AddedTo(r, q, kind, w)
  PROVE  q \in Filled /\ Extends(r, q)
<1>1. q \in Filled
  BY DEF AddedTo
<1>2. /\ r.gp \in Seq(Word) /\ r.fp \in Seq(Word) /\ r.stack \in Seq(Word)
      /\ Gps(r) \in Nat /\ Fps(r) \in Nat /\ Slots(r) \in Nat
  BY FilledType
<1>3. r.gp = q.gp \/ q.gp = Append(r.gp, w)
  BY DEF AddedTo, Stacked
<1>4. r.fp = q.fp \/ q.fp = Append(r.fp, w)
  BY DEF AddedTo, Stacked
<1>5. r.stack = q.stack \/ q.stack = Append(r.stack, w)
  BY DEF AddedTo, Stacked
<1>6. r.dropped \subseteq q.dropped
  BY DEF AddedTo, Stacked
<1>7. ASSUME NEW s \in Seq(Word), NEW z, z = s \/ z = Append(s, w), NEW k \in 1..Len(s)
      PROVE  k \in 1..Len(z) /\ z[k] = s[k]
  <2>1. CASE z = s
    BY <2>1
  <2>2. CASE z = Append(s, w)
    <3>1. Len(z) = Len(s) + 1 /\ z[k] = s[k]
      BY <2>2, AppendWord
    <3>2. PICK n : n = Len(s)
      OBVIOUS
    <3>3. n \in Nat /\ k \in 1..n
      BY <3>2
    <3> QED BY <3>1, <3>2, <3>3
  <2> QED BY <1>7, <2>1, <2>2
<1>8. \A k \in 1..Gps(r) : k \in 1..Gps(q) /\ q.gp[k] = r.gp[k]
  BY <1>2, <1>3, <1>7 DEF Gps
<1>9. \A k \in 1..Fps(r) : k \in 1..Fps(q) /\ q.fp[k] = r.fp[k]
  BY <1>2, <1>4, <1>7 DEF Fps
<1>10. \A k \in 1..Slots(r) : k \in 1..Slots(q) /\ q.stack[k] = r.stack[k]
  BY <1>2, <1>5, <1>7 DEF Slots
<1> QED BY <1>1, <1>6, <1>8, <1>9, <1>10 DEF Extends

LEMMA AddAllExtends ==
  ASSUME NEW r \in Filled, NEW out \in Seq(Outs)
  PROVE  AddAll(r, out) \in Filled /\ Extends(r, AddAll(r, out))
<1>1. PICK n : n = Len(out)
  OBVIOUS
<1>2. n \in Nat /\ \A j \in 1..n : out[j] \in Outs /\ out[j].word \in Word
  <2>1. n \in Nat /\ \A j \in 1..n : out[j] \in Outs
    BY <1>1, ElementOfSeq
  <2>2. \A o \in Outs : o.word \in Word
    BY DEF Outs
  <2> QED BY <2>1, <2>2
<1> DEFINE S == {j \in 0..n : Extends(r, Added(r, out)[j])}
<1>3. 0 \in S
  <2>1. Extends(r, r)
    BY DEF Extends
  <2> QED BY <1>2, <2>1, AddedUnfolds
<1>4. ASSUME NEW j \in 1..n, j - 1 \in S PROVE j \in S
  <2>1. PICK q, o : q = Added(r, out)[j - 1] /\ o = out[j]
    OBVIOUS
  <2>2. q \in Filled /\ Extends(r, q)
    BY <1>1, <1>2, <1>4, <2>1, AddedFilled
  <2>3. o \in Outs /\ o.word \in Word
    BY <1>2, <2>1
  <2>4. Added(r, out)[j] = Add(q, o)
    BY <1>1, <2>1, AddedUnfolds
  <2>5. AddedTo(q, Add(q, o), o.kind, o.word)
    BY <2>2, <2>3, AddOne
  <2>6. Extends(q, Add(q, o))
    BY <2>2, <2>3, <2>5, AddedExtends
  <2>7. Extends(r, Add(q, o))
    BY <2>2, <2>6, ExtendsOn
  <2> QED BY <1>2, <2>4, <2>7
<1> HIDE DEF S
<1>5. \A j \in 0..n : j \in S
  BY <1>2, <1>3, <1>4, UpToN
<1>6. n \in 0..n
  BY <1>2
<1>7. Extends(r, Added(r, out)[n])
  BY <1>5, <1>6 DEF S
<1>8. Added(r, out)[n] \in Filled
  BY <1>1, <1>6, AddedFilled
<1> QED BY <1>1, <1>7, <1>8 DEF AddAll

LEMMA ExhaustExtends ==
  ASSUME NEW r \in Filled
  PROVE  Extends(r, Exhaust(r))
<1>1. PICK q : q = Exhaust(r)
  OBVIOUS
<1>2. /\ q \in Filled /\ Gps(q) = 8 /\ Fps(q) = 8 /\ q.stack = r.stack /\ q.dropped = r.dropped
      /\ \A k \in 1..Gps(r) : q.gp[k] = r.gp[k]
      /\ \A k \in 1..Fps(r) : q.fp[k] = r.fp[k]
  BY <1>1, ExhaustFilled
<1>3. PICK g, f : g = Gps(r) /\ f = Fps(r)
  OBVIOUS
<1>4. g \in Nat /\ g <= 8 /\ f \in Nat /\ f <= 8
  BY <1>3, FilledType
<1>5. \A k \in 1..g : k \in 1..Gps(q)
  BY <1>2, <1>4
<1>6. \A k \in 1..f : k \in 1..Fps(q)
  BY <1>2, <1>4
<1> QED BY <1>1, <1>2, <1>3, <1>5, <1>6 DEF Extends, Slots

\* What was dropped stays dropped.
LEMMA DroppedStays ==
  ASSUME NEW r \in Filled, NEW i \in Nat, NEW t \in Types
  PROVE  r.dropped \subseteq PlaceArg(r, i, t).dropped
<1>1. PICK q : q = IF AtBoundary(i) THEN Exhaust(r) ELSE r
  OBVIOUS
<1>2. q \in Filled /\ q.dropped = r.dropped
  BY <1>1, ExhaustFilled
<1>3. ASSUME NEW p \in Filled, NEW w \in Word
      PROVE  p.dropped \subseteq AddInt(p, w).dropped /\ p.dropped \subseteq AddFloat(p, w).dropped
  BY AddIntAdds, AddFloatAdds, AddedExtends DEF Extends
<1>4. AddressOf(i) \in Word
  BY WordsAreWords
<1>5. q.dropped \subseteq PlaceScalar(q, i, t).dropped
  <2>1. t.size \in Nat
    BY LeavesType
  <2>2. Bytes(i, 0, t.size) \in Word
    BY <2>1, WordsAreWords
  <2> QED BY <1>2, <1>3, <1>4, <2>2 DEF PlaceScalar
<1>6. q.dropped \subseteq PlaceInRegs(q, i, t).dropped
  <2>1. PICK out, end : out = PlaceStruct(i, t).out /\ end = AddAll(q, out)
    OBVIOUS
  <2>2. out \in Seq(Outs)
    BY <2>1, PlaceStructType
  <2>3. end \in Filled /\ q.dropped \subseteq end.dropped
    BY <1>2, <2>1, <2>2, AddAllExtends DEF Extends
  <2>4. end.dropped \subseteq AddInt(end, AddressOf(i)).dropped
    BY <1>3, <1>4, <2>3
  <2>5. PlaceInRegs(q, i, t) = LET e == AddAll(q, PlaceStruct(i, t).out)
                               IN  IF PlaceStruct(i, t).ok THEN e
                                   ELSE AddInt(e, AddressOf(i))
    BY <1>2, PlaceInRegsFilled
  <2>6. PlaceInRegs(q, i, t) = end \/ PlaceInRegs(q, i, t) = AddInt(end, AddressOf(i))
    BY <2>1, <2>5
  <2> QED BY <2>3, <2>4, <2>6
<1>7. q.dropped \subseteq SpillHFA(q, i, t).dropped
  BY <1>2, SpillFilled
<1>8. q.dropped \subseteq PlaceAggregate(q, i, t).dropped
  <2>1. q.dropped \subseteq AddInt(q, AddressOf(i)).dropped
    BY <1>2, <1>3, <1>4
  <2> QED BY <1>6, <1>7, <2>1 DEF PlaceAggregate
<1>9. PlaceArg(r, i, t) = PlaceAggregate(q, i, t) \/ PlaceArg(r, i, t) = PlaceScalar(q, i, t)
  BY <1>1 DEF PlaceArg
<1> QED BY <1>2, <1>5, <1>8, <1>9

\* Words for registers of one kind, of which there are enough.
Goes(r, q, out, kind, j) ==
  /\ q \in Filled /\ q.stack = r.stack /\ q.dropped = r.dropped
  /\ \/ /\ kind = "gp" /\ Gps(q) = Gps(r) + j /\ q.fp = r.fp
        /\ \A k \in 1..j : q.gp[Gps(r) + k] = out[k].word
     \/ /\ kind = "fp" /\ Fps(q) = Fps(r) + j /\ q.gp = r.gp
        /\ \A k \in 1..j : q.fp[Fps(r) + k] = out[k].word

LEMMA AddedGoes ==
  ASSUME NEW r \in Filled, NEW q, NEW out \in Seq(Outs), NEW kind, NEW j \in 1..Len(out),
         Goes(r, q, out, kind, j - 1), out[j].kind = kind,
         kind = "gp" => Gps(r) + Len(out) <= 8, kind = "fp" => Fps(r) + Len(out) <= 8
  PROVE  Goes(r, Add(q, out[j]), out, kind, j)
<1>1. PICK p, o, w : p = Add(q, out[j]) /\ o = out[j] /\ w = o.word
  OBVIOUS
<1>2. q \in Filled /\ o \in Outs /\ w \in Word /\ o.kind = kind
  <2>1. o \in Outs
    BY <1>1, ElementOfSeq
  <2> QED BY <1>1, <2>1 DEF Goes, Outs
<1>3. AddedTo(q, p, kind, w)
  BY <1>1, <1>2, AddOne
<1>4. PICK n, g, f, g2, f2 : n = Len(out) /\ g = Gps(r) /\ f = Fps(r) /\ g2 = Gps(q) /\ f2 = Fps(q)
  OBVIOUS
<1>5. n \in Nat /\ j \in 1..n /\ g \in Nat /\ f \in Nat /\ g2 \in Nat /\ f2 \in Nat
  <2>1. n \in Nat /\ j \in 1..n
    BY <1>4
  <2>2. g \in Nat /\ f \in Nat /\ g2 \in Nat /\ f2 \in Nat
    BY <1>2, <1>4, FilledType
  <2> QED BY <2>1, <2>2
<1>6. CASE kind = "gp"
  <2>1. /\ g2 = g + (j - 1) /\ q.fp = r.fp /\ q.stack = r.stack /\ q.dropped = r.dropped
        /\ \A k \in 1..(j - 1) : q.gp[g + k] = out[k].word
    BY <1>4, <1>6 DEF Goes
  <2>2. g2 < 8
    BY <1>4, <1>5, <1>6, <2>1
  <2>3. /\ p \in Filled /\ Gps(p) = g2 + 1 /\ p.gp = Append(q.gp, w) /\ p.fp = q.fp
        /\ p.stack = q.stack /\ p.dropped = q.dropped
    BY <1>3, <1>4, <1>6, <2>2 DEF AddedTo
  <2>4. q.gp \in Seq(Word) /\ Len(q.gp) = g2
    BY <1>2, <1>4, FilledType DEF Gps
  <2>5. p.gp[g2 + 1] = w /\ \A k \in 1..g2 : p.gp[k] = q.gp[k]
    BY <1>2, <2>3, <2>4, AppendWord
  <2>6. ASSUME NEW k \in 1..j PROVE p.gp[g + k] = out[k].word
    <3>1. CASE k = j
      <4>1. g + k = g2 + 1
        BY <1>5, <2>1, <3>1
      <4> QED BY <1>1, <2>5, <3>1, <4>1
    <3>2. CASE k # j
      <4>1. k \in 1..(j - 1) /\ g + k \in 1..g2
        BY <1>5, <2>1, <3>2
      <4> QED BY <2>1, <2>5, <4>1
    <3> QED BY <3>1, <3>2
  <2>7. Gps(p) = g + j
    BY <1>5, <2>1, <2>3
  <2> QED BY <1>1, <1>4, <1>6, <2>1, <2>3, <2>6, <2>7 DEF Goes
<1>7. CASE kind = "fp"
  <2>1. /\ f2 = f + (j - 1) /\ q.gp = r.gp /\ q.stack = r.stack /\ q.dropped = r.dropped
        /\ \A k \in 1..(j - 1) : q.fp[f + k] = out[k].word
    BY <1>4, <1>7 DEF Goes
  <2>2. f2 < 8
    BY <1>4, <1>5, <1>7, <2>1
  <2>3. /\ p \in Filled /\ Fps(p) = f2 + 1 /\ p.fp = Append(q.fp, w) /\ p.gp = q.gp
        /\ p.stack = q.stack /\ p.dropped = q.dropped
    BY <1>3, <1>4, <1>7, <2>2 DEF AddedTo
  <2>4. q.fp \in Seq(Word) /\ Len(q.fp) = f2
    BY <1>2, <1>4, FilledType DEF Fps
  <2>5. p.fp[f2 + 1] = w /\ \A k \in 1..f2 : p.fp[k] = q.fp[k]
    BY <1>2, <2>3, <2>4, AppendWord
  <2>6. ASSUME NEW k \in 1..j PROVE p.fp[f + k] = out[k].word
    <3>1. CASE k = j
      <4>1. f + k = f2 + 1
        BY <1>5, <2>1, <3>1
      <4> QED BY <1>1, <2>5, <3>1, <4>1
    <3>2. CASE k # j
      <4>1. k \in 1..(j - 1) /\ f + k \in 1..f2
        BY <1>5, <2>1, <3>2
      <4> QED BY <2>1, <2>5, <4>1
    <3> QED BY <3>1, <3>2
  <2>7. Fps(p) = f + j
    BY <1>5, <2>1, <2>3
  <2> QED BY <1>1, <1>4, <1>7, <2>1, <2>3, <2>6, <2>7 DEF Goes
<1> QED BY <1>6, <1>7 DEF Goes

LEMMA AllGo ==
  ASSUME NEW r \in Filled, NEW out \in Seq(Outs), NEW kind \in {"gp", "fp"},
         \A k \in 1..Len(out) : out[k].kind = kind,
         kind = "gp" => Gps(r) + Len(out) <= 8, kind = "fp" => Fps(r) + Len(out) <= 8
  PROVE  Goes(r, AddAll(r, out), out, kind, Len(out))
<1>1. PICK n : n = Len(out)
  OBVIOUS
<1>2. n \in Nat /\ n \in 0..n
  BY <1>1
<1> DEFINE S == {j \in 0..n : Goes(r, Added(r, out)[j], out, kind, j)}
<1>3. 0 \in S
  <2>1. Gps(r) \in Nat /\ Fps(r) \in Nat
    BY FilledType
  <2>2. Gps(r) = Gps(r) + 0 /\ Fps(r) = Fps(r) + 0
    BY <2>1
  <2>3. Goes(r, r, out, kind, 0)
    BY <2>2 DEF Goes
  <2> QED BY <1>2, <2>3, AddedUnfolds
<1>4. ASSUME NEW j \in 1..n, j - 1 \in S PROVE j \in S
  <2>1. PICK q : q = Added(r, out)[j - 1]
    OBVIOUS
  <2>2. Goes(r, q, out, kind, j - 1)
    BY <1>4, <2>1
  <2>3. j \in 1..Len(out) /\ j \in 0..n
    BY <1>1, <1>2
  <2>4. Added(r, out)[j] = Add(q, out[j])
    BY <2>1, <2>3, AddedUnfolds
  <2>5. Goes(r, Add(q, out[j]), out, kind, j)
    BY <2>2, <2>3, AddedGoes
  <2> QED BY <2>3, <2>4, <2>5
<1> HIDE DEF S
<1>5. \A j \in 0..n : j \in S
  BY <1>2, <1>3, <1>4, UpToN
<1>6. Goes(r, Added(r, out)[n], out, kind, n)
  BY <1>2, <1>5 DEF S
<1> QED BY <1>1, <1>6 DEF AddAll

\* One word for which there is no register.
LEMMA OneStacks ==
  ASSUME NEW r \in Filled, NEW o \in Outs, o.kind = "gp" => Gps(r) = 8, o.kind = "fp" => Fps(r) = 8
  PROVE  Stacked(r, Add(r, o), o.word)
<1>1. AddedTo(r, Add(r, o), o.kind, o.word)
  BY AddOne
<1>2. o.kind \in {"gp", "fp"}
  BY DEF Outs
<1> QED BY <1>1, <1>2 DEF AddedTo
--------------------------------------------------------------------------------
(* Where the ABI looks for arguments, and what goffi put there.             *)

\* The word a load of registers and slots has at a place.
Found(r, kind, n) ==
  CASE kind = "gp"                    -> IF n \in 1..Gps(r) THEN r.gp[n] ELSE Unset
    [] kind = "fp"                    -> IF n \in 1..Fps(r) THEN r.fp[n] ELSE Unset
    [] kind = "stack" /\ n % 8 # 0    -> Unset
    [] kind = "stack" /\ n % 8 = 0    ->
         IF n \div 8 + 1 \in 1..Slots(r) THEN r.stack[n \div 8 + 1] ELSE Unset

LEMMA AtIsFound ==
  ASSUME TypeInv, NEW kind \in {"gp", "fp", "stack"}, NEW n \in Nat
  PROVE  At(<<kind, n>>) = Found(Load, kind, n)
<1>1. /\ regs.gp \in Seq(Word) /\ regs.fp \in Seq(Word) /\ regs.stack \in Seq(Word)
      /\ Load.gp = regs.gp /\ Load.fp = regs.fp /\ Load.stack = regs.stack
  BY LoadType DEF TypeInv, TypeOK, CallTypeOK
<1>2. /\ DOMAIN regs.gp = 1..Gps(Load) /\ DOMAIN regs.fp = 1..Fps(Load)
      /\ DOMAIN regs.stack = 1..Slots(Load)
  BY <1>1 DEF Gps, Fps, Slots
<1>3. PICK at : at = <<kind, n>>
  OBVIOUS
<1>4. at[1] = kind /\ at[2] = n
  BY <1>3
<1>5. CASE kind = "gp"
  <2>1. At(at) = IF n \in DOMAIN regs.gp THEN regs.gp[n] ELSE Unset
    BY <1>4, <1>5 DEF At
  <2> QED BY <1>1, <1>2, <1>3, <1>5, <2>1 DEF Found
<1>6. CASE kind = "fp"
  <2>1. At(at) = IF n \in DOMAIN regs.fp THEN regs.fp[n] ELSE Unset
    BY <1>4, <1>6 DEF At
  <2> QED BY <1>1, <1>2, <1>3, <1>6, <2>1 DEF Found
<1>7. CASE kind = "stack" /\ n % 8 # 0
  BY <1>3, <1>4, <1>7 DEF At, Found
<1>8. CASE kind = "stack" /\ n % 8 = 0
  <2>1. At(at) = IF n \div 8 + 1 \in DOMAIN regs.stack THEN regs.stack[n \div 8 + 1] ELSE Unset
    BY <1>4, <1>8 DEF At
  <2> QED BY <1>1, <1>2, <1>3, <1>8, <2>1 DEF Found
<1> QED BY <1>5, <1>6, <1>7, <1>8

LEMMA FoundStays ==
  ASSUME NEW r, NEW q, Extends(r, q), NEW kind \in {"gp", "fp", "stack"}, NEW n \in Nat,
         Found(r, kind, n) # Unset
  PROVE  Found(q, kind, n) = Found(r, kind, n)
  BY DEF Extends, Found

LEMMA PlacedIs ==
  ASSUME NEW o, NEW s \in Interface, NEW i \in 1..Len(s.args)
  PROVE  LET t == s.args[i]
             u == Used(o, s)[i]
         IN  /\ DOMAIN Placed(o, s, i) = DOMAIN Parts(i, t)
             /\ \A j \in DOMAIN Parts(i, t) :
                  /\ Placed(o, s, i)[j].word = Parts(i, t)[j]
                  /\ Fits(o, s, i, u) =>
                       Placed(o, s, i)[j].at = <<RegKind(t), u[RegKind(t)] + j>>
                  /\ ~Fits(o, s, i, u) =>
                       Placed(o, s, i)[j].at = <<"stack", StackStart(o, s, i, u) + Parts(i, t)[j].off>>
<1>1. PICK t, u, parts : t = s.args[i] /\ u = Used(o, s)[i] /\ parts = Parts(i, t)
  OBVIOUS
<1>2. CASE Fits(o, s, i, u)
  <2>1. Placed(o, s, i) = [j \in DOMAIN parts |->
                             [at |-> <<RegKind(t), u[RegKind(t)] + j>>, word |-> parts[j]]]
    BY <1>1, <1>2 DEF Placed
  <2> QED BY <1>1, <1>2, <2>1
<1>3. CASE ~Fits(o, s, i, u)
  <2>1. Placed(o, s, i) = [j \in DOMAIN parts |->
                             [at |-> <<"stack", StackStart(o, s, i, u) + parts[j].off>>,
                              word |-> parts[j]]]
    BY <1>1, <1>3 DEF Placed
  <2> QED BY <1>1, <1>3, <2>1
<1> QED BY <1>2, <1>3

LEMMA PartsSet ==
  ASSUME NEW i \in Nat, NEW t \in Types
  PROVE  /\ DOMAIN Parts(i, t) \subseteq Nat
         /\ \A j \in DOMAIN Parts(i, t) : Parts(i, t)[j].is # "unset" /\ Parts(i, t)[j].off \in Nat
<1>1. CASE ByReference(t)
  <2>1. Parts(i, t) = <<AddressOf(i)>>
    BY <1>1, PartsAre
  <2>2. DOMAIN Parts(i, t) = 1..1 /\ Parts(i, t)[1] = AddressOf(i)
    BY <2>1
  <2>3. \A j \in 1..1 : j = 1
    OBVIOUS
  <2>4. AddressOf(i).is = "address" /\ AddressOf(i).off = 0
    BY DEF AddressOf
  <2> QED BY <2>2, <2>3, <2>4
<1>2. CASE IsHFA(t)
  <2>1. /\ DOMAIN Parts(i, t) = 1..Len(t.leaves)
        /\ \A j \in 1..Len(t.leaves) :
             Parts(i, t)[j] = Bytes(i, t.leaves[j].off, t.leaves[j].size)
    BY <1>2, PartsAre
  <2>2. \A j \in 1..Len(t.leaves) : t.leaves[j].off \in Nat
    BY LeavesType DEF Scalars
  <2>3. \A off, len : Bytes(i, off, len).is = "bytes" /\ Bytes(i, off, len).off = off
    BY DEF Bytes
  <2>4. Len(t.leaves) \in Nat
    BY LeavesType
  <2> QED BY <2>1, <2>2, <2>3, <2>4
<1>3. CASE ~ByReference(t) /\ ~IsHFA(t)
  <2>1. /\ DOMAIN Parts(i, t) = 1..Eightbytes(t)
        /\ \A j \in 1..Eightbytes(t) : Parts(i, t)[j] = Bytes(i, 8 * (j - 1), Left(t, j - 1))
    BY <1>3, PartsAre
  <2>2. \A off, len : Bytes(i, off, len).is = "bytes" /\ Bytes(i, off, len).off = off
    BY DEF Bytes
  <2>3. PICK n : n = Eightbytes(t)
    OBVIOUS
  <2>4. \A j \in 1..n : j \in Nat /\ 8 * (j - 1) \in Nat
    OBVIOUS
  <2> QED BY <2>1, <2>2, <2>3, <2>4
<1> QED BY <1>1, <1>2, <1>3

\* Part j of argument i is where the ABI looks for it.
There(o, s, r, i, j) ==
  LET p == Placed(o, s, i)[j] IN Delivers(Found(r, p.at[1], p.at[2]), p.word, s.args[i])

LEMMA PlacesType ==
  ASSUME NEW o, NEW s \in Interface, NEW i \in 1..Len(s.args), NEW j \in DOMAIN Placed(o, s, i)
  PROVE  LET p == Placed(o, s, i)[j]
         IN  /\ p.at[1] \in {"gp", "fp", "stack"} /\ p.at[2] \in Nat /\ p.at = <<p.at[1], p.at[2]>>
             /\ p.word = Parts(i, s.args[i])[j] /\ p.word.is # "unset"
<1>1. PICK t, u, p : t = s.args[i] /\ u = Used(o, s)[i] /\ p = Placed(o, s, i)[j]
  OBVIOUS
<1>2. t \in Types /\ i \in Nat /\ Len(s.args) \in Nat /\ u \in UsedStates
  <2>1. t \in Types /\ Len(s.args) \in Nat
    BY <1>1, InterfaceType
  <2>2. i \in 1..(Len(s.args) + 1)
    BY <2>1
  <2> QED BY <1>1, <2>1, <2>2, UsedUnfolds
<1>3. j \in DOMAIN Parts(i, t) /\ p.word = Parts(i, t)[j]
  BY <1>1, PlacedIs
<1>4. j \in Nat /\ Parts(i, t)[j].is # "unset" /\ Parts(i, t)[j].off \in Nat
  BY <1>2, <1>3, PartsSet
<1>5. RegKind(t) \in {"gp", "fp"}
  BY <1>2, NeedType
<1>6. CASE Fits(o, s, i, u)
  <2>1. PICK n : n = u[RegKind(t)]
    OBVIOUS
  <2>2. n \in Nat /\ n + j \in Nat
    <3>1. n \in Nat
      BY <1>2, <1>5, <2>1 DEF UsedStates
    <3> QED BY <1>4, <3>1
  <2>3. p.at = <<RegKind(t), n + j>>
    BY <1>1, <1>3, <1>6, <2>1, PlacedIs
  <2> QED BY <1>1, <1>3, <1>4, <1>5, <2>2, <2>3
<1>7. CASE ~Fits(o, s, i, u)
  <2>1. PICK a, b : a = StackStart(o, s, i, u) /\ b = Parts(i, t)[j].off
    OBVIOUS
  <2>2. a \in Nat /\ b \in Nat /\ a + b \in Nat
    <3>1. a \in Nat
      BY <1>2, <2>1, StackType
    <3> QED BY <1>4, <2>1, <3>1
  <2>3. p.at = <<"stack", a + b>>
    BY <1>1, <1>3, <1>7, <2>1, PlacedIs
  <2> QED BY <1>1, <1>3, <1>4, <2>2, <2>3
<1> QED BY <1>6, <1>7

LEMMA ThereStays ==
  ASSUME NEW o, NEW s \in Interface, NEW i \in 1..Len(s.args), NEW j \in DOMAIN Placed(o, s, i),
         NEW r, NEW q, Extends(r, q), There(o, s, r, i, j)
  PROVE  There(o, s, q, i, j)
<1>1. PICK p, w : p = Placed(o, s, i)[j] /\ w = Found(r, p.at[1], p.at[2])
  OBVIOUS
<1>2. p.at[1] \in {"gp", "fp", "stack"} /\ p.at[2] \in Nat /\ p.word.is # "unset"
  BY <1>1, PlacesType
<1>3. Delivers(w, p.word, s.args[i])
  BY <1>1 DEF There
<1>4. w # Unset
  BY <1>2, <1>3 DEF Delivers, Unset
<1>5. Found(q, p.at[1], p.at[2]) = w
  BY <1>1, <1>2, <1>4, FoundStays
<1> QED BY <1>1, <1>3, <1>5 DEF There

\* What is known before argument n is placed, if goffi's rules are those of the ABI.
Passed(o, s, r, n) ==
  /\ OnStack(o, s, n - 1) => Gps(r) = 8 /\ Fps(r) = 8
  /\ ~OnStack(o, s, n - 1) => Gps(r) = Used(o, s)[n].gp /\ Fps(r) = Used(o, s)[n].fp
  /\ Slots(r) = (Used(o, s)[n].stack + 7) \div 8
  /\ \A i \in 1..(n - 1) : \A j \in DOMAIN Placed(o, s, i) : There(o, s, r, i, j)

LEMMA StackStartIs ==
  ASSUME NEW x \in Nat, NEW a \in Sizes, AlignUp(x, a) % 8 = 0
  PROVE  (x + 7) \div 8 \in Nat /\ AlignUp(x, a) = 8 * ((x + 7) \div 8)
<1>1. PICK y, m, k : y = AlignUp(x, a) /\ m = (x + 7) \div 8 /\ k = y \div 8
  OBVIOUS
<1>2. y \in Nat /\ y >= x /\ y < x + a /\ a <= 8 /\ a \in Nat
  <2>1. AlignUp(x, a) \in Nat /\ AlignUp(x, a) >= x /\ AlignUp(x, a) < x + a
    BY AlignUpFacts
  <2>2. a <= 8 /\ a \in Nat
    BY DEF Sizes
  <2> QED BY <1>1, <2>1, <2>2
<1>3. m \in Nat /\ 8 * m >= x /\ 8 * m < x + 8
  BY <1>1
<1>4. k \in Nat /\ y = 8 * k
  BY <1>1, <1>2
<1>5. k = m
  BY <1>2, <1>3, <1>4
<1> QED BY <1>1, <1>3, <1>4, <1>5

LEMMA BoundaryIs ==
  ASSUME sig \in Interface, NEW i \in Nat
  PROVE  /\ AtBoundary(i) => OnStack(os, sig, i)
         /\ OnStack(os, sig, i) => AtBoundary(i) \/ OnStack(os, sig, i - 1)
         /\ ~OnStack(os, sig, i) => ~AtBoundary(i) /\ ~OnStack(os, sig, i - 1)
<1>1. PICK f : f = sig.fixed
  OBVIOUS
<1>2. f \in Nat
  BY <1>1, InterfaceType
<1> QED BY <1>1, <1>2 DEF AtBoundary, OnStack

\* One word takes at most a slot, at the beginning of it.
LEMMA SingleSlot ==
  ASSUME NEW o, NEW s \in Interface, NEW i \in 1..Len(s.args), Single(s.args[i])
  PROVE  /\ StackSize(o, s, i) \in 1..8
         /\ DOMAIN Parts(i, s.args[i]) = 1..1 /\ Parts(i, s.args[i])[1].off = 0
<1>1. PICK t, a, z : t = s.args[i] /\ a = StackAlign(o, s, i) /\ z = t.size
  OBVIOUS
<1>2. t \in Types /\ i \in Nat
  BY <1>1, InterfaceType
<1>3. CASE ByReference(t)
  <2>1. StackSize(o, s, i) = 8
    BY <1>1, <1>3 DEF StackSize
  <2>2. Parts(i, t) = <<AddressOf(i)>>
    BY <1>2, <1>3, PartsAre
  <2>3. DOMAIN Parts(i, t) = 1..1 /\ Parts(i, t)[1] = AddressOf(i)
    BY <2>2
  <2> QED BY <1>1, <2>1, <2>3 DEF AddressOf
<1>4. CASE ~ByReference(t)
  <2>1. ~IsStruct(t)
    BY <1>1, <1>4 DEF Single
  <2>2. z \in Sizes /\ t.align = z /\ Eightbytes(t) = 1
    BY <1>1, <1>2, <2>1, ScalarType
  <2>3. a = z \/ a = 8
    BY <1>1, <2>2 DEF StackAlign
  <2>4. StackSize(o, s, i) = AlignUp(z, a)
    BY <1>1, <1>4 DEF StackSize
  <2>5. AlignUp(z, a) \in 1..8
    <3>1. CASE a = 8
      BY <2>2, <3>1 DEF AlignUp, Sizes
    <3>2. CASE a = z
      <4>1. z = 1 \/ z = 2 \/ z = 4 \/ z = 8
        BY <2>2 DEF Sizes
      <4> QED BY <3>2, <4>1 DEF AlignUp
    <3> QED BY <2>3, <3>1, <3>2
  <2>6. ~IsHFA(t)
    BY <2>1 DEF IsHFA
  <2>7. /\ DOMAIN Parts(i, t) = 1..Eightbytes(t)
        /\ \A j \in 1..Eightbytes(t) : Parts(i, t)[j] = Bytes(i, 8 * (j - 1), Left(t, j - 1))
    BY <1>2, <1>4, <2>6, PartsAre
  <2>8. 1 \in 1..1 /\ 8 * (1 - 1) = 0
    OBVIOUS
  <2>9. Parts(i, t)[1] = Bytes(i, 8 * (1 - 1), Left(t, 1 - 1))
    BY <2>2, <2>7, <2>8
  <2>10. Parts(i, t)[1].off = 0
    BY <2>8, <2>9 DEF Bytes
  <2> QED BY <1>1, <2>2, <2>4, <2>5, <2>7, <2>10
<1> QED BY <1>3, <1>4

LEMMA RoomPasses ==
  ASSUME NEW i \in Nat, NEW t \in Types, ~Unlike(t), NEW r \in Filled, Room(r, t)
  PROVE  \E out : PassedAs(i, t, out) /\ PlaceOne(r, i, t) = AddAll(r, out)
<1>1. CASE Single(t) /\ (~Unknown(t) \/ ByReference(t))
  <2>1. PICK o \in Outs : /\ PassedAs(i, t, <<o>>)
                          /\ \A q \in Filled : PlaceOne(q, i, t) = AddAll(q, <<o>>)
    BY <1>1, SinglePasses
  <2> QED BY <2>1
<1>2. CASE IsHFA(t)
  BY <1>2, FloatsPass
<1>3. CASE Tidy(t)
  BY <1>3, TidyPasses
<1> QED BY <1>1, <1>2, <1>3, Alikes

LEMMA NextUsed ==
  ASSUME NEW o, NEW s \in Interface, NEW i \in 1..Len(s.args)
  PROVE  /\ Used(o, s)[i] \in UsedStates /\ Used(o, s)[i + 1] = UseNext(o, s, i, Used(o, s)[i])
         /\ s.args[i] \in Types /\ i \in Nat /\ i + 1 - 1 = i
<1>1. Len(s.args) \in Nat /\ s.args[i] \in Types
  BY InterfaceType
<1>2. i \in 1..(Len(s.args) + 1) /\ i \in Nat
  BY <1>1
<1> QED BY <1>1, <1>2, UsedUnfolds

\* An argument for which the ABI has registers.
LEMMA ArgInRegs ==
  ASSUME sig \in Interface, NEW i \in 1..Len(sig.args), NEW r \in Filled,
         ~Unlike(sig.args[i]), Passed(os, sig, r, i), Fits(os, sig, i, Used(os, sig)[i])
  PROVE  Passed(os, sig, PlaceArg(r, i, sig.args[i]), i + 1)
<1>1. PICK t, u, v, kind, need :
        /\ t = sig.args[i] /\ u = Used(os, sig)[i] /\ v = Used(os, sig)[i + 1]
        /\ kind = RegKind(t) /\ need = RegNeed(t)
  OBVIOUS
<1>2. u \in UsedStates /\ v = UseNext(os, sig, i, u) /\ t \in Types /\ i \in Nat /\ (i + 1) - 1 = i
  BY <1>1, NextUsed
<1>3. kind \in {"gp", "fp"} /\ need \in 1..4
  BY <1>1, <1>2, Alikes
<1>4. ~OnStack(os, sig, i) /\ u[kind] + need <= 8
  BY <1>1 DEF Fits
<1>5. ~AtBoundary(i) /\ ~OnStack(os, sig, i - 1)
  BY <1>2, <1>4, BoundaryIs
<1>6. PlaceArg(r, i, t) = PlaceOne(r, i, t)
  BY <1>5 DEF PlaceArg, PlaceOne
<1>7. Gps(r) = u.gp /\ Fps(r) = u.fp /\ Slots(r) = (u.stack + 7) \div 8
      /\ \A l \in 1..(i - 1) : \A j \in DOMAIN Placed(os, sig, l) : There(os, sig, r, l, j)
  BY <1>1, <1>5 DEF Passed
<1>8. Room(r, t)
  BY <1>1, <1>4, <1>7 DEF Room
<1>9. PICK out : PassedAs(i, t, out) /\ PlaceOne(r, i, t) = AddAll(r, out)
  BY <1>1, <1>2, <1>8, RoomPasses
<1>10. PICK q : q = AddAll(r, out)
  OBVIOUS
<1>11. out \in Seq(Outs) /\ Len(out) = need /\ DOMAIN Parts(i, t) = 1..need
       /\ \A k \in 1..need : out[k].kind = kind /\ Delivers(out[k].word, Parts(i, t)[k], t)
  BY <1>1, <1>9 DEF PassedAs
<1>12. Goes(r, q, out, kind, need)
  <2>1. kind = "gp" => Gps(r) + Len(out) <= 8
    BY <1>1, <1>8, <1>11 DEF Room
  <2>2. kind = "fp" => Fps(r) + Len(out) <= 8
    BY <1>1, <1>8, <1>11 DEF Room
  <2> QED BY <1>3, <1>10, <1>11, <2>1, <2>2, AllGo
<1>13. q \in Filled /\ Extends(r, q)
  BY <1>10, <1>11, AddAllExtends
<1>14. v[kind] = u[kind] + need /\ v.stack = u.stack
       /\ \A other \in {"gp", "fp"} : other # kind => v[other] = u[other]
  BY <1>1, <1>2, UseNextType
<1>15. Gps(q) = v.gp /\ Fps(q) = v.fp /\ Slots(q) = (v.stack + 7) \div 8
  BY <1>3, <1>7, <1>12, <1>14 DEF Goes, Gps, Fps, Slots
<1>16. ASSUME NEW j \in DOMAIN Placed(os, sig, i) PROVE There(os, sig, q, i, j)
  <2>1. PICK p : p = Placed(os, sig, i)[j]
    OBVIOUS
  <2>2. j \in 1..need /\ p.word = Parts(i, t)[j] /\ p.at = <<kind, u[kind] + j>>
    BY <1>1, <1>11, <2>1, PlacedIs
  <2>3. PICK x, n : x = u[kind] /\ n = x + j
    OBVIOUS
  <2>4. p.at[1] = kind /\ p.at[2] = n
    BY <2>2, <2>3
  <2>5. x \in Nat /\ j \in Nat /\ n \in 1..(x + need)
    <3>1. x \in Nat
      BY <1>2, <1>3, <2>3 DEF UsedStates
    <3> QED BY <1>3, <2>2, <2>3, <3>1
  <2>6. Found(q, kind, n) = out[j].word
    <3>1. CASE kind = "gp"
      <4>1. x = Gps(r)
        BY <1>7, <2>3, <3>1
      <4>2. Gps(q) = x + need /\ q.gp[x + j] = out[j].word
        BY <1>12, <2>2, <3>1, <4>1 DEF Goes
      <4> QED BY <2>3, <2>5, <3>1, <4>2 DEF Found
    <3>2. CASE kind = "fp"
      <4>1. x = Fps(r)
        BY <1>7, <2>3, <3>2
      <4>2. Fps(q) = x + need /\ q.fp[x + j] = out[j].word
        BY <1>12, <2>2, <3>2, <4>1 DEF Goes
      <4> QED BY <2>3, <2>5, <3>2, <4>2 DEF Found
    <3> QED BY <1>3, <3>1, <3>2
  <2>7. Delivers(out[j].word, p.word, t)
    BY <1>11, <2>2
  <2> QED BY <1>1, <2>1, <2>4, <2>6, <2>7 DEF There
<1>17. ASSUME NEW l \in 1..i, NEW j \in DOMAIN Placed(os, sig, l) PROVE There(os, sig, q, l, j)
  <2>1. CASE l = i
    BY <1>16, <2>1
  <2>2. CASE l # i
    <3>1. l \in 1..(i - 1)
      BY <1>2, <2>2
    <3>2. l \in 1..Len(sig.args)
      <4>1. PICK n : n = Len(sig.args)
        OBVIOUS
      <4>2. n \in Nat /\ i \in 1..n
        BY <4>1, InterfaceType
      <4>3. l \in 1..n
        BY <4>2
      <4> QED BY <4>1, <4>3
    <3> QED BY <1>7, <1>13, <3>1, <3>2, ThereStays
  <2> QED BY <2>1, <2>2
<1>18. Passed(os, sig, q, i + 1)
  BY <1>1, <1>2, <1>4, <1>15, <1>17 DEF Passed
<1> QED BY <1>1, <1>6, <1>9, <1>10, <1>18

\* Where nothing is packed, a value on the stack begins the next slot.
LEMMA StartsSlot ==
  ASSUME NEW o, NEW s \in Interface, NEW i \in 1..Len(s.args), ~Packed(o, s),
         Single(s.args[i]), ~Fits(o, s, i, Used(o, s)[i])
  PROVE  StackStart(o, s, i, Used(o, s)[i]) = 8 * ((Used(o, s)[i].stack + 7) \div 8)
<1>1. PICK t, u, start, e :
        /\ t = s.args[i] /\ u = Used(o, s)[i] /\ start = StackStart(o, s, i, u)
        /\ e = Placed(o, s, i)[1]
  OBVIOUS
<1>2. u \in UsedStates /\ start \in Nat
  BY <1>1, NextUsed, StackType
<1>3. 1 \in DOMAIN Parts(i, t) /\ Parts(i, t)[1].off = 0 /\ i \in DOMAIN s.args
  <2>1. DOMAIN Parts(i, s.args[i]) = 1..1 /\ Parts(i, s.args[i])[1].off = 0
    BY SingleSlot
  <2>2. i \in DOMAIN s.args
    BY InterfaceType
  <2> QED BY <1>1, <2>1, <2>2
<1>4. 1 \in DOMAIN Placed(o, s, i) /\ e.at = <<"stack", start + Parts(i, t)[1].off>>
  BY <1>1, <1>3, PlacedIs
<1>5. e.at[1] = "stack" /\ e.at[2] = start
  BY <1>2, <1>3, <1>4
<1>6. start % 8 = 0
  BY <1>1, <1>3, <1>4, <1>5 DEF Packed
<1>7. PICK x, a : x = u.stack /\ a = StackAlign(o, s, i)
  OBVIOUS
<1>8. x \in Nat /\ a \in Sizes /\ start = AlignUp(x, a)
  BY <1>1, <1>2, <1>7, StackType DEF StackStart
<1>9. start = 8 * ((x + 7) \div 8)
  BY <1>6, <1>8, StackStartIs
<1> QED BY <1>1, <1>7, <1>9

\* An argument the ABI passes on the stack, and there is a slot for it.
LEMMA ArgOnStack ==
  ASSUME sig \in Interface, NEW i \in 1..Len(sig.args), NEW r \in Filled, Agreed(sig),
         Passed(os, sig, r, i), ~Fits(os, sig, i, Used(os, sig)[i]),
         PlaceArg(r, i, sig.args[i]).dropped = {}
  PROVE  Passed(os, sig, PlaceArg(r, i, sig.args[i]), i + 1)
<1>1. PICK t, u, v, kind :
        /\ t = sig.args[i] /\ u = Used(os, sig)[i] /\ v = Used(os, sig)[i + 1]
        /\ kind = RegKind(t)
  OBVIOUS
<1>2. u \in UsedStates /\ v = UseNext(os, sig, i, u) /\ t \in Types /\ i \in Nat /\ (i + 1) - 1 = i
  BY <1>1, NextUsed
<1>3. i \in DOMAIN sig.args
  BY InterfaceType
<1>4. ~Unlike(t) /\ Single(t)
  BY <1>1, <1>3 DEF Agreed, Overflows, Single
<1>5. (~Unknown(t) \/ ByReference(t)) /\ kind \in {"gp", "fp"}
  <2>1. ~Tidy(t) \/ ~Single(t)
    BY <1>2, TidyType DEF Single
  <2> QED BY <1>1, <1>2, <1>4, Alikes
<1>6. RegNeed(t) = 1
      /\ \E o \in Outs : /\ PassedAs(i, t, <<o>>)
                         /\ \A q \in Filled : PlaceOne(q, i, t) = AddAll(q, <<o>>)
  BY <1>2, <1>4, <1>5, SinglePasses
<1>7. PICK o \in Outs : /\ PassedAs(i, t, <<o>>)
                        /\ \A q \in Filled : PlaceOne(q, i, t) = AddAll(q, <<o>>)
  BY <1>6
<1>8. o.kind = kind /\ Delivers(o.word, Parts(i, t)[1], t) /\ DOMAIN Parts(i, t) = 1..1
  <2>1. <<o>>[1] = o /\ 1 \in 1..1
    OBVIOUS
  <2> QED BY <1>1, <1>6, <1>7, <2>1 DEF PassedAs
<1>9. PICK p, w : p = (IF AtBoundary(i) THEN Exhaust(r) ELSE r) /\ w = o.word
  OBVIOUS
<1>10. p \in Filled /\ Extends(r, p) /\ Slots(p) = Slots(r)
  <2>1. Extends(r, r)
    BY DEF Extends
  <2> QED BY <1>9, <2>1, ExhaustFilled, ExhaustExtends DEF Slots
<1>11. PICK q : q = Add(p, o)
  OBVIOUS
<1>12. <<o>> \in Seq(Outs) /\ AddAll(p, <<o>>) = q
  BY <1>10, <1>11, AddAllOfOne
<1>13. PlaceArg(r, i, t) = q
  <2>1. PlaceArg(r, i, t) = PlaceOne(p, i, t)
    BY <1>9 DEF PlaceArg, PlaceOne
  <2> QED BY <1>7, <1>10, <1>12, <2>1
<1>14. q \in Filled /\ Extends(p, q)
  BY <1>10, <1>12, AddAllExtends
<1>15. Extends(r, q)
  BY <1>10, <1>14, ExtendsOn
<1>16. /\ OnStack(os, sig, i - 1) => Gps(r) = 8 /\ Fps(r) = 8
       /\ ~OnStack(os, sig, i - 1) => Gps(r) = u.gp /\ Fps(r) = u.fp
       /\ Slots(r) = (u.stack + 7) \div 8
       /\ \A l \in 1..(i - 1) : \A j \in DOMAIN Placed(os, sig, l) : There(os, sig, r, l, j)
  BY <1>1 DEF Passed
<1>17. OnStack(os, sig, i) => Gps(p) = 8 /\ Fps(p) = 8
  <2>1. CASE AtBoundary(i)
    BY <1>9, <2>1, ExhaustFilled
  <2>2. CASE ~AtBoundary(i)
    BY <1>2, <1>9, <1>16, <2>2, BoundaryIs
  <2> QED BY <2>1, <2>2
<1>18. ~OnStack(os, sig, i) => Gps(p) = u.gp /\ Fps(p) = u.fp /\ u[kind] = 8
  <2>1. SUFFICES ASSUME ~OnStack(os, sig, i) PROVE Gps(p) = u.gp /\ Fps(p) = u.fp /\ u[kind] = 8
    OBVIOUS
  <2>2. ~AtBoundary(i) /\ ~OnStack(os, sig, i - 1)
    BY <1>2, <2>1, BoundaryIs
  <2>3. Gps(p) = u.gp /\ Fps(p) = u.fp
    BY <1>9, <1>16, <2>2
  <2>4. ~(u[kind] + 1 <= 8)
    BY <1>1, <1>6, <2>1 DEF Fits
  <2>5. u[kind] \in 0..8
    BY <1>2, <1>5 DEF UsedStates
  <2> QED BY <2>3, <2>4, <2>5
<1>19. Stacked(p, q, w)
  <2>1. kind = "gp" => Gps(p) = 8
    BY <1>17, <1>18
  <2>2. kind = "fp" => Fps(p) = 8
    BY <1>17, <1>18
  <2> QED BY <1>8, <1>9, <1>10, <1>11, <2>1, <2>2, OneStacks
<1>20. q.dropped = {}
  BY <1>1, <1>13
<1>21. q.gp = p.gp /\ q.fp = p.fp /\ Slots(q) = Slots(p) + 1 /\ q.stack = Append(p.stack, w)
  BY <1>19, <1>20 DEF Stacked
<1>22. w \in Word /\ p.stack \in Seq(Word)
  BY <1>9, <1>10, FilledType DEF Outs
<1>23. PICK m, start, size :
         m = Slots(r) /\ start = StackStart(os, sig, i, u) /\ size = StackSize(os, sig, i)
  OBVIOUS
<1>24. size \in 1..8 /\ Parts(i, t)[1].off = 0
  BY <1>1, <1>4, <1>23, SingleSlot
<1>25. m \in Nat /\ q.stack[m + 1] = w /\ Slots(q) = m + 1
  <2>1. Len(p.stack) = m
    BY <1>10, <1>23 DEF Slots
  <2>2. m \in Nat
    BY <1>23, FilledType
  <2> QED BY <1>10, <1>21, <1>22, <1>23, <2>1, <2>2, AppendWord
<1>26. start = 8 * m
  <2>1. ~Packed(os, sig)
    BY DEF Agreed
  <2> QED BY <1>1, <1>4, <1>16, <1>23, <2>1, StartsSlot
<1>27. /\ v[kind] = IF OnStack(os, sig, i) THEN u[kind] ELSE 8
       /\ v.stack = start + size
       /\ \A other \in {"gp", "fp"} : other # kind => v[other] = u[other]
  BY <1>1, <1>2, <1>23, UseNextType
<1>28. Slots(q) = (v.stack + 7) \div 8
  <2>1. v.stack = 8 * m + size
    BY <1>26, <1>27
  <2>2. (8 * m + size + 7) \div 8 = m + 1
    BY <1>24, <1>25
  <2> QED BY <1>25, <2>1, <2>2
<1>29. OnStack(os, sig, i) => Gps(q) = 8 /\ Fps(q) = 8
  BY <1>17, <1>21 DEF Gps, Fps
<1>30. ~OnStack(os, sig, i) => Gps(q) = v.gp /\ Fps(q) = v.fp
  <2>1. Gps(q) = Gps(p) /\ Fps(q) = Fps(p)
    BY <1>21 DEF Gps, Fps
  <2> QED BY <1>5, <1>18, <1>27, <2>1
<1>31. ASSUME NEW j \in DOMAIN Placed(os, sig, i) PROVE There(os, sig, q, i, j)
  <2>1. PICK e : e = Placed(os, sig, i)[j]
    OBVIOUS
  <2>2. j = 1 /\ j \in DOMAIN Parts(i, t)
    BY <1>1, <1>8, PlacedIs
  <2>3. e.word = Parts(i, t)[1] /\ e.at = <<"stack", start + Parts(i, t)[1].off>>
    BY <1>1, <1>23, <2>1, <2>2, PlacedIs
  <2>4. e.at[1] = "stack" /\ e.at[2] = 8 * m
    BY <1>24, <1>25, <1>26, <2>3
  <2>5. (8 * m) % 8 = 0 /\ (8 * m) \div 8 + 1 = m + 1 /\ m + 1 \in 1..(m + 1)
    BY <1>25
  <2>6. Found(q, "stack", 8 * m) = w
    BY <1>25, <2>5 DEF Found
  <2> QED BY <1>1, <1>8, <1>9, <2>1, <2>3, <2>4, <2>6 DEF There
<1>32. ASSUME NEW l \in 1..i, NEW j \in DOMAIN Placed(os, sig, l) PROVE There(os, sig, q, l, j)
  <2>1. CASE l = i
    BY <1>31, <2>1
  <2>2. CASE l # i
    <3>1. l \in 1..(i - 1)
      BY <1>2, <2>2
    <3>2. l \in 1..Len(sig.args)
      <4>1. PICK n : n = Len(sig.args)
        OBVIOUS
      <4>2. n \in Nat /\ i \in 1..n
        BY <4>1, InterfaceType
      <4>3. l \in 1..n
        BY <4>2
      <4> QED BY <4>1, <4>3
    <3> QED BY <1>15, <1>16, <3>1, <3>2, ThereStays
  <2> QED BY <2>1, <2>2
<1>33. Passed(os, sig, q, i + 1)
  BY <1>1, <1>2, <1>28, <1>29, <1>30, <1>32 DEF Passed
<1> QED BY <1>1, <1>13, <1>33

LEMMA ArgPasses ==
  ASSUME sig \in Interface, NEW i \in 1..Len(sig.args), NEW r \in Filled, Agreed(sig),
         Passed(os, sig, r, i), PlaceArg(r, i, sig.args[i]).dropped = {}
  PROVE  Passed(os, sig, PlaceArg(r, i, sig.args[i]), i + 1)
<1>1. ~Unlike(sig.args[i])
  BY InterfaceType DEF Agreed
<1>2. CASE Fits(os, sig, i, Used(os, sig)[i])
  BY <1>1, <1>2, ArgInRegs
<1>3. CASE ~Fits(os, sig, i, Used(os, sig)[i])
  BY <1>3, ArgOnStack
<1> QED BY <1>2, <1>3

LEMMA NothingPassed ==
  ASSUME NEW o, NEW s \in Interface, NEW r \in Filled,
         r.gp = <<>>, r.fp = <<>>, r.stack = <<>>
  PROVE  Passed(o, s, r, 1)
<1>1. Used(o, s)[1] = NoneUsed
  BY UsedUnfolds
<1>2. ~OnStack(o, s, 1 - 1)
  BY InterfaceType DEF OnStack
<1>3. Gps(r) = 0 /\ Fps(r) = 0 /\ Slots(r) = 0
  BY DEF Gps, Fps, Slots
<1>4. NoneUsed.gp = 0 /\ NoneUsed.fp = 0 /\ NoneUsed.stack = 0 /\ (0 + 7) \div 8 = 0
  BY DEF NoneUsed
<1>5. \A i \in 1..(1 - 1) : FALSE
  OBVIOUS
<1> QED BY <1>1, <1>2, <1>3, <1>4, <1>5 DEF Passed

ArgInv ==
  /\ phase \in {"prepare", "rejected"} =>
       regs.gp = <<>> /\ regs.fp = <<>> /\ regs.stack = <<>> /\ dropped = {}
  /\ phase \notin {"prepare", "rejected"} =>
       /\ ViaPointer(sig.ret) => regs.x8 = AddressOf(0)
       /\ Agreed(sig) /\ dropped = {} => Passed(os, sig, Load, next)
  /\ phase = "inC" => \A i \in Values : i < next

LEMMA ArgKept == TypeInv /\ ArgInv /\ [Next]_vars => ArgInv'
<1> SUFFICES ASSUME TypeInv, ArgInv, [Next]_vars PROVE ArgInv'
  OBVIOUS
<1>1. /\ sig \in Interface /\ Load \in Filled
      /\ regs \in [gp : Seq(Word), fp : Seq(Word), stack : Seq(Word), x8 : Word]
      /\ next \in 1..(Len(sig.args) + 1) /\ next \in Nat /\ DOMAIN sig.args = 1..Len(sig.args)
  <2>1. sig \in Interface /\ next \in 1..(Len(sig.args) + 1)
    BY DEF TypeInv, TypeOK, CallTypeOK
  <2>2. regs \in [gp : Seq(Word), fp : Seq(Word), stack : Seq(Word), x8 : Word]
    BY DEF TypeInv, TypeOK, CallTypeOK
  <2> QED BY <2>1, <2>2, LoadType, InterfaceType
<1>2. ASSUME phase' = "place", os' = os, sig' = sig,
             ViaPointer(sig.ret) => regs'.x8 = AddressOf(0),
             Agreed(sig) /\ dropped' = {} => Passed(os, sig, Load', next')
      PROVE  ArgInv'
  BY <1>2 DEF ArgInv, Agreed
<1>3. ASSUME phase' \notin {"prepare", "rejected"}, phase \notin {"prepare", "rejected"},
             UNCHANGED <<os, sig, next, regs, dropped>>,
             phase' = "inC" => \A i \in Values : i < next
      PROVE  ArgInv'
  BY <1>3 DEF ArgInv, Agreed, Load, Values
<1>4. CASE CountArg /\ UNCHANGED <<cbVars, callee>>
  BY <1>4 DEF CountArg, ArgInv
<1>5. CASE Prepared /\ UNCHANGED <<cbVars, callee>>
  <2>1. phase = "prepare" /\ next' = 1 /\ os' = os /\ sig' = sig /\ dropped' = dropped
    BY <1>5 DEF Prepared
  <2>2. CASE Accepted(totals)
    <3>1. phase' = "place"
          /\ regs' = [regs EXCEPT !.x8 = IF ViaPointer(sig.ret) THEN AddressOf(0) ELSE @]
      BY <1>5, <2>2 DEF Prepared
    <3>2. /\ ViaPointer(sig.ret) => regs'.x8 = AddressOf(0)
          /\ regs'.gp = <<>> /\ regs'.fp = <<>> /\ regs'.stack = <<>>
          /\ regs.gp = <<>> /\ regs.fp = <<>> /\ regs.stack = <<>>
      BY <1>1, <2>1, <3>1 DEF ArgInv
    <3>3. Load' = Load /\ Load.gp = <<>> /\ Load.fp = <<>> /\ Load.stack = <<>>
      BY <2>1, <3>2 DEF Load
    <3>4. Passed(os, sig, Load, 1)
      BY <1>1, <3>3, NothingPassed
    <3> QED BY <1>2, <2>1, <3>1, <3>2, <3>3, <3>4
  <2>3. CASE ~Accepted(totals)
    BY <1>5, <2>1, <2>3 DEF Prepared, ArgInv
  <2> QED BY <2>2, <2>3
<1>6. CASE Execute /\ UNCHANGED <<cbVars, callee>>
  <2>1. phase = "place" /\ phase' = phase /\ os' = os /\ sig' = sig /\ next' = next + 1
    BY <1>6 DEF Execute
  <2>2. PICK r : r = PlaceArg(Load, next, sig.args[next])
    OBVIOUS
  <2>3. next \in 1..Len(sig.args) /\ sig.args[next] \in Types /\ dropped' = r.dropped /\ Load' = r
        /\ regs' = [gp |-> r.gp, fp |-> r.fp, stack |-> r.stack, x8 |-> regs.x8]
    BY <1>6, <2>2, ExecuteTyped
  <2>4. regs'.x8 = regs.x8
    BY <2>3
  <2>5. dropped \subseteq r.dropped
    <3>1. Load.dropped = dropped
      BY DEF Load
    <3> QED BY <1>1, <2>2, <2>3, <3>1, DroppedStays
  <2>6. Agreed(sig) /\ r.dropped = {} => Passed(os, sig, r, next + 1)
    <3>1. SUFFICES ASSUME Agreed(sig), r.dropped = {} PROVE Passed(os, sig, r, next + 1)
      OBVIOUS
    <3>2. dropped = {}
      BY <2>5, <3>1
    <3>3. Passed(os, sig, Load, next)
      BY <2>1, <3>1, <3>2 DEF ArgInv
    <3> QED BY <1>1, <2>2, <2>3, <3>1, <3>3, ArgPasses
  <2>7. ViaPointer(sig.ret) => regs.x8 = AddressOf(0)
    BY <2>1 DEF ArgInv
  <2> QED BY <1>2, <2>1, <2>3, <2>4, <2>6, <2>7
<1>7. CASE EnterC /\ UNCHANGED <<cbVars, callee>>
  <2>1. phase = "place" /\ next \notin Values /\ phase' = "inC"
        /\ UNCHANGED <<os, sig, next, regs, dropped>>
    BY <1>7 DEF EnterC
  <2>2. ASSUME NEW i \in Values PROVE i < next
    <3>1. PICK n, g : n = Len(sig.args) /\ g = sig.given
      OBVIOUS
    <3>2. n \in Nat /\ g \in Nat /\ i \in 1..n /\ i <= g
      BY <1>1, <2>2, <3>1, InterfaceType DEF Values
    <3>3. ~(next \in 1..n /\ next <= g)
      BY <1>1, <2>1, <3>1 DEF Values
    <3> QED BY <1>1, <3>2, <3>3
  <2> QED BY <1>3, <2>1, <2>2
<1>8. CASE Return /\ UNCHANGED <<cbVars, callee>>
  <2>1. phase = "return" /\ phase' \in {"unsupported", "done"}
        /\ UNCHANGED <<os, sig, next, regs, dropped>>
    BY <1>8 DEF Return
  <2> QED BY <1>3, <2>1
<1>9. CASE CReturns \/ GoReturns
  <2>1. phase = "inC" /\ phase' = "return" /\ UNCHANGED <<os, sig, next, regs, dropped>>
    BY <1>9 DEF CReturns, GoReturns, LeaveC
  <2> QED BY <1>3, <2>1
<1>10. ASSUME UNCHANGED callVars PROVE ArgInv'
  BY <1>10 DEF callVars, ArgInv, Agreed, Load, Values
<1>11. CASE CbNext /\ UNCHANGED <<callVars, callee>>
  BY <1>10, <1>11
<1>12. CASE CCallsBack \/ GoEntered
  BY <1>10, <1>12 DEF CCallsBack, GoEntered
<1>13. CASE UNCHANGED vars
  BY <1>10, <1>13 DEF vars
<1> QED BY <1>4, <1>5, <1>6, <1>7, <1>8, <1>9, <1>11, <1>12, <1>13 DEF Next, CallNext

LEMMA ArgFound == TypeInv /\ ArgInv => ArgsArrive
<1> SUFFICES ASSUME TypeInv, ArgInv, phase = "inC"
             PROVE  /\ ViaPointer(sig.ret) = ByReference(sig.ret)
                    /\ ByReference(sig.ret) => At(<<"x8", 1>>) = AddressOf(0)
                    /\ Agreed(sig) /\ dropped = {} =>
                         \A i \in Values : \A j \in DOMAIN Placed(os, sig, i) :
                           Delivers(At(Placed(os, sig, i)[j].at), Placed(os, sig, i)[j].word,
                                    sig.args[i])
  BY DEF ArgsArrive
<1>1. sig \in Interface /\ sig.ret \in Types /\ next \in Nat
      /\ DOMAIN sig.args = 1..Len(sig.args)
  <2>1. sig \in Interface /\ next \in Nat
    BY DEF TypeInv, TypeOK, CallTypeOK
  <2> QED BY <2>1, InterfaceType
<1>2. ViaPointer(sig.ret) <=> ByReference(sig.ret)
  BY <1>1, HfaIsHFA
<1>3. ViaPointer(sig.ret) = ByReference(sig.ret)
  BY <1>2 DEF ViaPointer, ByReference
<1>4. ByReference(sig.ret) => At(<<"x8", 1>>) = AddressOf(0)
  BY <1>2 DEF ArgInv, At
<1>5. ASSUME Agreed(sig), dropped = {}, NEW i \in Values, NEW j \in DOMAIN Placed(os, sig, i)
      PROVE  Delivers(At(Placed(os, sig, i)[j].at), Placed(os, sig, i)[j].word, sig.args[i])
  <2>1. Passed(os, sig, Load, next)
    BY <1>5 DEF ArgInv
  <2>2. i \in 1..Len(sig.args) /\ i < next
    BY <1>1 DEF Values, ArgInv
  <2>3. i \in 1..(next - 1)
    BY <1>1, <2>2
  <2>4. There(os, sig, Load, i, j)
    BY <2>1, <2>3 DEF Passed
  <2>5. PICK p : p = Placed(os, sig, i)[j]
    OBVIOUS
  <2>6. p.at[1] \in {"gp", "fp", "stack"} /\ p.at[2] \in Nat /\ p.at = <<p.at[1], p.at[2]>>
    BY <1>1, <2>2, <2>5, PlacesType
  <2>7. At(p.at) = Found(Load, p.at[1], p.at[2])
    BY <2>6, AtIsFound
  <2> QED BY <2>4, <2>5, <2>7 DEF There
<1> QED BY <1>3, <1>4, <1>5

\* A C function finds every value given to a call where the AAPCS64, with Apple's changes,
\* says it is (Execute, placeStructRegisters and the variadic boundary), for every interface
\* on which goffi's rules are those of the ABI, as long as the slots suffice.
THEOREM ArgumentsArrive == Spec => []ArgsArrive
<1>1. Init => TypeInv /\ ArgInv
  BY TypeInit DEF Init, CallInit, ArgInv
<1>2. TypeInv /\ ArgInv /\ [Next]_vars => TypeInv' /\ ArgInv'
  BY TypeKept, ArgKept
<1>3. TypeInv /\ ArgInv => ArgsArrive
  BY ArgFound
<1> QED BY <1>1, <1>2, <1>3, PTL DEF Spec
--------------------------------------------------------------------------------
(* What is counted, against what is used.                                   *)

CountNext(s, i, c) == Sum(c, Classify(s.args[i]))
NoneCounted == [gp |-> 0, fp |-> 0]

LEMMA CountNextType ==
  ASSUME NEW s \in Interface, NEW i \in 1..Len(s.args), NEW c \in Counts
  PROVE  CountNext(s, i, c) \in Counts /\ AtMost(c, CountNext(s, i, c))
<1>1. PICK k : k = Classify(s.args[i])
  OBVIOUS
<1>2. k \in Counts
  BY <1>1, InterfaceType, ClassifyType
<1>3. CountNext(s, i, c) = [gp |-> c.gp + k.gp, fp |-> c.fp + k.fp]
  BY <1>1 DEF CountNext, Sum
<1>4. c.gp \in Nat /\ c.fp \in Nat /\ k.gp \in Nat /\ k.fp \in Nat
  BY <1>2 DEF Counts
<1>5. PICK a, b : a = c.gp + k.gp /\ b = c.fp + k.fp
  OBVIOUS
<1>6. a \in Nat /\ b \in Nat /\ a >= c.gp /\ b >= c.fp
  BY <1>4, <1>5
<1> QED BY <1>3, <1>5, <1>6 DEF Counts, AtMost

\* Counted is the function it is defined to be.
LEMMA CountedUnfolds ==
  ASSUME NEW s \in Interface
  PROVE  /\ Counted(s)[1] = NoneCounted
         /\ \A j \in 1..(Len(s.args) + 1) : Counted(s)[j] \in Counts
         /\ \A j \in 1..Len(s.args) : Counted(s)[j + 1] = CountNext(s, j, Counted(s)[j])
<1>1. PICK n : n = Len(s.args)
  OBVIOUS
<1>2. n \in Nat
  BY <1>1, InterfaceType
<1> DEFINE G == [p \in (1..n) \X Counts |-> CountNext(s, p[1], p[2])]
           F(f) == f = [j \in 1..(n + 1) |-> IF j = 1 THEN NoneCounted ELSE CountNext(s, j - 1, f[j - 1])]
<1>3. NoneCounted \in Counts
  BY DEF NoneCounted, Counts
<1>4. \A j \in 1..n : \A c \in Counts : G[<<j, c>>] \in Counts
  BY <1>1, CountNextType
<1>5. \A j \in 1..n : \A c \in Counts : G[<<j, c>>] = CountNext(s, j, c)
  OBVIOUS
<1> HIDE DEF G
<1>6. PICK f \in [1..(n + 1) -> Counts] : StepsFromOne(f, n, NoneCounted, G)
  BY <1>2, <1>3, <1>4, IteratesFromOne
<1>7. F(f)
  <2>1. ASSUME NEW j \in 1..(n + 1)
        PROVE  f[j] = IF j = 1 THEN NoneCounted ELSE CountNext(s, j - 1, f[j - 1])
    <3>1. CASE j = 1
      BY <1>6, <3>1 DEF StepsFromOne
    <3>2. CASE j # 1
      <4>1. j - 1 \in 1..n /\ (j - 1) + 1 = j /\ j - 1 \in 1..(n + 1)
        BY <1>2, <3>2
      <4>2. f[j] = G[<<j - 1, f[j - 1]>>] /\ f[j - 1] \in Counts
        BY <1>6, <4>1 DEF StepsFromOne
      <4> QED BY <1>5, <3>2, <4>1, <4>2
    <3> QED BY <3>1, <3>2
  <2> QED BY <1>6, <2>1
<1>8. Counted(s) = CHOOSE f2 : F(f2)
  BY <1>1 DEF Counted, CountNext, NoneCounted, Sum
<1> HIDE DEF F
<1>9. F(Counted(s))
  BY <1>7, <1>8
<1>10. PICK h : h = Counted(s)
  OBVIOUS
<1>11. h = [j \in 1..(n + 1) |-> IF j = 1 THEN NoneCounted ELSE CountNext(s, j - 1, h[j - 1])]
  BY <1>9, <1>10 DEF F
<1>12. h[1] = NoneCounted
  BY <1>2, <1>11
<1>13. ASSUME NEW j \in 1..n PROVE h[j + 1] = CountNext(s, j, h[j])
  <2>1. j + 1 \in 1..(n + 1) /\ j + 1 # 1 /\ (j + 1) - 1 = j
    BY <1>2
  <2> QED BY <1>11, <2>1
<1> DEFINE S == {j \in 0..n : h[j + 1] \in Counts}
<1>14. 0 \in S
  BY <1>2, <1>3, <1>12
<1>15. ASSUME NEW j \in 1..n, j - 1 \in S PROVE j \in S
  <2>1. h[j] \in Counts /\ j \in 0..n
    BY <1>2, <1>15
  <2>2. h[j + 1] \in Counts
    BY <1>1, <1>13, <2>1, CountNextType
  <2> QED BY <2>1, <2>2
<1> HIDE DEF S
<1>16. \A j \in 0..n : j \in S
  BY <1>2, <1>14, <1>15, UpToN
<1>17. ASSUME NEW j \in 1..(n + 1) PROVE h[j] \in Counts
  <2>1. j - 1 \in 0..n /\ (j - 1) + 1 = j
    BY <1>2
  <2>2. j - 1 \in S
    BY <1>16, <2>1
  <2> QED BY <2>1, <2>2 DEF S
<1> QED BY <1>1, <1>10, <1>12, <1>13, <1>17

\* What is counted for some arguments is no more than what is counted for all.
LEMMA CountedGrows ==
  ASSUME NEW s \in Interface, NEW j \in 1..(Len(s.args) + 1)
  PROVE  AtMost(Counted(s)[j], Counted(s)[Len(s.args) + 1])
<1>1. PICK n, h : n = Len(s.args) /\ h = Counted(s)
  OBVIOUS
<1>2. n \in Nat
  BY <1>1, InterfaceType
<1>3. \A k \in 1..(n + 1) : h[k] \in Counts
  BY <1>1, CountedUnfolds
<1> DEFINE S == {d \in 0..n : AtMost(h[n + 1 - d], h[n + 1])}
<1>4. 0 \in S
  <2>1. n + 1 - 0 = n + 1 /\ n + 1 \in 1..(n + 1) /\ 0 \in 0..n
    BY <1>2
  <2>2. h[n + 1].gp \in Nat /\ h[n + 1].fp \in Nat
    BY <1>3, <2>1 DEF Counts
  <2> QED BY <2>1, <2>2 DEF AtMost
<1>5. ASSUME NEW d \in 1..n, d - 1 \in S PROVE d \in S
  <2>1. PICK k : k = n + 1 - d
    OBVIOUS
  <2>2. k \in 1..n /\ k + 1 = n + 1 - (d - 1) /\ k \in 1..(n + 1) /\ k + 1 \in 1..(n + 1)
        /\ n + 1 \in 1..(n + 1) /\ d \in 0..n
    BY <1>2, <2>1
  <2>3. AtMost(h[k + 1], h[n + 1])
    BY <1>5, <2>2
  <2>4. AtMost(h[k], h[k + 1])
    BY <1>1, <1>3, <2>2, CountedUnfolds, CountNextType
  <2>5. PICK x, y, z : x = h[k] /\ y = h[k + 1] /\ z = h[n + 1]
    OBVIOUS
  <2>6. x \in Counts /\ y \in Counts /\ z \in Counts
    BY <1>3, <2>2, <2>5
  <2>7. AtMost(x, z)
    BY <2>3, <2>4, <2>5, <2>6 DEF AtMost, Counts
  <2> QED BY <2>1, <2>2, <2>5, <2>7
<1> HIDE DEF S
<1>6. \A d \in 0..n : d \in S
  BY <1>2, <1>4, <1>5, UpToN
<1>7. n + 1 - j \in 0..n /\ n + 1 - (n + 1 - j) = j
  BY <1>1, <1>2
<1>8. n + 1 - j \in S
  BY <1>6, <1>7
<1> QED BY <1>1, <1>7, <1>8 DEF S

\* The arithmetic of preparePlatformSpecific: when a value is dropped although the call
\* was accepted.
LEMMA Lost ==
  ASSUME NEW r, NEW c \in Counts, NEW all \in Counts, Fitted(r, c), r.dropped # {},
         AtMost(c, all), Accepted(all)
  PROVE  all.gp < 8 /\ all.fp > 15
<1>1. PICK a, b, m : a \in Nat /\ b \in Nat /\ m \in Nat /\ Holds(r, a, b) /\ Within(c, a, b, m)
  BY DEF Fitted
<1>2. PICK g, f, x, y : g = all.gp /\ f = all.fp /\ x = c.gp /\ y = c.fp
  OBVIOUS
<1>3. g \in Nat /\ f \in Nat /\ x \in Nat /\ y \in Nat /\ x <= g /\ y <= f
  BY <1>2 DEF Counts, AtMost
<1>4. Over(a, 8) + Over(b, 8) > 7
  BY <1>1 DEF Holds
<1>5. b <= y /\ a <= x + m /\ Over(b, 8) + m <= Over(y, 8)
  BY <1>1, <1>2 DEF Within
<1>6. Over(g, 6) + Over(f, 8) <= 9
  BY <1>2 DEF Accepted
<1>7. Over(a, 8) <= Over(x, 8) + m
  BY <1>1, <1>3, <1>5 DEF Over
<1>8. Over(x, 8) \in Nat /\ Over(y, 8) \in Nat /\ Over(g, 8) \in Nat /\ Over(f, 8) \in Nat
      /\ Over(x, 8) <= Over(g, 8) /\ Over(y, 8) <= Over(f, 8)
  BY <1>3 DEF Over
<1>9. Over(a, 8) \in Nat /\ Over(b, 8) \in Nat
  BY <1>1 DEF Over
<1>10. Over(g, 8) + Over(f, 8) >= 8
  BY <1>1, <1>4, <1>5, <1>7, <1>8, <1>9
<1>11. g < 8
  BY <1>3, <1>6, <1>8, <1>10 DEF Over
<1>12. f > 15
  BY <1>3, <1>10, <1>11 DEF Over
<1> QED BY <1>2, <1>11, <1>12

\* What is counted for the arguments before i needs at least what the ABI uses for them:
\* of the registers the same, of the slots no more.
Backs(o, s, i) ==
  LET c == Counted(s)[i]
      u == Used(o, s)[i]
  IN  /\ ~OnStack(o, s, i - 1) => u.gp = UpTo(c.gp, 8) /\ u.fp = UpTo(c.fp, 8)
      /\ Over(c.gp, 8) + Over(c.fp, 8) <= (u.stack + 7) \div 8

\* One more word for a register of a kind, x of which are counted, y of the other kind,
\* with m slots used and z registers.
LEMMA BackedInRegs ==
  ASSUME NEW x \in Nat, NEW z, z = UpTo(x, 8), NEW need \in 1..4, z + need <= 8
  PROVE  z + need = UpTo(x + need, 8) /\ Over(x + need, 8) = Over(x, 8)
  BY DEF UpTo, Over

LEMMA BackedBySlot ==
  ASSUME NEW x \in Nat
  PROVE  /\ Over(x + 1, 8) <= Over(x, 8) + 1 /\ Over(x, 8) \in Nat /\ Over(x + 1, 8) \in Nat
         /\ UpTo(x, 8) = 8 => UpTo(x + 1, 8) = 8
  BY DEF UpTo, Over

LEMMA BacksNext ==
  ASSUME NEW o, NEW s \in Interface, NEW i \in 1..Len(s.args), Backs(o, s, i),
         ~Overflows(o, s), ~Packed(o, s), ~Unlike(s.args[i])
  PROVE  Backs(o, s, i + 1)
<1>1. PICK t, u, v, kind, need, c, d :
        /\ t = s.args[i] /\ u = Used(o, s)[i] /\ v = Used(o, s)[i + 1]
        /\ kind = RegKind(t) /\ need = RegNeed(t)
        /\ c = Counted(s)[i] /\ d = Counted(s)[i + 1]
  OBVIOUS
<1>2. u \in UsedStates /\ v = UseNext(o, s, i, u) /\ t \in Types /\ i \in Nat /\ (i + 1) - 1 = i
  BY <1>1, NextUsed
<1>3. kind \in {"gp", "fp"} /\ need \in 1..4 /\ Classify(t) = One(kind, need)
  BY <1>1, <1>2, Alikes
<1>4. c \in Counts /\ d = Sum(c, One(kind, need))
  <2>1. PICK n : n = Len(s.args)
    OBVIOUS
  <2>2. n \in Nat /\ i \in 1..n /\ i \in 1..(n + 1)
    <3>1. n \in Nat /\ i \in 1..n
      BY <2>1, InterfaceType
    <3> QED BY <3>1
  <2> QED BY <1>1, <1>3, <2>1, <2>2, CountedUnfolds DEF CountNext
<1>5. PICK x, y, x2, y2, g, f, m, g2, f2, m2 :
        /\ x = c.gp /\ y = c.fp /\ x2 = d.gp /\ y2 = d.fp
        /\ g = u.gp /\ f = u.fp /\ m = (u.stack + 7) \div 8
        /\ g2 = v.gp /\ f2 = v.fp /\ m2 = (v.stack + 7) \div 8
  OBVIOUS
<1>6. /\ x \in Nat /\ y \in Nat
      /\ kind = "gp" => x2 = x + need /\ y2 = y
      /\ kind = "fp" => x2 = x /\ y2 = y + need
  <2>1. x \in Nat /\ y \in Nat
    BY <1>4, <1>5 DEF Counts
  <2>2. PICK k : k = One(kind, need)
    OBVIOUS
  <2>3. x2 = x + k.gp /\ y2 = y + k.fp
    BY <1>4, <1>5, <2>2 DEF Sum
  <2>4. CASE kind = "gp"
    <3>1. k.gp = need /\ k.fp = 0
      BY <2>2, <2>4 DEF One
    <3> QED BY <2>1, <2>3, <2>4, <3>1
  <2>5. CASE kind = "fp"
    <3>1. k.gp = 0 /\ k.fp = need
      BY <2>2, <2>5 DEF One
    <3> QED BY <2>1, <2>3, <2>5, <3>1
  <2> QED BY <1>3, <2>1, <2>4, <2>5
<1>7. /\ g \in 0..8 /\ f \in 0..8 /\ u[kind] = (IF kind = "gp" THEN g ELSE f)
      /\ u.stack \in Nat /\ m \in Nat
  <2>1. g \in 0..8 /\ f \in 0..8 /\ u.stack \in Nat
    BY <1>2, <1>5 DEF UsedStates
  <2> QED BY <1>3, <1>5, <2>1
<1>8. /\ ~OnStack(o, s, i - 1) => g = UpTo(x, 8) /\ f = UpTo(y, 8)
      /\ Over(x, 8) + Over(y, 8) <= m
  BY <1>1, <1>5 DEF Backs
<1>9. ~OnStack(o, s, i) => ~OnStack(o, s, i - 1)
  <2>1. s.fixed \in Nat
    BY InterfaceType
  <2> QED BY <1>2, <2>1 DEF OnStack
<1>10. CASE Fits(o, s, i, u)
  <2>1. ~OnStack(o, s, i) /\ u[kind] + need <= 8
    BY <1>1, <1>10 DEF Fits
  <2>2. v[kind] = u[kind] + need /\ v.stack = u.stack
        /\ \A other \in {"gp", "fp"} : other # kind => v[other] = u[other]
    BY <1>1, <1>2, <1>10, UseNextType
  <2>3. m2 = m
    BY <1>5, <2>2
  <2>4. CASE kind = "gp"
    <3>1. g2 = g + need /\ f2 = f /\ g + need <= 8
      BY <1>5, <1>7, <2>1, <2>2, <2>4
    <3>2. g2 = UpTo(x2, 8) /\ Over(x2, 8) = Over(x, 8)
      BY <1>3, <1>6, <1>8, <1>9, <2>1, <2>4, <3>1, BackedInRegs
    <3>3. f2 = UpTo(y2, 8) /\ Over(x2, 8) + Over(y2, 8) <= m2
      BY <1>6, <1>8, <1>9, <2>1, <2>3, <2>4, <3>1, <3>2
    <3> QED BY <1>1, <1>2, <1>5, <3>2, <3>3 DEF Backs
  <2>5. CASE kind = "fp"
    <3>1. f2 = f + need /\ g2 = g /\ f + need <= 8
      BY <1>5, <1>7, <2>1, <2>2, <2>5
    <3>2. f2 = UpTo(y2, 8) /\ Over(y2, 8) = Over(y, 8)
      BY <1>3, <1>6, <1>8, <1>9, <2>1, <2>5, <3>1, BackedInRegs
    <3>3. g2 = UpTo(x2, 8) /\ Over(x2, 8) + Over(y2, 8) <= m2
      BY <1>6, <1>8, <1>9, <2>1, <2>3, <2>5, <3>1, <3>2
    <3> QED BY <1>1, <1>2, <1>5, <3>2, <3>3 DEF Backs
  <2> QED BY <1>3, <2>4, <2>5
<1>11. CASE ~Fits(o, s, i, u)
  <2>1. Single(t) /\ i \in DOMAIN s.args
    BY <1>1, <1>11, InterfaceType DEF Overflows, Single
  <2>2. need = 1
    <3>1. ~Unknown(t) \/ ByReference(t)
      <4>1. ~Tidy(t) \/ ~Single(t)
        BY <1>2, TidyType DEF Single
      <4> QED BY <1>1, <1>2, <2>1, <4>1, Alikes
    <3> QED BY <1>1, <1>2, <2>1, <3>1, SinglePasses
  <2>3. PICK start, size : start = StackStart(o, s, i, u) /\ size = StackSize(o, s, i)
    OBVIOUS
  <2>4. start = 8 * m /\ size \in 1..8
    <3>1. start = 8 * m
      BY <1>1, <1>5, <1>11, <2>1, <2>3, StartsSlot
    <3>2. size \in 1..8
      BY <1>1, <2>1, <2>3, SingleSlot
    <3> QED BY <3>1, <3>2
  <2>5. /\ v[kind] = IF OnStack(o, s, i) THEN u[kind] ELSE 8
        /\ v.stack = start + size
        /\ \A other \in {"gp", "fp"} : other # kind => v[other] = u[other]
    BY <1>1, <1>2, <1>11, <2>3, UseNextType
  <2>6. m2 = m + 1
    <3>1. v.stack = 8 * m + size
      BY <2>4, <2>5
    <3>2. (8 * m + size + 7) \div 8 = m + 1
      BY <1>7, <2>4
    <3> QED BY <1>5, <3>1, <3>2
  <2>7. Over(x2, 8) + Over(y2, 8) <= m2
    <3>1. /\ Over(x + 1, 8) <= Over(x, 8) + 1 /\ Over(x, 8) \in Nat /\ Over(x + 1, 8) \in Nat
          /\ Over(y + 1, 8) <= Over(y, 8) + 1 /\ Over(y, 8) \in Nat /\ Over(y + 1, 8) \in Nat
      BY <1>6, BackedBySlot
    <3>2. CASE kind = "gp"
      <4>1. x2 = x + 1 /\ y2 = y
        BY <1>6, <2>2, <3>2
      <4> QED BY <1>7, <1>8, <2>6, <3>1, <4>1
    <3>3. CASE kind = "fp"
      <4>1. x2 = x /\ y2 = y + 1
        BY <1>6, <2>2, <3>3
      <4> QED BY <1>7, <1>8, <2>6, <3>1, <4>1
    <3> QED BY <1>3, <3>2, <3>3
  <2>8. ASSUME ~OnStack(o, s, i) PROVE g2 = UpTo(x2, 8) /\ f2 = UpTo(y2, 8)
    <3>1. g = UpTo(x, 8) /\ f = UpTo(y, 8)
      BY <1>8, <1>9, <2>8
    <3>2. ~(u[kind] + 1 <= 8)
      BY <1>1, <1>11, <2>2, <2>8 DEF Fits
    <3>3. v[kind] = 8
      BY <2>5, <2>8
    <3>4. CASE kind = "gp"
      <4>1. g = 8 /\ g2 = 8 /\ f2 = f
        <5>1. g \in 0..8 /\ ~(g + 1 <= 8)
          BY <1>7, <3>2, <3>4
        <5>2. g2 = 8
          BY <1>5, <3>3, <3>4
        <5>3. f2 = f
          BY <1>5, <2>5, <3>4
        <5> QED BY <5>1, <5>2, <5>3
      <4>2. x2 = x + 1 /\ y2 = y
        BY <1>6, <2>2, <3>4
      <4> QED BY <1>6, <3>1, <4>1, <4>2, BackedBySlot
    <3>5. CASE kind = "fp"
      <4>1. f = 8 /\ f2 = 8 /\ g2 = g
        <5>1. f \in 0..8 /\ ~(f + 1 <= 8)
          BY <1>7, <3>2, <3>5
        <5>2. f2 = 8
          BY <1>5, <3>3, <3>5
        <5>3. g2 = g
          BY <1>5, <2>5, <3>5
        <5> QED BY <5>1, <5>2, <5>3
      <4>2. x2 = x /\ y2 = y + 1
        BY <1>6, <2>2, <3>5
      <4> QED BY <1>6, <3>1, <4>1, <4>2, BackedBySlot
    <3> QED BY <1>3, <3>4, <3>5
  <2> QED BY <1>1, <1>2, <1>5, <2>7, <2>8 DEF Backs
<1> QED BY <1>10, <1>11

LEMMA AllBacked ==
  ASSUME NEW o, NEW s \in Interface, ~Overflows(o, s), ~Packed(o, s),
         \A i \in DOMAIN s.args : ~Unlike(s.args[i])
  PROVE  Backs(o, s, Len(s.args) + 1)
<1>1. PICK n : n = Len(s.args)
  OBVIOUS
<1>2. n \in Nat /\ DOMAIN s.args = 1..n
  BY <1>1, InterfaceType
<1> DEFINE S == {j \in 0..n : Backs(o, s, j + 1)}
<1>3. 0 \in S
  <2>1. Used(o, s)[1] = NoneUsed /\ Counted(s)[1] = NoneCounted
    BY UsedUnfolds, CountedUnfolds
  <2>2. Backs(o, s, 1)
    BY <2>1 DEF Backs, NoneUsed, NoneCounted, UpTo, Over
  <2> QED BY <1>2, <2>2
<1>4. ASSUME NEW j \in 1..n, j - 1 \in S PROVE j \in S
  <2>1. (j - 1) + 1 = j /\ j \in 0..n
    BY <1>2
  <2>2. Backs(o, s, j)
    BY <1>4, <2>1
  <2>3. Backs(o, s, j + 1)
    BY <1>1, <1>2, <2>2, BacksNext
  <2> QED BY <2>1, <2>3
<1> HIDE DEF S
<1>5. \A j \in 0..n : j \in S
  BY <1>2, <1>3, <1>4, UpToN
<1> QED BY <1>1, <1>2, <1>5 DEF S

\* totals is what is counted for the arguments up to next, then for all; and as long as
\* every homogeneous aggregate found its registers, what Execute used up fits it.
FitsInv ==
  /\ phase = "prepare" => totals = Counted(sig)[next]
  /\ phase # "prepare" => totals = Counted(sig)[Len(sig.args) + 1]
  /\ phase = "rejected" => ~Accepted(totals)
  /\ phase \notin {"prepare", "rejected"} =>
       /\ Accepted(totals)
       /\ ~(os = "darwin" /\ sig.fixed > 0) /\ ~Spills(sig) => Fitted(Load, Counted(sig)[next])

LEMMA NothingFitted ==
  ASSUME NEW r \in Filled, r.gp = <<>>, r.fp = <<>>, r.stack = <<>>, r.dropped = {}
  PROVE  Fitted(r, NoneCounted)
<1>1. Gps(r) = 0 /\ Fps(r) = 0 /\ Slots(r) = 0
  BY DEF Gps, Fps, Slots
<1>2. Holds(r, 0, 0)
  BY <1>1 DEF Holds, UpTo, Over
<1>3. Within(NoneCounted, 0, 0, 0) /\ 0 \in Nat
  BY DEF Within, NoneCounted, Over
<1> QED BY <1>2, <1>3 DEF Fitted

LEMMA FitsKept == TypeInv /\ ArgInv /\ FitsInv /\ [Next]_vars => FitsInv'
<1> SUFFICES ASSUME TypeInv, ArgInv, FitsInv, [Next]_vars PROVE FitsInv'
  OBVIOUS
<1>1. PICK n : n = Len(sig.args)
  OBVIOUS
<1>2. /\ sig \in Interface /\ Load \in Filled /\ n \in Nat
      /\ next \in 1..(n + 1) /\ DOMAIN sig.args = 1..n
  <2>1. sig \in Interface /\ next \in 1..(n + 1)
    BY <1>1 DEF TypeInv, TypeOK, CallTypeOK
  <2> QED BY <1>1, <2>1, LoadType, InterfaceType
<1>3. ASSUME phase' \notin {"prepare", "rejected"}, phase \notin {"prepare", "rejected"},
             UNCHANGED <<os, sig, next, totals>>, Load' = Load
      PROVE  FitsInv'
  BY <1>3 DEF FitsInv
<1>4. CASE CountArg /\ UNCHANGED <<cbVars, callee>>
  <2>1. phase = "prepare" /\ next \in 1..n /\ sig' = sig /\ phase' = phase /\ next' = next + 1
    BY <1>1, <1>2, <1>4 DEF CountArg
  <2>2. totals' = Sum(totals, Classify(sig.args[next]))
    BY <1>4 DEF CountArg, Sum
  <2>3. totals = Counted(sig)[next]
    BY <2>1 DEF FitsInv
  <2>4. Counted(sig)[next + 1] = CountNext(sig, next, totals)
    BY <1>1, <1>2, <2>1, <2>3, CountedUnfolds
  <2>5. totals' = Counted(sig)[next + 1]
    BY <2>2, <2>4 DEF CountNext
  <2> QED BY <2>1, <2>5 DEF FitsInv
<1>5. CASE Prepared /\ UNCHANGED <<cbVars, callee>>
  <2>1. /\ phase = "prepare" /\ ~(next <= n) /\ next' = 1
        /\ os' = os /\ sig' = sig /\ totals' = totals /\ dropped' = dropped
    BY <1>1, <1>2, <1>5 DEF Prepared
  <2>2. next = n + 1
    BY <1>2, <2>1
  <2>3. totals = Counted(sig)[n + 1]
    BY <2>1, <2>2 DEF FitsInv
  <2>4. CASE Accepted(totals)
    <3>1. /\ phase' = "place"
          /\ regs' = [regs EXCEPT !.x8 = IF ViaPointer(sig.ret) THEN AddressOf(0) ELSE @]
      BY <1>5, <2>4 DEF Prepared
    <3>2. regs \in [gp : Seq(Word), fp : Seq(Word), stack : Seq(Word), x8 : Word]
      BY DEF TypeInv, TypeOK, CallTypeOK
    <3>3. regs.gp = <<>> /\ regs.fp = <<>> /\ regs.stack = <<>> /\ dropped = {}
      BY <2>1 DEF ArgInv
    <3>4. Load' = Load
      BY <2>1, <3>1, <3>2 DEF Load
    <3>5. Fitted(Load, Counted(sig)[1])
      <4>1. Load.gp = <<>> /\ Load.fp = <<>> /\ Load.stack = <<>> /\ Load.dropped = {}
        BY <3>3 DEF Load
      <4>2. Fitted(Load, NoneCounted)
        BY <1>2, <4>1, NothingFitted
      <4> QED BY <1>2, <4>2, CountedUnfolds
    <3> QED BY <1>1, <2>1, <2>3, <2>4, <3>1, <3>4, <3>5 DEF FitsInv
  <2>5. CASE ~Accepted(totals)
    <3>1. phase' = "rejected"
      BY <1>5, <2>5 DEF Prepared
    <3> QED BY <1>1, <2>1, <2>3, <2>5, <3>1 DEF FitsInv
  <2> QED BY <2>4, <2>5
<1>6. CASE Execute /\ UNCHANGED <<cbVars, callee>>
  <2>1. /\ phase = "place" /\ phase' = phase /\ os' = os /\ sig' = sig /\ totals' = totals
        /\ next' = next + 1
    BY <1>6 DEF Execute
  <2>2. PICK r, t, c : r = PlaceArg(Load, next, t) /\ t = sig.args[next] /\ c = Counted(sig)[next]
    OBVIOUS
  <2>3. next \in 1..n /\ t \in Types /\ Load' = r
    BY <1>1, <1>6, <2>2, ExecuteTyped
  <2>4. c \in Counts /\ Counted(sig)[next + 1] = Sum(c, Classify(t))
    BY <1>1, <1>2, <2>2, <2>3, CountedUnfolds DEF CountNext
  <2>5. ASSUME ~(os = "darwin" /\ sig.fixed > 0), ~Spills(sig)
        PROVE  Fitted(r, Counted(sig)[next + 1])
    <3>1. Fitted(Load, c)
      BY <2>1, <2>2, <2>5 DEF FitsInv
    <3>2. ~AtBoundary(next) /\ next \in Nat
      BY <2>3, <2>5 DEF AtBoundary
    <3>3. IsHFA(t) => ~(c.fp + Len(t.leaves) > 8)
      BY <1>2, <2>2, <2>3, <2>5 DEF Spills
    <3>4. c.fp \in Nat /\ Len(t.leaves) \in Nat
      <4>1. Len(t.leaves) \in Nat
        BY <2>3, LeavesType
      <4> QED BY <2>4, <4>1 DEF Counts
    <3>5. IsHFA(t) => c.fp + Len(t.leaves) <= 8
      BY <3>3, <3>4
    <3> QED BY <2>2, <2>3, <2>4, <3>1, <3>2, <3>5, ArgFitted
  <2>6. phase' # "prepare" /\ phase' \notin {"prepare", "rejected"} /\ phase # "rejected"
    BY <2>1
  <2> QED BY <2>1, <2>3, <2>5, <2>6 DEF FitsInv
<1>7. CASE EnterC /\ UNCHANGED <<cbVars, callee>>
  BY <1>3, <1>7 DEF EnterC, Load
<1>8. CASE Return /\ UNCHANGED <<cbVars, callee>>
  <2>1. phase = "return" /\ phase' \in {"unsupported", "done"}
        /\ UNCHANGED <<os, sig, next, totals, regs, dropped>>
    BY <1>8 DEF Return
  <2> QED BY <1>3, <2>1 DEF Load
<1>9. CASE CReturns \/ GoReturns
  <2>1. phase = "inC" /\ phase' = "return" /\ UNCHANGED <<os, sig, next, totals, regs, dropped>>
    BY <1>9 DEF CReturns, GoReturns, LeaveC
  <2> QED BY <1>3, <2>1 DEF Load
<1>10. CASE UNCHANGED callVars
  BY <1>10 DEF callVars, FitsInv, Load
<1> QED BY <1>4, <1>5, <1>6, <1>7, <1>8, <1>9, <1>10
        DEF Next, CallNext, CCallsBack, GoEntered, vars

LEMMA NineWords ==
  ASSUME NEW c \in Counts, ~Accepted(c), NEW m \in Nat, Over(c.gp, 8) + Over(c.fp, 8) <= m
  PROVE  m > 7
<1>1. PICK x, y : x = c.gp /\ y = c.fp
  OBVIOUS
<1>2. x \in Nat /\ y \in Nat
  BY <1>1 DEF Counts
<1>3. Over(x, 6) <= Over(x, 8) + 2 /\ Over(x, 8) \in Nat /\ Over(x, 6) \in Nat /\ Over(y, 8) \in Nat
  BY <1>2 DEF Over
<1>4. ~(Over(x, 6) + Over(y, 8) <= 9)
  BY <1>1 DEF Accepted
<1>5. Over(x, 8) + Over(y, 8) <= m
  BY <1>1
<1> QED BY <1>3, <1>4, <1>5

LEMMA FitsAsSaid == TypeInv /\ ArgInv /\ FitsInv => AcceptedCallFits
<1> SUFFICES ASSUME TypeInv, ArgInv, FitsInv PROVE AcceptedCallFits
  OBVIOUS
<1>1. PICK n, all : n = Len(sig.args) /\ all = Counted(sig)[n + 1]
  OBVIOUS
<1>2. sig \in Interface /\ n \in Nat /\ next \in 1..(n + 1) /\ Load.dropped = dropped
  <2>1. sig \in Interface /\ next \in 1..(n + 1)
    BY <1>1 DEF TypeInv, TypeOK, CallTypeOK
  <2>2. Load.dropped = dropped
    BY DEF Load
  <2> QED BY <1>1, <2>1, <2>2, InterfaceType
<1>3. all \in Counts /\ Counted(sig)[next] \in Counts /\ AtMost(Counted(sig)[next], all)
  <2>1. n + 1 \in 1..(n + 1)
    BY <1>2
  <2> QED BY <1>1, <1>2, <2>1, CountedUnfolds, CountedGrows
<1>4. ASSUME dropped # {}, ~(os = "darwin" /\ sig.fixed > 0), ~Spills(sig)
      PROVE  totals.gp < 8 /\ totals.fp > 15
  <2>1. phase \notin {"prepare", "rejected"}
    BY <1>4 DEF ArgInv
  <2>2. totals = all /\ Accepted(all) /\ Fitted(Load, Counted(sig)[next])
    BY <1>1, <1>4, <2>1 DEF FitsInv
  <2> QED BY <1>2, <1>3, <1>4, <2>2, Lost
<1>5. ASSUME phase = "rejected", Agreed(sig)
      PROVE  Used(os, sig)[n + 1].stack > 8 * 7
  <2>1. totals = all /\ ~Accepted(all)
    BY <1>1, <1>5 DEF FitsInv
  <2>2. Backs(os, sig, n + 1)
    BY <1>1, <1>2, <1>5, AllBacked DEF Agreed
  <2>3. PICK b : b = Used(os, sig)[n + 1].stack
    OBVIOUS
  <2>4. b \in Nat
    <3>1. n + 1 \in 1..(n + 1)
      BY <1>2
    <3>2. Used(os, sig)[n + 1] \in UsedStates
      BY <1>1, <1>2, <3>1, UsedUnfolds
    <3> QED BY <2>3, <3>2 DEF UsedStates
  <2>5. Over(all.gp, 8) + Over(all.fp, 8) <= (b + 7) \div 8
    BY <1>1, <2>2, <2>3 DEF Backs
  <2>6. PICK m : m = (b + 7) \div 8
    OBVIOUS
  <2>7. m \in Nat
    BY <2>4, <2>6
  <2>8. m > 7
    BY <1>3, <2>1, <2>5, <2>6, <2>7, NineWords
  <2>9. b > 56
    BY <2>4, <2>6, <2>8
  <2> QED BY <2>3, <2>9
<1> QED BY <1>1, <1>4, <1>5 DEF AcceptedCallFits

\* Execute drops a value of an accepted call only in the cases the property names, though
\* preparePlatformSpecific counts with the registers and slots of amd64; and it turns down no
\* call that fits, where goffi's rules are those of the ABI.
THEOREM AcceptedCallsFit == Spec => []AcceptedCallFits
<1>1. Init => TypeInv /\ ArgInv /\ FitsInv
  <2> SUFFICES ASSUME Init PROVE TypeInv /\ ArgInv /\ FitsInv
    OBVIOUS
  <2>1. TypeInv
    BY TypeInit
  <2>2. ArgInv
    BY DEF Init, CallInit, ArgInv
  <2>3. sig \in Interface /\ phase = "prepare" /\ next = 1 /\ totals = NoneCounted
    BY <2>1 DEF TypeInv, Init, CallInit, NoneCounted
  <2>4. FitsInv
    BY <2>3, CountedUnfolds DEF FitsInv
  <2> QED BY <2>1, <2>2, <2>4
<1>2. TypeInv /\ ArgInv /\ FitsInv /\ [Next]_vars => TypeInv' /\ ArgInv' /\ FitsInv'
  BY TypeKept, ArgKept, FitsKept
<1>3. TypeInv /\ ArgInv /\ FitsInv => AcceptedCallFits
  BY FitsAsSaid
<1> QED BY <1>1, <1>2, <1>3, PTL DEF Spec
--------------------------------------------------------------------------------
(* Callbacks.                                                               *)

\* No struct, no int: goffi's rules for a callback's arguments are those of the ABI.
LEMMA CallableAgrees ==
  ASSUME NEW s \in Interface, Callable(s), ~Packed(os, s)
  PROVE  Agreed(s)
<1>1. ASSUME NEW i \in DOMAIN s.args PROVE ~IsStruct(s.args[i]) /\ ~Unlike(s.args[i])
  <2>1. PICK t : t = s.args[i]
    OBVIOUS
  <2>2. t \in Types /\ ~IsStruct(t) /\ ~Unknown(t)
    BY <2>1, InterfaceType DEF Callable, Unknown
  <2>3. Len(t.leaves) = 1 /\ t.leaves[1] = Leaf(t.kind, 0, t.size) /\ DOMAIN t.leaves = 1..Len(t.leaves)
    BY <2>2, ScalarType, LeavesType
  <2>4. t.leaves[1].kind = t.kind
    BY <2>3 DEF Leaf
  <2>5. \A j \in DOMAIN t.leaves : ~Unknown(t.leaves[j])
    <3>1. \A j \in 1..1 : j = 1
      OBVIOUS
    <3> QED BY <2>2, <2>3, <2>4, <3>1 DEF Unknown
  <2> QED BY <2>1, <2>2, <2>5 DEF Unlike, FloatsApart, Lags, Small
<1>2. ~Overflows(os, s)
  BY <1>1 DEF Overflows
<1> QED BY <1>1, <1>2 DEF Agreed

KindOf(t) == IF IsFloat(t) THEN "fp" ELSE "gp"

\* What an argument i of type t takes: p is its only part, u and v what is used before
\* and after it.
Takes(o, s, i, t, u, v, kind, p, start, size) ==
  /\ t \in Types /\ u \in UsedStates /\ v \in UsedStates /\ kind \in {"gp", "fp"}
  /\ DOMAIN Placed(o, s, i) = 1..1 /\ p.word = Parts(i, t)[1] /\ Delivers(p.word, p.word, t)
  /\ p.word.is # "unset"
  /\ u[kind] < 8 => p.at = <<kind, u[kind] + 1>> /\ v[kind] = u[kind] + 1 /\ v.stack = u.stack
  /\ ~(u[kind] < 8) => /\ p.at = <<"stack", start>> /\ v[kind] = u[kind]
                       /\ v.stack = start + size /\ Single(t) /\ ~Fits(o, s, i, u)
  /\ start \in Nat /\ start >= u.stack /\ u.stack \in Nat /\ size \in 1..8
  /\ \A other \in {"gp", "fp"} : other # kind => v[other] = u[other]

\* An argument of a callback takes one register, or else one slot.
LEMMA CallableTakes ==
  ASSUME NEW o, NEW s \in Interface, Callable(s), NEW i \in 1..Len(s.args)
  PROVE  Takes(o, s, i, s.args[i], Used(o, s)[i], Used(o, s)[i + 1], KindOf(s.args[i]),
               Placed(o, s, i)[1], StackStart(o, s, i, Used(o, s)[i]), StackSize(o, s, i))
<1> SUFFICES ASSUME NEW t, t = s.args[i], NEW u, u = Used(o, s)[i], NEW v, v = Used(o, s)[i + 1],
                    NEW kind, kind = KindOf(t), NEW p, p = Placed(o, s, i)[1],
                    NEW start, start = StackStart(o, s, i, u), NEW size, size = StackSize(o, s, i)
             PROVE  Takes(o, s, i, t, u, v, kind, p, start, size)
  OBVIOUS
<1>1. t \in Types /\ u \in UsedStates /\ v = UseNext(o, s, i, u) /\ i \in Nat
  BY NextUsed
<1>2. v \in UsedStates
  BY <1>1, UseNextType
<1>3. ~IsStruct(t) /\ s.fixed = 0
  BY InterfaceType DEF Callable
<1>4. ~ByReference(t) /\ ~Hfa(t) /\ Single(t)
  BY <1>3 DEF ByReference, Hfa, Single
<1>5. RegKind(t) = kind /\ RegNeed(t) = 1 /\ kind \in {"gp", "fp"}
  BY <1>1, <1>3, <1>4, NeedType, ScalarType DEF KindOf
<1>6. ~OnStack(o, s, i)
  BY <1>3 DEF OnStack
<1>7. size \in 1..8 /\ DOMAIN Parts(i, t) = 1..1 /\ Parts(i, t)[1].off = 0
  BY <1>4, SingleSlot
<1>8. start \in Nat /\ start >= u.stack /\ u.stack \in Nat
  BY <1>1, StackType
<1>9. DOMAIN Placed(o, s, i) = 1..1 /\ p.word = Parts(i, t)[1] /\ Delivers(p.word, p.word, t)
      /\ p.word.is # "unset"
  <2>1. 1 \in 1..1
    OBVIOUS
  <2>2. DOMAIN Placed(o, s, i) = 1..1 /\ p.word = Parts(i, t)[1]
    BY <1>7, <2>1, PlacedIs
  <2>3. Delivers(Parts(i, t)[1], Parts(i, t)[1], t)
    BY <1>1, <1>7, <2>1, PartsWhole
  <2>4. Parts(i, t)[1].is # "unset"
    BY <1>1, <1>7, <2>1, PartsSet
  <2> QED BY <2>2, <2>3, <2>4
<1>10. u[kind] \in 0..8
  BY <1>1, <1>5 DEF UsedStates
<1>11. Fits(o, s, i, u) <=> u[kind] < 8
  BY <1>5, <1>6, <1>10 DEF Fits
<1>12. /\ Fits(o, s, i, u) => v[kind] = u[kind] + 1 /\ v.stack = u.stack
       /\ ~Fits(o, s, i, u) => v[kind] = 8 /\ v.stack = start + size
       /\ \A other \in {"gp", "fp"} : other # kind => v[other] = u[other]
  BY <1>1, <1>5, <1>6, UseNextType
<1>13. CASE u[kind] < 8
  <2>1. p.at = <<kind, u[kind] + 1>>
    BY <1>5, <1>7, <1>11, <1>13, PlacedIs
  <2> QED BY <1>1, <1>2, <1>5, <1>7, <1>8, <1>9, <1>11, <1>12, <1>13, <2>1 DEF Takes
<1>14. CASE ~(u[kind] < 8)
  <2>1. u[kind] = 8
    BY <1>10, <1>14
  <2>2. p.at = <<"stack", start + Parts(i, t)[1].off>>
    BY <1>7, <1>11, <1>14, PlacedIs
  <2>3. p.at = <<"stack", start>>
    BY <1>7, <1>8, <2>2
  <2> QED BY <1>1, <1>2, <1>4, <1>5, <1>7, <1>8, <1>9, <1>11, <1>12, <1>14, <2>1, <2>3 DEF Takes
<1> QED BY <1>13, <1>14

LEMMA CallableOnePart ==
  ASSUME NEW o, NEW s \in Interface, Callable(s), NEW i \in 1..Len(s.args)
  PROVE  DOMAIN Placed(o, s, i) = 1..1
<1> PICK t, u, v, kind, p, start, size : Takes(o, s, i, t, u, v, kind, p, start, size)
  BY CallableTakes
<1> QED BY DEF Takes

NoMore(u, v) == u.gp <= v.gp /\ u.fp <= v.fp /\ u.stack <= v.stack

LEMMA NoMoreOn ==
  ASSUME NEW x \in UsedStates, NEW y \in UsedStates, NEW z \in UsedStates, NoMore(x, y), NoMore(y, z)
  PROVE  NoMore(x, z)
<1>1. /\ x.gp \in Int /\ x.fp \in Int /\ x.stack \in Int
      /\ y.gp \in Int /\ y.fp \in Int /\ y.stack \in Int
      /\ z.gp \in Int /\ z.fp \in Int /\ z.stack \in Int
  BY DEF UsedStates
<1> QED BY <1>1 DEF NoMore

\* More arguments use no less.
LEMMA UsedGrows ==
  ASSUME NEW o, NEW s \in Interface, NEW k \in 1..(Len(s.args) + 1), NEW j \in 1..k
  PROVE  NoMore(Used(o, s)[j], Used(o, s)[k])
<1>1. PICK n, h : n = Len(s.args) /\ h = Used(o, s)
  OBVIOUS
<1>2. n \in Nat /\ k \in 1..(n + 1)
  <2>1. n \in Nat
    BY <1>1, InterfaceType
  <2> QED BY <1>1, <2>1
<1>3. \A l \in 1..(n + 1) : h[l] \in UsedStates
  BY <1>1, UsedUnfolds
<1> DEFINE S == {d \in 0..(k - 1) : NoMore(h[k - d], h[k])}
<1>4. 0 \in S
  <2>1. k - 0 = k /\ 0 \in 0..(k - 1)
    BY <1>2
  <2>2. h[k] \in UsedStates
    BY <1>2, <1>3
  <2>3. NoMore(h[k], h[k])
    BY <2>2 DEF NoMore, UsedStates
  <2> QED BY <2>1, <2>3
<1>5. ASSUME NEW d \in 1..(k - 1), d - 1 \in S PROVE d \in S
  <2>1. PICK l : l = k - d
    OBVIOUS
  <2>2. l \in 1..n /\ l + 1 = k - (d - 1) /\ l \in 1..(n + 1) /\ l + 1 \in 1..(n + 1) /\ d \in 0..(k - 1)
    BY <1>2, <2>1
  <2>3. NoMore(h[l + 1], h[k])
    BY <1>5, <2>2
  <2>4. PICK x, y, z : x = h[l] /\ y = h[l + 1] /\ z = h[k]
    OBVIOUS
  <2>5. x \in UsedStates /\ y \in UsedStates /\ z \in UsedStates
    BY <1>2, <1>3, <2>2, <2>4
  <2>6. NoMore(x, y)
    <3>1. l \in 1..Len(s.args) /\ y = UseNext(o, s, l, x)
      BY <1>1, <2>2, <2>4, NextUsed
    <3>2. \A kind \in {"gp", "fp"} : y[kind] >= x[kind]
      BY <2>5, <3>1, UseNextType
    <3>3. y.stack >= x.stack
      <4>1. PICK start, size : start = StackStart(o, s, l, x) /\ size = StackSize(o, s, l)
        OBVIOUS
      <4>2. start \in Nat /\ size \in Nat /\ start >= x.stack /\ x.stack \in Nat
        BY <2>5, <3>1, <4>1, StackType
      <4>3. y.stack = x.stack \/ y.stack = start + size
        BY <2>5, <3>1, <4>1, UseNextType
      <4> QED BY <4>2, <4>3
    <3>4. y.gp >= x.gp /\ y.fp >= x.fp
      BY <3>2
    <3>5. /\ x.gp \in Int /\ x.fp \in Int /\ x.stack \in Int
          /\ y.gp \in Int /\ y.fp \in Int /\ y.stack \in Int
      BY <2>5 DEF UsedStates
    <3> QED BY <3>3, <3>4, <3>5 DEF NoMore
  <2>7. NoMore(x, z)
    BY <2>3, <2>4, <2>5, <2>6, NoMoreOn
  <2> QED BY <2>1, <2>2, <2>4, <2>7
<1> HIDE DEF S
<1>6. \A d \in 0..(k - 1) : d \in S
  <2>1. k - 1 \in Nat
    BY <1>2
  <2>2. PICK m : m = k - 1
    OBVIOUS
  <2>3. \A d \in 0..m : d \in S
    BY <1>4, <1>5, <2>1, <2>2, UpToN
  <2> QED BY <2>2, <2>3
<1>7. k - j \in 0..(k - 1) /\ k - (k - j) = j
  BY <1>2
<1>8. k - j \in S
  BY <1>6, <1>7
<1> QED BY <1>1, <1>7, <1>8 DEF S

\* Two arguments of a callback are in two places.
LEMMA PlacesDiffer ==
  ASSUME NEW o, NEW s \in Interface, Callable(s),
         NEW i \in 1..Len(s.args), NEW l \in 1..Len(s.args), i < l
  PROVE  Placed(o, s, i)[1].at # Placed(o, s, l)[1].at
<1>1. PICK n : n = Len(s.args)
  OBVIOUS
<1>2. n \in Nat /\ i \in 1..n /\ l \in 1..n
  BY <1>1, InterfaceType
<1>3. l \in 1..(n + 1) /\ i + 1 \in 1..l
  BY <1>2
<1>4. PICK t, u, v, kind, p, start, size :
        /\ t = s.args[i] /\ u = Used(o, s)[i] /\ v = Used(o, s)[i + 1] /\ kind = KindOf(t)
        /\ p = Placed(o, s, i)[1] /\ start = StackStart(o, s, i, u) /\ size = StackSize(o, s, i)
  OBVIOUS
<1>5. PICK t2, u2, v2, kind2, p2, start2, size2 :
        /\ t2 = s.args[l] /\ u2 = Used(o, s)[l] /\ v2 = Used(o, s)[l + 1] /\ kind2 = KindOf(t2)
        /\ p2 = Placed(o, s, l)[1] /\ start2 = StackStart(o, s, l, u2) /\ size2 = StackSize(o, s, l)
  OBVIOUS
<1>6. NoMore(v, u2)
  BY <1>1, <1>3, <1>4, <1>5, UsedGrows
<1>7. Takes(o, s, i, t, u, v, kind, p, start, size) /\ Takes(o, s, l, t2, u2, v2, kind2, p2, start2, size2)
  BY <1>4, <1>5, CallableTakes
<1>8. /\ u \in UsedStates /\ v \in UsedStates /\ kind \in {"gp", "fp"}
      /\ u[kind] < 8 => p.at = <<kind, u[kind] + 1>> /\ v[kind] = u[kind] + 1
      /\ ~(u[kind] < 8) => p.at = <<"stack", start>> /\ v.stack = start + size
      /\ start \in Nat /\ size \in 1..8
      /\ u2 \in UsedStates /\ kind2 \in {"gp", "fp"}
      /\ u2[kind2] < 8 => p2.at = <<kind2, u2[kind2] + 1>>
      /\ ~(u2[kind2] < 8) => p2.at = <<"stack", start2>>
      /\ start2 \in Nat /\ start2 >= u2.stack
  BY <1>7 DEF Takes
<1>9. CASE u[kind] < 8 /\ u2[kind2] < 8 /\ kind = kind2
  <2>1. v[kind] <= u2[kind] /\ u[kind] \in Nat /\ u2[kind] \in Nat
    <3>1. v.gp <= u2.gp /\ v.fp <= u2.fp
      BY <1>6 DEF NoMore
    <3>2. v[kind] <= u2[kind]
      <4>1. kind \in {"gp", "fp"}
        BY <1>8
      <4> QED BY <3>1, <4>1
    <3>3. u \in UsedStates /\ u2 \in UsedStates /\ kind \in {"gp", "fp"}
      BY <1>8
    <3>4. u.gp \in Nat /\ u.fp \in Nat /\ u2.gp \in Nat /\ u2.fp \in Nat
      BY <3>3 DEF UsedStates
    <3>5. u[kind] \in Nat /\ u2[kind] \in Nat
      BY <3>3, <3>4
    <3> QED BY <3>2, <3>5
  <2>2. PICK a, b : a = u[kind] /\ b = u2[kind]
    OBVIOUS
  <2>3. a \in Nat /\ b \in Nat /\ a + 1 <= b /\ p.at = <<kind, a + 1>> /\ p2.at = <<kind, b + 1>>
    BY <1>8, <1>9, <2>1, <2>2
  <2>4. a + 1 # b + 1
    BY <2>3
  <2>5. p.at # p2.at
    BY <2>3, <2>4
  <2> QED BY <1>4, <1>5, <2>5
<1>10. CASE u[kind] < 8 /\ u2[kind2] < 8 /\ kind # kind2
  <2>1. p.at[1] = kind /\ p2.at[1] = kind2
    BY <1>8, <1>10
  <2> QED BY <1>4, <1>5, <1>10, <2>1
<1>11. CASE u[kind] < 8 /\ ~(u2[kind2] < 8)
  <2>1. p.at[1] = kind /\ p2.at[1] = "stack"
    BY <1>8, <1>11
  <2> QED BY <1>4, <1>5, <1>8, <2>1
<1>12. CASE ~(u[kind] < 8) /\ u2[kind2] < 8
  <2>1. p.at[1] = "stack" /\ p2.at[1] = kind2
    BY <1>8, <1>12
  <2> QED BY <1>4, <1>5, <1>8, <2>1
<1>13. CASE ~(u[kind] < 8) /\ ~(u2[kind2] < 8)
  <2>1. p.at = <<"stack", start>> /\ p2.at = <<"stack", start2>>
    BY <1>8, <1>13
  <2>2. PICK x, y : x = v.stack /\ y = u2.stack
    OBVIOUS
  <2>3. x \in Nat /\ y \in Nat /\ x <= y /\ x = start + size /\ start2 >= y
    BY <1>6, <1>8, <1>13, <2>2 DEF NoMore, UsedStates
  <2>4. start # start2
    BY <1>8, <2>3
  <2>5. p.at # p2.at
    BY <2>1, <2>4
  <2> QED BY <1>4, <1>5, <2>5
<1> QED BY <1>9, <1>10, <1>11, <1>12, <1>13

\* In the frame f the callback is entered with, argument i is where the ABI puts it.
Held(o, s, f, i) ==
  LET p == Placed(o, s, i)[1]
  IN  /\ p.at[1] \in {"gp", "fp"} => Delivers(f[p.at[1]][p.at[2]], p.word, s.args[i])
      /\ p.at[1] = "stack" => /\ p.at[2] \div 8 + 1 \in DOMAIN f.stack
                              /\ Delivers(f.stack[p.at[2] \div 8 + 1], p.word, s.args[i])

\* In the frame C fills every argument is alone at its place.
LEMMA AbiFrameHolds ==
  ASSUME NEW s \in Interface, Callable(s), ~Packed(os, s), NEW i \in 1..Len(s.args)
  PROVE  Held(os, s, AbiFrame(s), i)
<1>1. PICK n : n = Len(s.args)
  OBVIOUS
<1>2. n \in Nat /\ i \in 1..n /\ DOMAIN s.args = 1..n
  BY <1>1, InterfaceType
<1>3. PICK parts : parts = UNION {{Placed(os, s, l)[j] : j \in DOMAIN Placed(os, s, l)} : l \in DOMAIN s.args}
  OBVIOUS
<1>4. PICK t, u, v, kind, p, start, size :
        /\ t = s.args[i] /\ u = Used(os, s)[i] /\ v = Used(os, s)[i + 1] /\ kind = KindOf(t)
        /\ p = Placed(os, s, i)[1] /\ start = StackStart(os, s, i, u) /\ size = StackSize(os, s, i)
  OBVIOUS
<1>5. Takes(os, s, i, t, u, v, kind, p, start, size)
  BY <1>4, CallableTakes
<1>6. /\ u \in UsedStates /\ v \in UsedStates /\ kind \in {"gp", "fp"} /\ Delivers(p.word, p.word, t)
      /\ DOMAIN Placed(os, s, i) = 1..1
      /\ u[kind] < 8 => p.at = <<kind, u[kind] + 1>>
      /\ ~(u[kind] < 8) => /\ p.at = <<"stack", start>> /\ v.stack = start + size
                           /\ Single(t) /\ ~Fits(os, s, i, u)
      /\ size \in 1..8 /\ u.stack \in Nat
  BY <1>5 DEF Takes
<1>7. p \in parts
  <2>1. 1 \in DOMAIN Placed(os, s, i) /\ i \in DOMAIN s.args
    BY <1>2, <1>6
  <2> QED BY <1>3, <1>4, <2>1
<1>8. ASSUME NEW q \in parts, q.at = p.at PROVE q = p
  <2>1. PICK l \in 1..n : \E j \in DOMAIN Placed(os, s, l) : q = Placed(os, s, l)[j]
    BY <1>2, <1>3
  <2>2. PICK j \in DOMAIN Placed(os, s, l) : q = Placed(os, s, l)[j]
    BY <2>1
  <2>3. j = 1
    <3>1. DOMAIN Placed(os, s, l) = 1..1
      BY <1>1, CallableOnePart
    <3>2. \A k \in 1..1 : k = 1
      OBVIOUS
    <3> QED BY <3>1, <3>2
  <2>4. ~(l < i) /\ ~(i < l)
    BY <1>1, <1>4, <1>8, <2>2, <2>3, PlacesDiffer
  <2>5. l = i
    BY <1>2, <2>4
  <2> QED BY <1>4, <2>2, <2>3, <2>5
<1> DEFINE held(at) == LET here == {q \in parts : q.at = at}
                       IN  IF here = {} THEN Unset ELSE (CHOOSE q \in here : TRUE).word
<1>9. held(p.at) = p.word
  <2>1. PICK here : here = {q \in parts : q.at = p.at}
    OBVIOUS
  <2>2. here = {p}
    BY <1>7, <1>8, <2>1
  <2>3. (CHOOSE q \in {p} : TRUE) = p
    OBVIOUS
  <2>4. held(p.at) = IF here = {} THEN Unset ELSE (CHOOSE q \in here : TRUE).word
    BY <2>1
  <2> QED BY <2>2, <2>3, <2>4
<1>10. PICK slots : slots = (Used(os, s)[Len(s.args) + 1].stack + 7) \div 8
  OBVIOUS
<1>11. AbiFrame(s) = [gp |-> [j \in 1..8 |-> held(Nth("gp", j))],
                      fp |-> [j \in 1..8 |-> held(Nth("fp", j))],
                      stack |-> [j \in 1..slots |-> held(Nth("stack", j))]]
  BY <1>3, <1>10 DEF AbiFrame
<1> HIDE DEF held
<1>12. PICK f : f = AbiFrame(s)
  OBVIOUS
<1>13. f.gp = [j \in 1..8 |-> held(Nth("gp", j))] /\ f.fp = [j \in 1..8 |-> held(Nth("fp", j))]
       /\ f.stack = [j \in 1..slots |-> held(Nth("stack", j))]
  BY <1>11, <1>12
<1>14. CASE u[kind] < 8
  <2>1. PICK m : m = u[kind] + 1
    OBVIOUS
  <2>2. m \in 1..8
    BY <1>6, <1>14, <2>1 DEF UsedStates
  <2>3. p.at = <<kind, m>> /\ p.at[1] = kind /\ p.at[2] = m
    BY <1>6, <1>14, <2>1
  <2>4. Nth(kind, m) = p.at
    BY <1>6, <2>3 DEF Nth
  <2>5. f[kind][m] = p.word
    <3>1. kind = "gp" => f[kind][m] = held(Nth("gp", m))
      BY <1>13, <2>2
    <3>2. kind = "fp" => f[kind][m] = held(Nth("fp", m))
      BY <1>13, <2>2
    <3> QED BY <1>6, <1>9, <2>4, <3>1, <3>2
  <2>6. kind # "stack"
    BY <1>6
  <2> QED BY <1>4, <1>6, <1>12, <2>3, <2>5, <2>6 DEF Held
<1>15. CASE ~(u[kind] < 8)
  <2>1. PICK m, k : m = (u.stack + 7) \div 8 /\ k = m + 1
    OBVIOUS
  <2>2. start = 8 * m
    BY <1>1, <1>4, <1>6, <1>15, <2>1, StartsSlot
  <2>3. m \in Nat
    BY <1>6, <2>1
  <2>4. p.at = <<"stack", start>> /\ p.at[1] = "stack" /\ p.at[2] = start
    BY <1>6, <1>15
  <2>5. start \div 8 + 1 = k /\ 8 * (k - 1) = start
    BY <2>1, <2>2, <2>3
  <2>6. k \in 1..slots
    <3>1. PICK x, y : x = v.stack /\ y = Used(os, s)[n + 1].stack
      OBVIOUS
    <3>2. i + 1 \in 1..(n + 1) /\ n + 1 \in 1..(n + 1)
      BY <1>2
    <3>3. NoMore(v, Used(os, s)[n + 1]) /\ Used(os, s)[n + 1] \in UsedStates
      BY <1>1, <1>4, <3>2, UsedGrows, UsedUnfolds
    <3>4. x \in Nat /\ y \in Nat /\ x <= y
      BY <1>6, <3>1, <3>3 DEF NoMore, UsedStates
    <3>5. x = 8 * m + size
      BY <1>6, <1>15, <2>2, <3>1
    <3>6. slots = (y + 7) \div 8
      BY <1>1, <1>10, <3>1
    <3>7. PICK z : z = (y + 7) \div 8
      OBVIOUS
    <3>8. y >= 8 * m + 1
      BY <1>6, <2>3, <3>4, <3>5
    <3>9. z \in Nat /\ z >= m + 1
      BY <2>3, <3>4, <3>7, <3>8
    <3> QED BY <2>1, <2>3, <3>6, <3>7, <3>9
  <2>7. Nth("stack", k) = p.at
    BY <2>4, <2>5 DEF Nth
  <2>8. k \in DOMAIN f.stack /\ f.stack[k] = p.word
    BY <1>9, <1>13, <2>6, <2>7
  <2>9. p.at[1] \notin {"gp", "fp"} /\ p.at[2] \div 8 + 1 = k
    BY <2>4, <2>5
  <2> QED BY <1>4, <1>6, <1>12, <2>4, <2>8, <2>9 DEF Held
<1> QED BY <1>14, <1>15

\* So is it in the registers and slots Execute fills.
LEMMA PassedFrameHolds ==
  ASSUME TypeInv, ArgInv, Callable(sig), ~Packed(os, sig), dropped = {}, phase = "inC",
         NEW i \in 1..Len(sig.args)
  PROVE  Held(os, sig, [gp |-> [j \in 1..8 |-> At(Nth("gp", j))],
                        fp |-> [j \in 1..8 |-> At(Nth("fp", j))],
                        stack |-> [j \in 1..7 |-> At(Nth("stack", j))]], i)
<1>1. sig \in Interface /\ Load \in Filled /\ next \in Nat /\ Slots(Load) <= 7
  <2>1. sig \in Interface /\ Load \in Filled
    BY LoadType DEF TypeInv
  <2>2. next \in Nat
    BY <2>1, InterfaceType DEF TypeInv, TypeOK, CallTypeOK
  <2> QED BY <2>1, <2>2 DEF Filled
<1>2. Passed(os, sig, Load, next)
  BY <1>1, CallableAgrees DEF ArgInv
<1>3. i \in 1..(next - 1)
  <2>1. PICK n : n = Len(sig.args)
    OBVIOUS
  <2>2. n \in Nat /\ i \in 1..n /\ DOMAIN sig.args = 1..n /\ sig.given = n
    BY <1>1, <2>1, InterfaceType DEF Callable
  <2>3. i \in Values
    BY <2>2 DEF Values
  <2>4. i < next
    BY <2>3 DEF ArgInv
  <2> QED BY <1>1, <2>2, <2>4
<1>4. PICK t, u, v, kind, p, start, size :
        /\ t = sig.args[i] /\ u = Used(os, sig)[i] /\ v = Used(os, sig)[i + 1] /\ kind = KindOf(t)
        /\ p = Placed(os, sig, i)[1] /\ start = StackStart(os, sig, i, u)
        /\ size = StackSize(os, sig, i)
  OBVIOUS
<1>5. Takes(os, sig, i, t, u, v, kind, p, start, size)
  BY <1>1, <1>4, CallableTakes
<1>6. /\ u \in UsedStates /\ kind \in {"gp", "fp"} /\ DOMAIN Placed(os, sig, i) = 1..1
      /\ u[kind] < 8 => p.at = <<kind, u[kind] + 1>>
      /\ ~(u[kind] < 8) => p.at = <<"stack", start>> /\ Single(t) /\ ~Fits(os, sig, i, u)
      /\ u.stack \in Nat
  BY <1>5 DEF Takes
<1>7. Delivers(Found(Load, p.at[1], p.at[2]), p.word, t) /\ p.word.is # "unset"
  <2>1. 1 \in DOMAIN Placed(os, sig, i)
    BY <1>6
  <2>2. There(os, sig, Load, i, 1)
    BY <1>2, <1>3, <2>1 DEF Passed
  <2>3. p.word.is # "unset"
    BY <1>5 DEF Takes
  <2> QED BY <1>4, <2>2, <2>3 DEF There
<1>8. PICK f : f = [gp |-> [j \in 1..8 |-> At(Nth("gp", j))],
                    fp |-> [j \in 1..8 |-> At(Nth("fp", j))],
                    stack |-> [j \in 1..7 |-> At(Nth("stack", j))]]
  OBVIOUS
<1>9. f.gp = [j \in 1..8 |-> At(Nth("gp", j))] /\ f.fp = [j \in 1..8 |-> At(Nth("fp", j))]
      /\ f.stack = [j \in 1..7 |-> At(Nth("stack", j))]
  BY <1>8
<1>10. CASE u[kind] < 8
  <2>1. PICK m : m = u[kind] + 1
    OBVIOUS
  <2>2. m \in 1..8
    BY <1>6, <1>10, <2>1 DEF UsedStates
  <2>3. p.at = <<kind, m>> /\ p.at[1] = kind /\ p.at[2] = m
    BY <1>6, <1>10, <2>1
  <2>4. Nth(kind, m) = <<kind, m>>
    BY <1>6 DEF Nth
  <2>5. f[kind][m] = At(Nth(kind, m))
    <3>1. kind = "gp" => f[kind][m] = At(Nth("gp", m))
      BY <1>9, <2>2
    <3>2. kind = "fp" => f[kind][m] = At(Nth("fp", m))
      BY <1>9, <2>2
    <3> QED BY <1>6, <3>1, <3>2
  <2>6. At(<<kind, m>>) = Found(Load, kind, m)
    BY <1>6, <2>2, AtIsFound
  <2>7. kind # "stack"
    BY <1>6
  <2>8. Delivers(f[kind][m], p.word, t)
    BY <1>7, <2>3, <2>4, <2>5, <2>6
  <2> QED BY <1>4, <1>8, <2>3, <2>7, <2>8 DEF Held
<1>11. CASE ~(u[kind] < 8)
  <2>1. PICK m, k : m = (u.stack + 7) \div 8 /\ k = m + 1
    OBVIOUS
  <2>2. start = 8 * m
    BY <1>1, <1>4, <1>6, <1>11, <2>1, StartsSlot
  <2>3. m \in Nat
    BY <1>6, <2>1
  <2>4. p.at[1] = "stack" /\ p.at[2] = start
    BY <1>6, <1>11
  <2>5. start \div 8 + 1 = k /\ 8 * (k - 1) = start /\ start \in Nat /\ k \in Nat
    BY <2>1, <2>2, <2>3
  <2>6. Found(Load, "stack", start) # Unset
    BY <1>7, <2>4 DEF Delivers, Unset
  <2>7. k \in 1..Slots(Load)
    BY <2>5, <2>6 DEF Found
  <2>8. k \in 1..7
    <3>1. PICK z : z = Slots(Load)
      OBVIOUS
    <3>2. z \in Nat
      BY <1>1, <3>1, FilledType DEF Slots
    <3> QED BY <1>1, <2>7, <3>1, <3>2
  <2>9. k \in DOMAIN f.stack /\ f.stack[k] = At(Nth("stack", k))
    BY <1>9, <2>8
  <2>10. Nth("stack", k) = <<"stack", start>>
    BY <2>5 DEF Nth
  <2>11. At(<<"stack", start>>) = Found(Load, "stack", start)
    BY <2>5, AtIsFound
  <2>12. p.at[1] \notin {"gp", "fp"} /\ p.at[2] \div 8 + 1 = k
    BY <2>4, <2>5
  <2>13. Delivers(f.stack[k], p.word, t)
    BY <1>7, <2>4, <2>9, <2>10, <2>11
  <2> QED BY <1>4, <1>8, <2>4, <2>9, <2>12, <2>13 DEF Held
<1> QED BY <1>10, <1>11

\* callbackWrap's counters say what the ABI has used for the arguments read so far.
InPlace(p, u) == p.gp = u.gp /\ p.fp = u.fp /\ p.stack = (u.stack + 7) \div 8
Given(s, words, i) == Delivers(words[i], Parts(i, s.args[i])[1], s.args[i])

CbInv ==
  /\ callee = "go" => Callable(sig)
  /\ cb # "idle" => phase \in {"inC", "return", "done", "unsupported"} /\ Callable(sig)
  /\ Len(got) <= Len(sig.args)
  /\ cb = "idle" => got = <<>>
  /\ cb # "idle" /\ ~Packed(os, sig) /\ dropped = {} =>
       \A i \in 1..Len(sig.args) : Held(os, sig, frame, i)
  /\ ~Packed(os, sig) => InPlace(pos, Used(os, sig)[Len(got) + 1])
  /\ ~HasFloat(sig) /\ ~Packed(os, sig) /\ dropped = {} =>
       \A i \in 1..Len(got) : Given(sig, got, i)

\* One argument: where callbackWrap looks for it, it is.
LEMMA ReadsArg ==
  ASSUME TypeInv, CbInv, cb # "idle", ~Packed(os, sig), NEW i \in 1..Len(sig.args), i = Len(got) + 1
  PROVE  LET kind == KindOf(sig.args[i])
         IN  /\ InPlace(Advance(kind), Used(os, sig)[i + 1])
             /\ dropped = {} => Delivers(Here(kind), Parts(i, sig.args[i])[1], sig.args[i])
<1>1. sig \in Interface /\ Callable(sig) /\ pos \in [gp : 0..8, fp : 0..8, stack : Nat]
  BY DEF TypeInv, TypeOK, CbTypeOK, CbInv
<1>2. PICK t, u, v, kind, p, start, size :
        /\ t = sig.args[i] /\ u = Used(os, sig)[i] /\ v = Used(os, sig)[i + 1] /\ kind = KindOf(t)
        /\ p = Placed(os, sig, i)[1] /\ start = StackStart(os, sig, i, u)
        /\ size = StackSize(os, sig, i)
  OBVIOUS
<1>3. Takes(os, sig, i, t, u, v, kind, p, start, size)
  BY <1>1, <1>2, CallableTakes
<1>4. /\ u \in UsedStates /\ kind \in {"gp", "fp"} /\ p.word = Parts(i, t)[1]
      /\ u[kind] < 8 => p.at = <<kind, u[kind] + 1>> /\ v[kind] = u[kind] + 1 /\ v.stack = u.stack
      /\ ~(u[kind] < 8) => /\ p.at = <<"stack", start>> /\ v[kind] = u[kind]
                           /\ v.stack = start + size /\ Single(t) /\ ~Fits(os, sig, i, u)
      /\ size \in 1..8 /\ u.stack \in Nat
      /\ \A other \in {"gp", "fp"} : other # kind => v[other] = u[other]
  BY <1>3 DEF Takes
<1>5. pos.gp = u.gp /\ pos.fp = u.fp /\ pos.stack = (u.stack + 7) \div 8
  BY <1>2 DEF CbInv, InPlace
<1>6. pos[kind] = u[kind] /\ u[kind] \in 0..8
  BY <1>4, <1>5 DEF UsedStates
<1>7. dropped = {} => Held(os, sig, frame, i)
  BY DEF CbInv
<1>8. SUFFICES /\ InPlace(Advance(kind), v)
               /\ dropped = {} => Delivers(Here(kind), p.word, t)
  BY <1>2, <1>4
<1>9. CASE u[kind] < 8
  <2>1. PICK x : x = u[kind]
    OBVIOUS
  <2>2. p.at[1] = kind /\ p.at[2] = x + 1
    BY <1>4, <1>9, <2>1
  <2>3. Here(kind) = frame[kind][x + 1]
    BY <1>6, <1>9, <2>1 DEF Here
  <2>4. dropped = {} => Delivers(Here(kind), p.word, t)
    BY <1>2, <1>4, <1>7, <2>2, <2>3 DEF Held
  <2>5. PICK q : q = Advance(kind)
    OBVIOUS
  <2>6. q = [pos EXCEPT ![kind] = x + 1]
    BY <1>6, <1>9, <2>1, <2>5 DEF Advance
  <2>7. q[kind] = x + 1 /\ q.stack = pos.stack
        /\ \A other \in {"gp", "fp"} : other # kind => q[other] = pos[other]
    BY <1>1, <1>4, <2>6
  <2>8. v[kind] = x + 1 /\ v.stack = u.stack
    BY <1>4, <1>9, <2>1
  <2>9. q.gp = v.gp /\ q.fp = v.fp /\ q.stack = (v.stack + 7) \div 8
    BY <1>4, <1>5, <2>7, <2>8
  <2>10. InPlace(q, v)
    BY <2>9 DEF InPlace
  <2> QED BY <2>4, <2>5, <2>10
<1>10. CASE ~(u[kind] < 8)
  <2>1. PICK m : m = (u.stack + 7) \div 8
    OBVIOUS
  <2>2. start = 8 * m
    BY <1>1, <1>2, <1>4, <1>10, <2>1, StartsSlot
  <2>3. m \in Nat /\ pos.stack = m
    BY <1>4, <1>5, <2>1
  <2>4. p.at[1] = "stack" /\ p.at[2] = start
    BY <1>4, <1>10
  <2>5. start \div 8 + 1 = m + 1
    BY <2>2, <2>3
  <2>6. Here(kind) = IF m + 1 \in DOMAIN frame.stack THEN frame.stack[m + 1] ELSE Unset
    BY <1>6, <1>10, <2>3 DEF Here
  <2>7. dropped = {} => Delivers(Here(kind), p.word, t)
    BY <1>2, <1>7, <2>4, <2>5, <2>6 DEF Held
  <2>8. PICK q : q = Advance(kind)
    OBVIOUS
  <2>9. q = [pos EXCEPT !["stack"] = m + 1]
    BY <1>6, <1>10, <2>3, <2>8 DEF Advance
  <2>10. q.gp = pos.gp /\ q.fp = pos.fp /\ q.stack = m + 1
    BY <1>1, <2>9
  <2>11. v.gp = u.gp /\ v.fp = u.fp
    BY <1>4, <1>10
  <2>12. (v.stack + 7) \div 8 = m + 1
    <3>1. v.stack = 8 * m + size
      BY <1>4, <1>10, <2>2
    <3>2. (8 * m + size + 7) \div 8 = m + 1
      BY <1>4, <2>3
    <3> QED BY <3>1, <3>2
  <2>13. InPlace(q, v)
    BY <1>5, <2>10, <2>11, <2>12 DEF InPlace
  <2> QED BY <2>7, <2>8, <2>13
<1> QED BY <1>9, <1>10

\* The call's own steps change nothing a callback depends on once it runs.
LEMMA CbUndisturbed ==
  ASSUME CbInv, UNCHANGED <<cbVars, callee, os, sig>>,
         \/ cb = "idle" /\ got = <<>>
         \/ phase' \in {"inC", "return", "done", "unsupported"} /\ dropped' = dropped
  PROVE  CbInv'
<1>1. CASE cb = "idle" /\ got = <<>>
  <2>1. \A i \in 1..Len(got) : FALSE
    BY <1>1
  <2> QED BY <1>1, <2>1 DEF CbInv, cbVars
<1>2. CASE phase' \in {"inC", "return", "done", "unsupported"} /\ dropped' = dropped
  BY <1>2 DEF CbInv, cbVars
<1> QED BY <1>1, <1>2

LEMMA CbEntered ==
  ASSUME TypeInv, CbInv, phase = "inC", Callable(sig), UNCHANGED <<callVars, callee>>,
         NEW f, Dispatch(sig, f),
         ~Packed(os, sig) /\ dropped = {} => \A i \in 1..Len(sig.args) : Held(os, sig, f, i)
  PROVE  CbInv'
<1>1. cb = "idle" /\ cb' = "read" /\ frame' = f /\ pos' = pos /\ got' = got
  BY DEF Dispatch
<1>2. UNCHANGED <<os, sig, phase, dropped, callee>>
  BY DEF callVars
<1> QED BY <1>1, <1>2 DEF CbInv

LEMMA CbKeeps == TypeInv /\ ArgInv /\ CbInv /\ [Next]_vars => CbInv'
<1> SUFFICES ASSUME TypeInv, ArgInv, CbInv, [Next]_vars PROVE CbInv'
  OBVIOUS
<1>1. /\ sig \in Interface /\ cbType = sig /\ Len(sig.args) \in Nat
      /\ got \in Seq(Word) /\ Len(got) \in Nat /\ DOMAIN got = 1..Len(got)
  BY InterfaceType DEF TypeInv, TypeOK, CbTypeOK
<1>2. cb # "idle" => phase \in {"inC", "return", "done", "unsupported"}
  BY DEF CbInv
<1>3. cb = "idle" => got = <<>>
  BY DEF CbInv
<1>4. CASE CountArg /\ UNCHANGED <<cbVars, callee>>
  BY <1>2, <1>3, <1>4, CbUndisturbed DEF CountArg
<1>5. CASE Prepared /\ UNCHANGED <<cbVars, callee>>
  BY <1>2, <1>3, <1>5, CbUndisturbed DEF Prepared
<1>6. CASE Execute /\ UNCHANGED <<cbVars, callee>>
  BY <1>2, <1>3, <1>6, CbUndisturbed DEF Execute
<1>7. CASE EnterC /\ UNCHANGED <<cbVars, callee>>
  BY <1>7, CbUndisturbed DEF EnterC
<1>8. CASE Return /\ UNCHANGED <<cbVars, callee>>
  BY <1>8, CbUndisturbed DEF Return
<1>9. CASE CReturns \/ GoReturns
  BY <1>9, CbUndisturbed DEF CReturns, GoReturns, LeaveC
<1>10. CASE ReadArg /\ UNCHANGED <<callVars, callee>>
  <2>1. PICK i, t, kind : i = Len(got) + 1 /\ t = sig.args[i] /\ kind = KindOf(t)
    OBVIOUS
  <2>2. PICK w : w = IF t.kind = "float" THEN Converted(Here(kind)) ELSE Here(kind)
    OBVIOUS
  <2>3. /\ cb = "read" /\ Len(got) < Len(sig.args) /\ got' = Append(got, w)
        /\ pos' = Advance(kind) /\ UNCHANGED <<cb, frame, callee, os, sig, phase, dropped>>
    BY <1>1, <1>10, <2>1, <2>2 DEF ReadArg, KindOf, callVars
  <2>4. i \in 1..Len(sig.args) /\ i + 1 = Len(got) + 2 /\ i \in Nat
    BY <1>1, <2>1, <2>3
  <2>5. t \in Types
    BY <1>1, <2>1, <2>4, InterfaceType
  <2>6. kind \in {"gp", "fp"}
    BY <2>1 DEF KindOf
  <2>7. w \in Word
    BY <2>2, <2>3, <2>6, HereType, WordsAreWords
  <2>8. Len(got') = i /\ got'[i] = w /\ \A l \in 1..Len(got) : got'[l] = got[l]
    <3>1. /\ Len(Append(got, w)) = Len(got) + 1 /\ Append(got, w)[Len(got) + 1] = w
          /\ \A l \in 1..Len(got) : Append(got, w)[l] = got[l]
      BY <1>1, <2>7, AppendWord
    <3> QED BY <2>1, <2>3, <3>1
  <2>9. ASSUME ~Packed(os, sig)
        PROVE  /\ InPlace(pos', Used(os, sig)[i + 1])
               /\ dropped = {} => Delivers(Here(kind), Parts(i, t)[1], t)
    BY <2>1, <2>3, <2>4, <2>9, ReadsArg
  <2>10. ASSUME ~HasFloat(sig), ~Packed(os, sig), dropped = {}, NEW l \in 1..i
         PROVE  Given(sig, got', l)
    <3>1. CASE l = i
      <4>1. t.kind # "float"
        <5>1. i \in DOMAIN sig.args
          BY <1>1, <2>4, InterfaceType
        <5> QED BY <2>1, <2>10, <5>1 DEF HasFloat
      <4>2. got'[l] = Here(kind)
        BY <2>2, <2>8, <3>1, <4>1
      <4> QED BY <2>1, <2>9, <2>10, <3>1, <4>2 DEF Given
    <3>2. CASE l # i
      <4>1. l \in 1..Len(got)
        BY <1>1, <2>1, <3>2
      <4>2. Given(sig, got, l)
        BY <2>10, <4>1 DEF CbInv
      <4> QED BY <2>8, <4>1, <4>2 DEF Given
    <3> QED BY <3>1, <3>2
  <2>11. cb # "idle" /\ i <= Len(sig.args) /\ cb' # "idle"
    BY <2>3, <2>4
  <2> QED BY <2>3, <2>8, <2>9, <2>10, <2>11 DEF CbInv
<1>11. CASE (CallGo \/ LeaveGo) /\ UNCHANGED <<callVars, callee>>
  <2>1. cb # "idle" /\ cb' # "idle" /\ UNCHANGED <<frame, pos, got, os, sig, phase, dropped, callee>>
    BY <1>11 DEF CallGo, LeaveGo, callVars
  <2> QED BY <2>1 DEF CbInv
<1>12. CASE CCallsBack
  <2>1. /\ phase = "inC" /\ Callable(sig) /\ Dispatch(sig, AbiFrame(sig))
        /\ UNCHANGED <<callVars, callee>>
    BY <1>12 DEF CCallsBack
  <2>2. ~Packed(os, sig) => \A i \in 1..Len(sig.args) : Held(os, sig, AbiFrame(sig), i)
    BY <1>1, <2>1, AbiFrameHolds
  <2> QED BY <2>1, <2>2, CbEntered
<1>13. CASE GoEntered
  <2>1. PICK f : f = [gp |-> [j \in 1..8 |-> At(Nth("gp", j))],
                      fp |-> [j \in 1..8 |-> At(Nth("fp", j))],
                      stack |-> [j \in 1..7 |-> At(Nth("stack", j))]]
    OBVIOUS
  <2>2. /\ phase = "inC" /\ callee = "go" /\ Dispatch(sig, f) /\ UNCHANGED <<callVars, callee>>
    BY <1>13, <2>1 DEF GoEntered
  <2>3. Callable(sig)
    BY <2>2 DEF CbInv
  <2>4. ~Packed(os, sig) /\ dropped = {} => \A i \in 1..Len(sig.args) : Held(os, sig, f, i)
    BY <2>1, <2>2, <2>3, PassedFrameHolds
  <2> QED BY <2>2, <2>3, <2>4, CbEntered
<1>14. CASE UNCHANGED vars
  <2>1. UNCHANGED <<frame, pos, got, cb, os, sig, phase, dropped, callee>>
    BY <1>14 DEF vars, callVars, cbVars
  <2> QED BY <2>1 DEF CbInv
<1> QED BY <1>4, <1>5, <1>6, <1>7, <1>8, <1>9, <1>10, <1>11, <1>12, <1>13, <1>14
        DEF Next, CallNext, CbNext

\* A Go callback sees the arguments it was called with, from C or from goffi's own caller,
\* in registers and on the stack: callbackWrap counts as the AAPCS64 does (float32, which
\* it converts, and what Apple packs aside).
THEOREM CallbacksSeeArguments == Spec => []CallbackSeesArgs
<1>1. Init => TypeInv /\ ArgInv /\ CbInv
  <2> SUFFICES ASSUME Init PROVE TypeInv /\ ArgInv /\ CbInv
    OBVIOUS
  <2>1. TypeInv
    BY TypeInit
  <2>2. ArgInv
    BY DEF Init, CallInit, ArgInv
  <2>3. /\ sig \in Interface /\ cb = "idle" /\ got = <<>>
        /\ pos = [gp |-> 0, fp |-> 0, stack |-> 0] /\ (callee = "go" => Callable(sig))
    BY <2>1 DEF TypeInv, Init, CbInit
  <2>4. Len(got) = 0 /\ Len(sig.args) \in Nat /\ Used(os, sig)[1] = NoneUsed
    BY <2>3, InterfaceType, UsedUnfolds
  <2>5. InPlace(pos, NoneUsed)
    BY <2>3 DEF InPlace, NoneUsed
  <2>6. Len(got) + 1 = 1 /\ Len(got) <= Len(sig.args) /\ \A i \in 1..Len(got) : FALSE
    BY <2>4
  <2>7. CbInv
    BY <2>3, <2>4, <2>5, <2>6 DEF CbInv
  <2> QED BY <2>1, <2>2, <2>7
<1>2. TypeInv /\ ArgInv /\ CbInv /\ [Next]_vars => TypeInv' /\ ArgInv' /\ CbInv'
  BY TypeKept, ArgKept, CbKeeps
<1>3. TypeInv /\ CbInv => CallbackSeesArgs
  <2> SUFFICES ASSUME TypeInv, CbInv, cb = "run", ~HasFloat(cbType), ~Packed(os, cbType), dropped = {},
                      NEW i \in DOMAIN got
               PROVE  Delivers(got[i], Parts(i, cbType.args[i])[1], cbType.args[i])
    BY DEF CallbackSeesArgs
  <2>1. cbType = sig /\ got \in Seq(Word)
    BY DEF TypeInv, TypeOK, CbTypeOK
  <2>2. i \in 1..Len(got)
    BY <2>1
  <2>3. Given(sig, got, i)
    BY <2>1, <2>2 DEF CbInv
  <2> QED BY <2>1, <2>3 DEF Given
<1> QED BY <1>1, <1>2, <1>3, PTL DEF Spec
================================================================================
