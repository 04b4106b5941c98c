------------------------- MODULE CallPreparationProofs -------------------------
(***************************************************************************)
(* Proofs about CallPreparation, for all descriptors, requests, goroutines *)
(* and bounds.  PreparationTypeOK: the state keeps its types however       *)
(* goroutines interleave.  When callers keep what is not laid out to one   *)
(* of them at a time (Synchronized): descriptors are left intact           *)
(* (PreparationIntact), interfaces are prepared for the C layout of their  *)
(* types (PreparationIsRight) and refused for what is wrong with them      *)
(* (PreparationRefusedRightly).                                            *)
(***************************************************************************)
EXTENDS CallPreparation, FiniteSetTheorems, SequenceTheorems, WellFoundedInduction, TLAPS

--------------------------------------------------------------------------------
(* What the invariant is made of.                                           *)

Positive == [size : Nat \ {0}, align : Nat \ {0}]
AsDeclared(d) == [size |-> Declared[d].size, align |-> Declared[d].align]

\* A goroutine's activations: each is of a struct the program left to be laid
\* out, in the member the next one is of, and no struct is entered twice.
Activation(s, n) ==
  /\ Declared[s[n].t].kind = "struct" /\ Declared[s[n].t].size = 0
  /\ Members(s[n].t) # <<>>
  /\ s[n].i \in 1..Len(Members(s[n].t)) + 1
  /\ s[n].at # "member" => s[n].i <= Len(Members(s[n].t))
  /\ s[n].at \in {"size", "align"} => s[n].i = 1
  /\ n < Len(s) => s[n].at = "valid" /\ s[n + 1].t = Members(s[n].t)[s[n].i]
Activations(s, d) ==
  /\ \A n \in DOMAIN s : Activation(s, n)
  /\ s # <<>> => s[1].t = d
  /\ \A n, k \in DOMAIN s : n <= k => s[k].t \in Nested[s[n].t]
  /\ \A n, k \in DOMAIN s : n < k => s[k].t # s[n].t
Place(g) ==
  /\ stage[g] \in {"enter", "valid"} => next[g] \in 1..Len(Types(asked[g]))
  /\ stage[g] = "classify" => next[g] \in 1..Len(Types(asked[g])) + 1
  /\ work[g] # <<>> => stage[g] = "valid"
  /\ stage[g] = "valid" => Activations(work[g], This(g))
Kept == \A d \in Descriptors : Declared[d].size > 0 => desc[d] = AsDeclared(d)
TypeInv == TypeOK /\ Kept /\ \A g \in Goroutines : Place(g)

\* No two goroutines touch the descriptor of the same struct.
Exclusive ==
  \A g, h \in Goroutines :
    g # h /\ Busy(g) /\ Busy(h) =>
      \A d \in Uses(asked[g]) \cap Uses(asked[h]) : ~Unfinished(d) /\ ~UnderWork(d)

\* Nobody will write to d's descriptor any more; or somebody gave up on it.
Cleared(d) == IF WellFormed(d) THEN desc[d] = Right[d] /\ ~UnderWork(d)
                               ELSE Nested[d] \cap tainted # {}
\* What is known of a descriptor nobody works on.
Resting(d) ==
  IF WellFormed(d) THEN desc[d] \in {AsDeclared(d), Right[d]}
  ELSE Declared[d].kind = "struct" /\ desc[d].size # 0 => Nested[d] \cap tainted # {}

\* How far activation f has come with the layout of its struct.
RightMembers(d) == [i \in DOMAIN Members(d) |-> Right[Members(d)[i]]]
EndOf(d, i) == MemberEnds(RightMembers(d))[i]
\* a is the largest alignment of the first n members.
Largest(a, d, n) == /\ \A j \in 1..n : Right[Members(d)[j]].align <= a
                    /\ IF n = 0 THEN a = 0 ELSE \E j \in 1..n : Right[Members(d)[j]].align = a
Partial(f) ==
  LET d == desc[f.t]
  IN  CASE f.at \in {"size", "align"} -> d.size = 0
        [] f.at \in {"member", "valid", "start"} ->
             d.size = EndOf(f.t, f.i - 1) /\ Largest(d.align, f.t, f.i - 1)
        [] f.at = "add" -> /\ d.size = Offset(RightMembers(f.t), f.i)
                           /\ Largest(d.align, f.t, f.i - 1)
        [] f.at = "max" -> d.size = EndOf(f.t, f.i) /\ Largest(d.align, f.t, f.i - 1)
Invalid(d) == Declared[d].kind = "invalid"
Layout(s, n) ==
  /\ \A j \in 1..s[n].i - 1 : Cleared(Members(s[n].t)[j])
  /\ s[n].at \in {"start", "add", "max"} => Cleared(Members(s[n].t)[s[n].i])
  /\ s[n].at = "valid" /\ n = Len(s) =>
       Invalid(Members(s[n].t)[s[n].i]) \/ Cleared(Members(s[n].t)[s[n].i])
  /\ WellFormed(s[n].t) => Partial(s[n])

\* What a goroutine knows of the types of its request.
Sizes(g, n) == /\ Len(cif[g].sizes) = n
               /\ \A k \in 1..n : WellFormed(Types(asked[g])[k]) =>
                                    cif[g].sizes[k] = Right[Types(asked[g])[k]].size
AllCleared(g) == \A k \in DOMAIN Types(asked[g]) : Cleared(Types(asked[g])[k])
Known(g) ==
  /\ stage[g] \in {"enter", "valid"} => \A k \in 1..next[g] - 1 : Cleared(Types(asked[g])[k])
  /\ stage[g] = "valid" /\ work[g] = <<>> => Invalid(This(g)) \/ Cleared(This(g))
  /\ stage[g] = "classify" => AllCleared(g) /\ Sizes(g, next[g] - 1)
  /\ stage[g] = "ready" => /\ AllCleared(g) /\ Sizes(g, Len(Types(asked[g])))
                           /\ asked[g].variadic => cif[g].fixed = asked[g].fixed
RefusedFor(g) ==
  /\ stage[g] \in {"noMembers", "invalidType"} =>
       \E k \in DOMAIN Types(asked[g]) : ~WellFormed(Types(asked[g])[k])
  /\ stage[g] = "tooManyArguments" =>
       ~Room(cif[g].sizes) /\ Sizes(g, Len(Types(asked[g])))
LayoutInv ==
  /\ TypeInv
  /\ Exclusive
  /\ \A d \in Descriptors : ~UnderWork(d) => Resting(d)
  /\ \A g \in Goroutines : \A n \in DOMAIN work[g] : Layout(work[g], n)
  /\ \A g \in Goroutines : Known(g) /\ RefusedFor(g)
--------------------------------------------------------------------------------
(* Operators on data.                                                       *)

\* A set of natural numbers has a least one: what the inductions below are on.
LEMMA NatMin == ASSUME NEW T, T \subseteq Nat, T # {} PROVE \E m \in T : \A k \in T : m <= k
<1>1. IsWellFoundedOn(OpToRel(<, Nat), Nat)
  BY NatLessThanWellFounded
<1>2. PICK m \in T : \A k \in T : ~(<<k, m>> \in OpToRel(<, Nat))
  BY <1>1, WFMin
<1>3. \A k \in T : ~(k < m)
  BY <1>2 DEF OpToRel
<1> QED BY <1>3

\* Numbers in a row have a largest one.
LEMMA MaxExists ==
  ASSUME NEW n \in Nat \ {0}, NEW f \in [1..n -> Nat]
  PROVE  \E j \in 1..n : \A i \in 1..n : f[i] <= f[j]
<1> DEFINE Has(k) == \E j \in 1..k : \A i \in 1..k : f[i] <= f[j]
           T == {k \in 1..n : ~Has(k)}
<1>0. n \in 1..n /\ (n \notin T => Has(n))
  OBVIOUS
<1>1. SUFFICES ASSUME T # {} PROVE FALSE
  BY <1>0
<1>2. PICK m \in T : \A k \in T : m <= k
  <2>1. T \subseteq Nat
    OBVIOUS
  <2> QED BY <1>1, <2>1, NatMin
<1>3. m # 1
  <2>1. Has(1)
    OBVIOUS
  <2> QED BY <2>1, <1>2
<1>4. m - 1 \in 1..n /\ Has(m - 1)
  <2>1. m \in 1..n /\ m - 1 \in 1..n
    BY <1>2, <1>3
  <2>2. m - 1 \notin T
    <3> HIDE DEF T
    <3> QED BY <1>2, <2>1
  <2> QED BY <2>1, <2>2
<1>5. PICK j \in 1..(m - 1) : \A i \in 1..(m - 1) : f[i] <= f[j]
  BY <1>4
<1>6. f[j] \in Nat /\ f[m] \in Nat /\ \A i \in 1..m : i \in 1..(m - 1) \/ i = m
  BY <1>2, <1>4
<1>7. CASE f[m] <= f[j]
  <2>1. \A i \in 1..m : f[i] <= f[j]
    BY <1>5, <1>6, <1>7
  <2>2. j \in 1..m
    BY <1>2, <1>4
  <2> QED BY <2>1, <2>2, <1>2
<1>8. CASE ~(f[m] <= f[j])
  <2>1. \A i \in 1..(m - 1) : f[i] \in Nat
    BY <1>2
  <2>2. \A i \in 1..m : f[i] <= f[m]
    BY <1>5, <1>6, <1>8, <2>1
  <2>3. m \in 1..m
    BY <1>2
  <2> QED BY <2>2, <2>3, <1>2
<1> QED BY <1>7, <1>8

\* The ends of members: what the recursive function computes.
EndsTo(ms, e, n) ==
  e = [i \in 0..n |-> IF i = 0 THEN 0 ELSE AlignUp(e[i - 1], ms[i].align) + ms[i].size]
LEMMA EndsExist == ASSUME NEW ms, NEW n \in Nat PROVE \E e : EndsTo(ms, e, n)
<1> DEFINE T == {k \in Nat : ~\E e : EndsTo(ms, e, k)}
<1>1. SUFFICES ASSUME T # {} PROVE FALSE
  OBVIOUS
<1>2. PICK m \in T : \A k \in T : m <= k
  BY <1>1, NatMin
<1>3. m # 0
  <2>1. EndsTo(ms, [i \in 0..0 |-> 0], 0)
    BY DEF EndsTo
  <2> QED BY <2>1, <1>2
<1>4. m - 1 \in Nat /\ m - 1 \notin T
  BY <1>2, <1>3
<1>5. PICK e : EndsTo(ms, e, m - 1)
  BY <1>4
<1> DEFINE last == AlignUp(e[m - 1], ms[m].align) + ms[m].size
           f == [i \in 0..m |-> IF i = m THEN last ELSE e[i]]
<1>6. EndsTo(ms, f, m)
  <2>1. \A i \in 0..m : f[i] = IF i = 0 THEN 0 ELSE AlignUp(f[i - 1], ms[i].align) + ms[i].size
    <3> SUFFICES ASSUME NEW i \in 0..m
                 PROVE  f[i] = IF i = 0 THEN 0 ELSE AlignUp(f[i - 1], ms[i].align) + ms[i].size
      OBVIOUS
    <3>1. CASE i = m
      <4>1. f[i] = last /\ f[i - 1] = e[m - 1]
        BY <1>3, <1>4, <3>1
      <4> QED BY <4>1, <3>1, <1>3
    <3>2. CASE i # m
      <4>1. i \in 0..(m-1) /\ f[i] = e[i] /\ (i # 0 => f[i-1] = e[i-1])
        BY <3>2
      <4>2. e[i] = IF i = 0 THEN 0 ELSE AlignUp(e[i - 1], ms[i].align) + ms[i].size
        BY <1>5, <4>1 DEF EndsTo
      <4> QED BY <4>1, <4>2
    <3> QED BY <3>1, <3>2
  <2>2. f = [i \in 0..m |-> f[i]]
    OBVIOUS
  <2> HIDE DEF f
  <2> QED BY <2>1, <2>2 DEF EndsTo
<1> QED BY <1>2, <1>6
LEMMA EndsUnfold ==
  ASSUME NEW ms, Len(ms) \in Nat
  PROVE  EndsTo(ms, MemberEnds(ms), Len(ms))
<1>1. MemberEnds(ms) = CHOOSE e : e = [i \in 0..Len(ms) |->
                         IF i = 0 THEN 0 ELSE AlignUp(e[i - 1], ms[i].align) + ms[i].size]
  BY DEF MemberEnds
<1>2. \E e : e = [i \in 0..Len(ms) |->
                    IF i = 0 THEN 0 ELSE AlignUp(e[i - 1], ms[i].align) + ms[i].size]
  BY EndsExist DEF EndsTo
<1> QED BY <1>1, <1>2 DEF EndsTo

LEMMA AlignUpFacts ==
  ASSUME NEW x \in Nat, NEW a \in Nat \ {0}
  PROVE  AlignUp(x, a) \in Nat /\ AlignUp(x, a) >= x
<1> PICK q : q = (x + a - 1) \div a
  OBVIOUS
<1>1. q \in Nat /\ q * a >= x
  OBVIOUS
<1> QED BY <1>1 DEF AlignUp

LEMMA EndsNat ==
  ASSUME NEW ms, Len(ms) \in Nat, \A i \in 1..Len(ms) : ms[i] \in Positive
  PROVE  /\ \A i \in 0..Len(ms) : MemberEnds(ms)[i] \in Nat /\ (i > 0 => MemberEnds(ms)[i] > 0)
         /\ MemberEnds(ms)[0] = 0
         /\ \A i \in 1..Len(ms) : MemberEnds(ms)[i] = Offset(ms, i) + ms[i].size
<1> PICK e : e = MemberEnds(ms)
  OBVIOUS
<1>1. EndsTo(ms, e, Len(ms))
  BY EndsUnfold
<1>2. e[0] = 0
  BY <1>1 DEF EndsTo
<1>3. \A i \in 1..Len(ms) : e[i] = AlignUp(e[i - 1], ms[i].align) + ms[i].size
  BY <1>1 DEF EndsTo
<1> DEFINE Good(i) == e[i] \in Nat /\ (i > 0 => e[i] > 0)
           T == {i \in 0..Len(ms) : ~Good(i)}
<1>4. T = {}
  <2>1. SUFFICES ASSUME T # {} PROVE FALSE
    OBVIOUS
  <2>2. PICK m \in T : \A k \in T : m <= k
    <3>1. T \subseteq Nat
      OBVIOUS
    <3> QED BY <2>1, <3>1, NatMin
  <2>3. m # 0
    BY <1>2, <2>2
  <2>4. m - 1 \in 0..Len(ms) /\ m \in 1..Len(ms) /\ Good(m - 1)
    BY <2>2, <2>3
  <2>5. ms[m].align \in Nat \ {0} /\ ms[m].size \in Nat \ {0}
    BY <2>4 DEF Positive
  <2>6. AlignUp(e[m - 1], ms[m].align) \in Nat
    BY <2>4, <2>5, AlignUpFacts
  <2>7. Good(m)
    BY <2>4, <2>5, <2>6, <1>3
  <2> QED BY <2>7, <2>2
<1> QED BY <1>2, <1>3, <1>4 DEF Offset

\* The number of eightbytes: what the recursive function computes.
SumTo(sizes, s, n) == s = [k \in 1..n |-> IF k = 1 THEN 0 ELSE s[k - 1] + (sizes[k] + 7) \div 8]
LEMMA SumExists == ASSUME NEW sizes, NEW n \in Nat PROVE \E s : SumTo(sizes, s, n)
<1> DEFINE T == {k \in Nat : ~\E s : SumTo(sizes, s, k)}
<1>1. SUFFICES ASSUME T # {} PROVE FALSE
  OBVIOUS
<1>2. PICK m \in T : \A k \in T : m <= k
  BY <1>1, NatMin
<1>3. m # 0
  <2>1. SumTo(sizes, [k \in 1..0 |-> 0], 0)
    BY DEF SumTo
  <2> QED BY <2>1, <1>2
<1>4. m - 1 \in Nat /\ m - 1 \notin T
  BY <1>2, <1>3
<1>5. PICK s : SumTo(sizes, s, m - 1)
  BY <1>4
<1> DEFINE of(f, k) == IF k = 1 THEN 0 ELSE f[k - 1] + (sizes[k] + 7) \div 8
           e == [k \in 1..m |-> IF k = m THEN of(s, m) ELSE s[k]]
<1>6. SumTo(sizes, e, m)
  <2>1. \A k \in 1..m : e[k] = of(e, k)
    <3> SUFFICES ASSUME NEW k \in 1..m PROVE e[k] = of(e, k)
      OBVIOUS
    <3>1. k # 1 => e[k - 1] = s[k - 1]
      BY <1>2
    <3>2. CASE k = m
      BY <3>1, <3>2
    <3>3. CASE k # m
      <4>1. k \in 1..(m - 1) /\ e[k] = s[k]
        BY <1>2, <3>3
      <4>2. s[k] = of(s, k)
        BY <1>5, <4>1 DEF SumTo
      <4> QED BY <3>1, <4>1, <4>2
    <3> QED BY <3>2, <3>3
  <2>2. e = [k \in 1..m |-> e[k]]
    OBVIOUS
  <2> HIDE DEF e
  <2> QED BY <2>1, <2>2 DEF SumTo
<1> QED BY <1>2, <1>6
LEMMA TotalNat ==
  ASSUME NEW sizes \in Seq(Nat), Len(sizes) > 0 PROVE Total(sizes) \in Nat
<1> PICK n : n = Len(sizes)
  OBVIOUS
<1> DEFINE sum == CHOOSE s : SumTo(sizes, s, n)
<1>1. n \in Nat \ {0} /\ \A k \in 1..n : sizes[k] \in Nat
  OBVIOUS
<1>2. SumTo(sizes, sum, n)
  BY <1>1, SumExists
<1>3. Total(sizes) = sum[n]
  BY DEF Total, SumTo
<1> HIDE DEF sum
<1>4. sum[1] = 0 /\ \A k \in 1..n : k # 1 => sum[k] = sum[k - 1] + (sizes[k] + 7) \div 8
  <2>1. \A k \in 1..n : sum[k] = IF k = 1 THEN 0 ELSE sum[k - 1] + (sizes[k] + 7) \div 8
    BY <1>2 DEF SumTo
  <2>2. 1 \in 1..n
    BY <1>1
  <2> QED BY <2>1, <2>2
<1> DEFINE T == {k \in 1..n : sum[k] \notin Nat}
<1>5. T = {}
  <2>1. SUFFICES ASSUME T # {} PROVE FALSE
    OBVIOUS
  <2>2. PICK m \in T : \A k \in T : m <= k
    <3>1. T \subseteq Nat
      OBVIOUS
    <3> QED BY <2>1, <3>1, NatMin
  <2>3. m # 1 /\ m \in 1..n
    BY <1>4, <2>2
  <2>4. m - 1 \in 1..n /\ sum[m - 1] \in Nat
    BY <1>1, <2>2, <2>3
  <2>5. (sizes[m] + 7) \div 8 \in Nat
    BY <1>1, <2>3
  <2> QED BY <1>4, <2>2, <2>3, <2>4, <2>5
<1> QED BY <1>1, <1>3, <1>5
--------------------------------------------------------------------------------
(* Nesting: the recursive functions over descriptors.                       *)

LEMMA MembersType ==
  ASSUME NEW d \in Descriptors
  PROVE  /\ Members(d) \in Seq(Descriptors)
         /\ Len(Members(d)) \in Nat /\ DOMAIN Members(d) = 1..Len(Members(d))
         /\ \A i \in DOMAIN Members(d) : Members(d)[i] \in Descriptors
         /\ Members(d) # <<>> => Len(Members(d)) # 0
<1>1. Members(d) \in Seq(Descriptors)
  BY DeclaredAssumption DEF Members
<1> PICK ms : ms = Members(d)
  OBVIOUS
<1>2. ms \in Seq(Descriptors)
  BY <1>1
<1>3. Len(ms) \in Nat /\ DOMAIN ms = 1..Len(ms) /\ \A i \in DOMAIN ms : ms[i] \in Descriptors
  BY <1>2
<1>4. ms # <<>> => Len(ms) # 0
  BY <1>2, EmptySeq
<1> QED BY <1>2, <1>3, <1>4

\* Sets of descriptors that hold the members of theirs; each but the whole can
\* be larger by one.
Closed(S) == /\ S \subseteq Descriptors
             /\ \A d \in S : \A i \in DOMAIN Members(d) : Members(d)[i] \in S
LEMMA Larger ==
  ASSUME NEW S, Closed(S), S # Descriptors
  PROVE  \E d \in Descriptors \ S : /\ \A i \in DOMAIN Members(d) : Members(d)[i] \in S
                                    /\ Closed(S \cup {d})
<1>1. Descriptors \ S \in (SUBSET Descriptors) \ {{}}
  BY DEF Closed
<1>2. PICK d \in Descriptors \ S :
        \A i \in DOMAIN Members(d) : Members(d)[i] \notin Descriptors \ S
  BY <1>1, NestingAssumption DEF Members
<1>3. \A i \in DOMAIN Members(d) : Members(d)[i] \in S
  BY <1>2, MembersType
<1> QED BY <1>2, <1>3 DEF Closed

NestedOn(f, S) ==
  f = [d \in S |-> {d} \cup IF Declared[d].size > 0 THEN {}
                          ELSE UNION {f[Members(d)[i]] : i \in DOMAIN Members(d)}]
LEMMA NestedExtends ==
  ASSUME NEW S, Closed(S), NEW f, NestedOn(f, S), NEW d \in Descriptors \ S,
         \A i \in DOMAIN Members(d) : Members(d)[i] \in S
  PROVE  \E e : NestedOn(e, S \cup {d})
<1> DEFINE own(x) == {x} \cup IF Declared[x].size > 0 THEN {}
                              ELSE UNION {f[Members(x)[i]] : i \in DOMAIN Members(x)}
           e == [x \in S \cup {d} |-> IF x = d THEN own(d) ELSE f[x]]
<1>1. \A x \in S \cup {d} : \A i \in DOMAIN Members(x) :
        Members(x)[i] \in S /\ e[Members(x)[i]] = f[Members(x)[i]]
  BY DEF Closed
<1>2. \A x \in S \cup {d} : {f[Members(x)[i]] : i \in DOMAIN Members(x)}
                            = {e[Members(x)[i]] : i \in DOMAIN Members(x)}
  <2> HIDE DEF e
  <2> QED BY <1>1
<1>3. \A x \in S \cup {d} : e[x] = own(x)
  <2>1. \A x \in S : f[x] = own(x)
    BY DEF NestedOn
  <2> HIDE DEF own
  <2> QED BY <2>1
<1>4. e = [x \in S \cup {d} |-> e[x]]
  OBVIOUS
<1> HIDE DEF e
<1>5. \A x \in S \cup {d} : e[x] = {x} \cup IF Declared[x].size > 0 THEN {}
                                    ELSE UNION {e[Members(x)[i]] : i \in DOMAIN Members(x)}
  BY <1>2, <1>3
<1>6. NestedOn(e, S \cup {d})
  BY <1>4, <1>5 DEF NestedOn
<1> QED BY <1>6

RightOn(f, S) ==
  f = [d \in S |->
        IF Declared[d].size > 0 \/ Members(d) = <<>>
        THEN [size |-> Declared[d].size, align |-> Declared[d].align]
        ELSE LET ms == [i \in DOMAIN Members(d) |-> f[Members(d)[i]]]
                 most == CHOOSE a \in {ms[i].align : i \in DOMAIN ms} :
                           \A i \in DOMAIN ms : ms[i].align <= a
             IN  [size |-> AlignUp(MemberEnds(ms)[Len(ms)], most), align |-> most]]
\* The layout of a struct whose members have the layouts ms.
LayoutOf(ms) == LET most == CHOOSE a \in {ms[i].align : i \in DOMAIN ms} :
                              \A i \in DOMAIN ms : ms[i].align <= a
                IN  [size |-> AlignUp(MemberEnds(ms)[Len(ms)], most), align |-> most]
LEMMA RightExtends ==
  ASSUME NEW S, Closed(S), NEW f, RightOn(f, S), NEW d \in Descriptors \ S,
         \A i \in DOMAIN Members(d) : Members(d)[i] \in S
  PROVE  \E e : RightOn(e, S \cup {d})
<1> DEFINE of(x) == [i \in DOMAIN Members(x) |-> f[Members(x)[i]]]
           own(x) == IF Declared[x].size > 0 \/ Members(x) = <<>>
                     THEN [size |-> Declared[x].size, align |-> Declared[x].align]
                     ELSE LayoutOf(of(x))
           e == [x \in S \cup {d} |-> IF x = d THEN own(d) ELSE f[x]]
<1>1. \A x \in S \cup {d} : \A i \in DOMAIN Members(x) :
        Members(x)[i] \in S /\ e[Members(x)[i]] = f[Members(x)[i]]
  BY DEF Closed
<1>2. \A x \in S \cup {d} : of(x) = [i \in DOMAIN Members(x) |-> e[Members(x)[i]]]
  BY <1>1
<1>3. \A x \in S \cup {d} : e[x] = own(x)
  <2>1. \A x \in S : f[x] = own(x)
    BY DEF RightOn, LayoutOf
  <2> QED BY <2>1
<1>4. e = [x \in S \cup {d} |-> e[x]]
  OBVIOUS
<1> HIDE DEF e, of
<1>5. \A x \in S \cup {d} :
        e[x] = IF Declared[x].size > 0 \/ Members(x) = <<>>
               THEN [size |-> Declared[x].size, align |-> Declared[x].align]
               ELSE LayoutOf([i \in DOMAIN Members(x) |-> e[Members(x)[i]]])
  BY <1>2, <1>3
<1>6. RightOn(e, S \cup {d})
  BY <1>4, <1>5 DEF RightOn, LayoutOf
<1> QED BY <1>6

LEMMA RecursionExists ==
  /\ \E f : NestedOn(f, Descriptors)
  /\ \E f : RightOn(f, Descriptors)
<1> DEFINE T == {n \in Nat : \E S : /\ Closed(S) /\ Cardinality(Descriptors \ S) = n
                                    /\ (\E f : NestedOn(f, S)) /\ (\E f : RightOn(f, S))}
<1>1. Cardinality(Descriptors) \in T
  <2>1. Closed({}) /\ NestedOn([d \in {} |-> {}], {}) /\ RightOn([d \in {} |-> {}], {})
    BY DEF Closed, NestedOn, RightOn
  <2>2. Descriptors \ {} = Descriptors
    OBVIOUS
  <2>3. Cardinality(Descriptors) \in Nat
    BY DeclaredAssumption, FS_CardinalityType
  <2> QED BY <2>1, <2>2, <2>3
<1>2. PICK m \in T : \A k \in T : m <= k
  BY <1>1, NatMin
<1>3. PICK S : /\ Closed(S) /\ Cardinality(Descriptors \ S) = m
               /\ (\E f : NestedOn(f, S)) /\ (\E f : RightOn(f, S))
  BY <1>2
<1>4. S = Descriptors
  <2>1. SUFFICES ASSUME S # Descriptors PROVE FALSE
    OBVIOUS
  <2>2. PICK d \in Descriptors \ S : /\ \A i \in DOMAIN Members(d) : Members(d)[i] \in S
                                     /\ Closed(S \cup {d})
    BY <1>3, <2>1, Larger
  <2>3. (\E f : NestedOn(f, S \cup {d})) /\ (\E f : RightOn(f, S \cup {d}))
    BY <1>3, <2>2, NestedExtends, RightExtends
  <2>4. IsFiniteSet(Descriptors \ S)
    BY DeclaredAssumption, FS_Difference
  <2>5. Cardinality((Descriptors \ S) \ {d}) = m - 1
    BY <1>3, <2>2, <2>4, FS_RemoveElement
  <2>6. (Descriptors \ S) \ {d} = Descriptors \ (S \cup {d})
    OBVIOUS
  <2>7. m - 1 \in Nat
    <3>1. Cardinality((Descriptors \ S) \ {d}) \in Nat
      BY <2>4, FS_RemoveElement, FS_CardinalityType
    <3> QED BY <2>5, <3>1
  <2>8. m - 1 \in T
    BY <2>2, <2>3, <2>5, <2>6, <2>7
  <2> QED BY <1>2, <2>8
<1> QED BY <1>3, <1>4

\* The recursive functions satisfy their equations.
LEMMA NestedUnfold ==
  \A d \in Descriptors :
    Nested[d] = {d} \cup IF Declared[d].size > 0 THEN {}
                         ELSE UNION {Nested[Members(d)[i]] : i \in DOMAIN Members(d)}
<1>1. Nested = CHOOSE f : NestedOn(f, Descriptors)
  BY DEF Nested, NestedOn
<1>2. NestedOn(Nested, Descriptors)
  BY <1>1, RecursionExists
<1> PICK f : f = Nested
  OBVIOUS
<1>3. NestedOn(f, Descriptors)
  BY <1>2
<1>4. \A d \in Descriptors : f[d] = {d} \cup IF Declared[d].size > 0 THEN {}
                         ELSE UNION {f[Members(d)[i]] : i \in DOMAIN Members(d)}
  BY <1>3 DEF NestedOn
<1> QED BY <1>4

LEMMA RightUnfold ==
  \A d \in Descriptors :
    Right[d] = IF Declared[d].size > 0 \/ Members(d) = <<>> THEN AsDeclared(d)
               ELSE LayoutOf(RightMembers(d))
<1>1. Right = CHOOSE f : RightOn(f, Descriptors)
  BY DEF Right, RightOn
<1>2. RightOn(Right, Descriptors)
  BY <1>1, RecursionExists
<1> PICK f : f = Right
  OBVIOUS
<1>3. RightOn(f, Descriptors)
  BY <1>2
<1>4. \A d \in Descriptors :
        f[d] = IF Declared[d].size > 0 \/ Members(d) = <<>> THEN AsDeclared(d)
               ELSE LayoutOf([i \in DOMAIN Members(d) |-> f[Members(d)[i]]])
  BY <1>3 DEF RightOn, LayoutOf, AsDeclared
<1> QED BY <1>4 DEF RightMembers

\* Nesting is reflexive and transitive, and follows members.
LEMMA NestedSelf == \A d \in Descriptors : d \in Nested[d]
BY NestedUnfold
LEMMA NestedCases ==
  ASSUME NEW d \in Descriptors, NEW e \in Nested[d]
  PROVE  e = d \/ (Declared[d].size = 0 /\ \E i \in DOMAIN Members(d) : e \in Nested[Members(d)[i]])
<1>1. Declared[d].size \in Nat
  BY DeclaredAssumption
<1> QED BY <1>1, NestedUnfold
LEMMA NestedMember ==
  ASSUME NEW d \in Descriptors, Declared[d].size = 0, NEW i \in DOMAIN Members(d)
  PROVE  Nested[Members(d)[i]] \subseteq Nested[d] /\ Members(d)[i] \in Nested[d]
<1>1. Nested[Members(d)[i]] \subseteq Nested[d]
  BY NestedUnfold
<1> QED BY <1>1, NestedSelf, MembersType

LEMMA NestedTransitive ==
  ASSUME NEW d \in Descriptors, NEW e \in Nested[d]
  PROVE  e \in Descriptors /\ Nested[e] \subseteq Nested[d]
<1> DEFINE T == {x \in Descriptors :
                   ~\A y \in Nested[x] : y \in Descriptors /\ Nested[y] \subseteq Nested[x]}
<1>1. SUFFICES ASSUME T # {} PROVE FALSE
  OBVIOUS
<1>2. T \in (SUBSET Descriptors) \ {{}}
  BY <1>1
<1>3. PICK x \in T : \A i \in DOMAIN Members(x) : Members(x)[i] \notin T
  BY <1>2, NestingAssumption DEF Members
<1>4. PICK y \in Nested[x] : ~(y \in Descriptors /\ Nested[y] \subseteq Nested[x])
  OBVIOUS
<1>5. x \in Descriptors /\ y # x
  BY <1>4
<1>6. PICK i \in DOMAIN Members(x) : y \in Nested[Members(x)[i]] /\ Declared[x].size = 0
  BY <1>5, NestedCases
<1>7. Members(x)[i] \in Descriptors
  BY <1>5, MembersType
<1>8. y \in Descriptors /\ Nested[y] \subseteq Nested[Members(x)[i]]
  BY <1>3, <1>6, <1>7
<1>9. Nested[Members(x)[i]] \subseteq Nested[x]
  BY <1>5, <1>6, NestedMember
<1> QED BY <1>4, <1>8, <1>9

\* No descriptor is a member of what is nested in it.
LEMMA NoCycle ==
  ASSUME NEW d \in Descriptors, NEW e \in Nested[d], Declared[e].size = 0,
         NEW i \in DOMAIN Members(e)
  PROVE  Members(e)[i] # d
<1>1. SUFFICES ASSUME Members(e)[i] = d PROVE FALSE
  OBVIOUS
<1> DEFINE C == {x \in Nested[d] : d \in Nested[x]}
<1>2. e \in Descriptors /\ \A x \in Nested[d] : x \in Descriptors
  BY NestedTransitive
<1>3. e \in C
  BY <1>1, <1>2, NestedMember
<1>4. C \in (SUBSET Descriptors) \ {{}}
  BY <1>2, <1>3
<1>5. PICK x \in C : \A j \in DOMAIN Members(x) : Members(x)[j] \notin C
  BY <1>4, NestingAssumption DEF Members
<1>6. ASSUME x # d PROVE FALSE
  <2>1. PICK j \in DOMAIN Members(x) : d \in Nested[Members(x)[j]] /\ Declared[x].size = 0
    BY <1>2, <1>5, <1>6, NestedCases
  <2>2. Members(x)[j] \in Nested[x] /\ Nested[x] \subseteq Nested[d]
    BY <1>2, <1>5, <2>1, NestedMember, NestedTransitive
  <2> QED BY <1>5, <2>1, <2>2
<1>7. CASE x = d /\ e = d
  <2>1. Members(x)[i] \in C
    BY <1>1, <1>7, NestedSelf
  <2> QED BY <2>1, <1>5, <1>7
<1>8. CASE x = d /\ e # d
  <2>1. PICK j \in DOMAIN Members(d) : e \in Nested[Members(d)[j]] /\ Declared[d].size = 0
    BY <1>8, NestedCases
  <2>2. Members(d)[j] \in Descriptors /\ Members(d)[j] \in Nested[d]
    BY <2>1, NestedMember, MembersType
  <2>3. Nested[e] \subseteq Nested[Members(d)[j]] /\ d \in Nested[e]
    BY <1>3, <2>1, <2>2, NestedTransitive
  <2> QED BY <1>5, <1>8, <2>2, <2>3
<1> QED BY <1>6, <1>7, <1>8

\* What is ill-formed inside makes the whole ill-formed, and the other way round.
LEMMA IllFormedInside ==
  ASSUME NEW d \in Descriptors, NEW e \in Nested[d], ~WellFormed(e)
  PROVE  ~WellFormed(d)
BY NestedTransitive DEF WellFormed
LEMMA IllFormedMember ==
  ASSUME NEW d \in Descriptors, Declared[d].size = 0, NEW i \in DOMAIN Members(d),
         ~WellFormed(Members(d)[i])
  PROVE  ~WellFormed(d)
BY NestedMember, IllFormedInside
LEMMA IllFormedItself ==
  ASSUME NEW d \in Descriptors,
         Invalid(d) \/ (Declared[d].kind = "struct" /\ Declared[d].size = 0 /\ Members(d) = <<>>)
  PROVE  ~WellFormed(d)
<1>1. d \in Nested[d]
  BY NestedSelf
<1> QED BY <1>1 DEF WellFormed, Invalid
LEMMA IllFormedCases ==
  ASSUME NEW d \in Descriptors, ~WellFormed(d)
  PROVE  \/ Invalid(d)
         \/ /\ Declared[d].kind = "struct" /\ Declared[d].size = 0
            /\ Members(d) = <<>> \/ \E i \in DOMAIN Members(d) : ~WellFormed(Members(d)[i])
<1>1. PICK e \in Nested[d] : ~(/\ Declared[e].kind # "invalid"
                               /\ Declared[e].kind = "struct" => Declared[e].size > 0 \/ Members(e) # <<>>)
  BY DEF WellFormed
<1>2. Declared[d].size \in Nat /\ Declared[d].kind \in {"scalar", "struct", "invalid"}
      /\ (Declared[d].kind = "scalar" => Declared[d].size > 0)
  BY DeclaredAssumption
<1>3. CASE e = d
  BY <1>1, <1>2, <1>3 DEF Invalid
<1>4. CASE e # d
  <2>1. PICK i \in DOMAIN Members(d) : e \in Nested[Members(d)[i]] /\ Declared[d].size = 0
    BY <1>4, NestedCases
  <2>2. ~WellFormed(Members(d)[i])
    BY <1>1, <2>1 DEF WellFormed
  <2> QED BY <1>2, <2>1, <2>2 DEF Invalid
<1> QED BY <1>3, <1>4

--------------------------------------------------------------------------------
(* The C layout.                                                            *)

LEMMA RightPositive == ASSUME NEW x \in Descriptors, WellFormed(x) PROVE Right[x] \in Positive
<1> DEFINE T == {d \in Descriptors : WellFormed(d) /\ Right[d] \notin Positive}
<1>1. SUFFICES ASSUME T # {} PROVE FALSE
  OBVIOUS
<1>2. T \in (SUBSET Descriptors) \ {{}}
  BY <1>1
<1>3. PICK d \in T : \A i \in DOMAIN Members(d) : Members(d)[i] \notin T
  BY <1>2, NestingAssumption DEF Members
<1>4. d \in Descriptors /\ WellFormed(d) /\ Right[d] \notin Positive
  BY <1>3
<1>5. Declared[d].size \in Nat /\ Declared[d].align \in Nat
      /\ (Declared[d].size > 0 => Declared[d].align > 0)
      /\ (Declared[d].kind = "scalar" => Declared[d].size > 0)
      /\ Declared[d].kind \in {"scalar", "struct", "invalid"}
  BY <1>4, DeclaredAssumption
<1>6. Declared[d].size = 0
  <2>1. SUFFICES ASSUME Declared[d].size > 0 PROVE FALSE
    BY <1>5
  <2>2. Right[d] = AsDeclared(d)
    BY <1>4, <2>1, RightUnfold
  <2> QED BY <1>4, <1>5, <2>1, <2>2 DEF AsDeclared, Positive
<1>7. Members(d) # <<>>
  BY <1>4, <1>5, <1>6, IllFormedItself DEF Invalid
<1> PICK ms : ms = RightMembers(d)
  OBVIOUS
<1> PICK n : n = Len(Members(d))
  OBVIOUS
<1>8. n \in Nat \ {0} /\ DOMAIN Members(d) = 1..n
  BY <1>4, <1>7, MembersType
<1>9. DOMAIN ms = 1..n /\ \A i \in 1..n : ms[i] \in Positive
  <2>1. \A i \in 1..n : ms[i] = Right[Members(d)[i]]
    BY <1>8 DEF RightMembers
  <2>2. \A i \in 1..n : Members(d)[i] \in Descriptors /\ WellFormed(Members(d)[i])
    BY <1>4, <1>6, <1>8, MembersType, IllFormedMember
  <2>3. \A i \in 1..n : Right[Members(d)[i]] \in Positive
    BY <1>3, <1>8, <2>2
  <2>4. DOMAIN ms = 1..n
    BY <1>8 DEF RightMembers
  <2> QED BY <2>1, <2>3, <2>4
<1>10. Len(ms) = n
  <2>1. ms = [i \in 1..n |-> ms[i]]
    BY <1>8 DEF RightMembers
  <2> QED BY <1>8, <1>9, <2>1, LenProperties
<1> DEFINE most == CHOOSE a \in {ms[i].align : i \in DOMAIN ms} : \A i \in DOMAIN ms : ms[i].align <= a
<1>11. most \in Nat \ {0}
  <2> DEFINE f == [i \in 1..n |-> ms[i].align]
  <2>1. f \in [1..n -> Nat]
    BY <1>9 DEF Positive
  <2>2. \E j \in 1..n : \A i \in 1..n : f[i] <= f[j]
    <3> HIDE DEF f
    <3> QED BY <1>8, <2>1, MaxExists
  <2>3. \E a \in {ms[i].align : i \in DOMAIN ms} : \A i \in DOMAIN ms : ms[i].align <= a
    BY <1>9, <2>2
  <2>4. most \in {ms[i].align : i \in DOMAIN ms}
    BY <2>3
  <2> HIDE DEF most
  <2> QED BY <1>9, <2>4 DEF Positive
<1>12. MemberEnds(ms)[n] \in Nat /\ MemberEnds(ms)[n] > 0
  BY <1>8, <1>9, <1>10, EndsNat
<1> DEFINE size == AlignUp(MemberEnds(ms)[Len(ms)], most)
<1>13. size \in Nat /\ size > 0
  <2> HIDE DEF most
  <2> PICK e : e = MemberEnds(ms)[n]
    OBVIOUS
  <2>1. AlignUp(e, most) \in Nat /\ AlignUp(e, most) >= e
    BY <1>11, <1>12, AlignUpFacts
  <2> QED BY <1>10, <1>12, <2>1
<1>14. Right[d] = [size |-> size, align |-> most]
  <2>1. Right[d] = LayoutOf(ms)
    BY <1>4, <1>6, <1>7, RightUnfold
  <2> QED BY <2>1 DEF LayoutOf
<1>15. Right[d] \in Positive
  <2> HIDE DEF size, most
  <2> QED BY <1>11, <1>13, <1>14 DEF Positive
<1> QED BY <1>4, <1>15

\* The members of a well-formed struct that the program left to be laid out.
LEMMA StructFacts ==
  ASSUME NEW d \in Descriptors, WellFormed(d), Declared[d].size = 0
  PROVE  /\ Members(d) # <<>> /\ Len(Members(d)) \in Nat \ {0}
         /\ DOMAIN Members(d) = 1..Len(Members(d))
         /\ \A i \in 1..Len(Members(d)) : /\ Members(d)[i] \in Descriptors
                                          /\ WellFormed(Members(d)[i])
                                          /\ Right[Members(d)[i]] \in Positive
                                          /\ RightMembers(d)[i] = Right[Members(d)[i]]
         /\ Len(RightMembers(d)) = Len(Members(d)) /\ DOMAIN RightMembers(d) = 1..Len(Members(d))
<1>1. Declared[d].kind \in {"scalar", "struct", "invalid"}
      /\ (Declared[d].kind = "scalar" => Declared[d].size > 0)
  BY DeclaredAssumption
<1>2. Members(d) # <<>>
  BY <1>1, IllFormedItself DEF Invalid
<1>3. Len(Members(d)) \in Nat \ {0} /\ DOMAIN Members(d) = 1..Len(Members(d))
  BY <1>2, MembersType
<1>4. \A i \in 1..Len(Members(d)) : Members(d)[i] \in Descriptors /\ WellFormed(Members(d)[i])
  BY <1>3, MembersType, IllFormedMember
<1>5. \A i \in 1..Len(Members(d)) : Right[Members(d)[i]] \in Positive
  BY <1>4, RightPositive
<1>6. \A i \in 1..Len(Members(d)) : RightMembers(d)[i] = Right[Members(d)[i]]
  BY <1>3 DEF RightMembers
<1>7. Len(RightMembers(d)) = Len(Members(d)) /\ DOMAIN RightMembers(d) = 1..Len(Members(d))
  <2> PICK ms : ms = RightMembers(d)
    OBVIOUS
  <2>1. ms = [i \in 1..Len(Members(d)) |-> ms[i]]
    BY <1>3 DEF RightMembers
  <2>2. DOMAIN ms = 1..Len(Members(d))
    BY <1>3 DEF RightMembers
  <2>3. Len(ms) = Len(Members(d))
    BY <1>3, <2>1, LenProperties
  <2> QED BY <2>2, <2>3
<1> QED BY <1>2, <1>3, <1>4, <1>5, <1>6, <1>7

\* The ends of its members, one after the other.
LEMMA EndOfFacts ==
  ASSUME NEW d \in Descriptors, WellFormed(d), Declared[d].size = 0
  PROVE  /\ EndOf(d, 0) = 0
         /\ \A i \in 0..Len(Members(d)) : EndOf(d, i) \in Nat /\ (i > 0 => EndOf(d, i) > 0)
         /\ \A i \in 1..Len(Members(d)) :
              /\ EndOf(d, i) = Offset(RightMembers(d), i) + Right[Members(d)[i]].size
              /\ Offset(RightMembers(d), i) = AlignUp(EndOf(d, i - 1), Right[Members(d)[i]].align)
<1> PICK ms : ms = RightMembers(d)
  OBVIOUS
<1> PICK n : n = Len(Members(d))
  OBVIOUS
<1>1. /\ n \in Nat /\ Len(ms) = n
      /\ \A i \in 1..n : ms[i] = Right[Members(d)[i]] /\ ms[i] \in Positive
  BY StructFacts
<1>2. /\ \A i \in 0..n : MemberEnds(ms)[i] \in Nat /\ (i > 0 => MemberEnds(ms)[i] > 0)
      /\ MemberEnds(ms)[0] = 0
      /\ \A i \in 1..n : MemberEnds(ms)[i] = Offset(ms, i) + ms[i].size
  BY <1>1, EndsNat
<1>3. \A i \in 0..n : EndOf(d, i) = MemberEnds(ms)[i]
  BY DEF EndOf
<1>4. \A i \in 1..n : Offset(ms, i) = AlignUp(MemberEnds(ms)[i - 1], ms[i].align)
  BY DEF Offset
<1>5. \A i \in 1..n : i - 1 \in 0..n /\ i \in 0..n
  BY <1>1
<1>6. 0 \in 0..n
  BY <1>1
<1>7. EndOf(d, 0) = 0
  BY <1>2, <1>3, <1>6
<1>8. \A i \in 0..n : EndOf(d, i) \in Nat /\ (i > 0 => EndOf(d, i) > 0)
  BY <1>2, <1>3
<1>9. ASSUME NEW i \in 1..n
      PROVE  /\ EndOf(d, i) = Offset(RightMembers(d), i) + Right[Members(d)[i]].size
             /\ Offset(RightMembers(d), i) = AlignUp(EndOf(d, i - 1), Right[Members(d)[i]].align)
  <2>1. i - 1 \in 0..n /\ i \in 0..n
    BY <1>5
  <2>2. ms[i] = Right[Members(d)[i]]
    BY <1>1
  <2>3. EndOf(d, i) = MemberEnds(ms)[i] /\ EndOf(d, i - 1) = MemberEnds(ms)[i - 1]
    BY <1>3, <2>1
  <2>4. MemberEnds(ms)[i] = Offset(ms, i) + ms[i].size
        /\ Offset(ms, i) = AlignUp(MemberEnds(ms)[i - 1], ms[i].align)
    BY <1>2, <1>4
  <2> QED BY <2>2, <2>3, <2>4
<1> QED BY <1>7, <1>8, <1>9

\* What its layout is, given the largest alignment.
LEMMA RightOf ==
  ASSUME NEW d \in Descriptors, WellFormed(d), Declared[d].size = 0,
         NEW a, Largest(a, d, Len(Members(d)))
  PROVE  /\ a \in Nat \ {0}
         /\ Right[d] = [size |-> AlignUp(EndOf(d, Len(Members(d))), a), align |-> a]
<1> PICK ms : ms = RightMembers(d)
  OBVIOUS
<1> PICK n : n = Len(Members(d))
  OBVIOUS
<1>1. /\ n \in Nat \ {0} /\ Len(ms) = n /\ DOMAIN ms = 1..n /\ Members(d) # <<>>
      /\ \A i \in 1..n : ms[i] = Right[Members(d)[i]] /\ ms[i].align \in Nat \ {0}
  BY StructFacts DEF Positive
<1>2. (\A i \in 1..n : ms[i].align <= a) /\ \E i \in 1..n : ms[i].align = a
  BY <1>1 DEF Largest
<1>3. a \in Nat \ {0}
  BY <1>1, <1>2
<1> DEFINE as == {ms[i].align : i \in DOMAIN ms}
           most == CHOOSE b \in as : \A i \in DOMAIN ms : ms[i].align <= b
<1>4. most = a
  <2>1. a \in as /\ \A i \in DOMAIN ms : ms[i].align <= a
    BY <1>1, <1>2
  <2>2. most \in as /\ \A i \in DOMAIN ms : ms[i].align <= most
    BY <2>1
  <2> HIDE DEF most
  <2>3. a <= most /\ most <= a /\ most \in Nat
    BY <1>1, <1>2, <2>2
  <2> QED BY <1>3, <2>3
<1>5. Right[d] = LayoutOf(ms)
  BY <1>1, RightUnfold
<1>6. LayoutOf(ms) = [size |-> AlignUp(MemberEnds(ms)[n], a), align |-> a]
  BY <1>1, <1>4 DEF LayoutOf
<1> QED BY <1>3, <1>5, <1>6 DEF EndOf

\* A well-formed type with a Size the program gave has no other.
LEMMA RightDeclared ==
  ASSUME NEW d \in Descriptors, Declared[d].size > 0 \/ Members(d) = <<>>
  PROVE  Right[d] = AsDeclared(d)
BY RightUnfold
\* The largest alignment of one member more.
LEMMA LargestNext ==
  ASSUME NEW d \in Descriptors, WellFormed(d), Declared[d].size = 0,
         NEW i \in 1..Len(Members(d)), NEW a, Largest(a, d, i - 1)
  PROVE  LET b == Right[Members(d)[i]].align
         IN  Largest(IF b > a THEN b ELSE a, d, i)
<1> PICK n : n = Len(Members(d))
  OBVIOUS
<1> DEFINE al(j) == Right[Members(d)[j]].align
<1>1. n \in Nat \ {0} /\ i \in 1..n /\ \A j \in 1..n : al(j) \in Nat \ {0}
  BY StructFacts DEF Positive
<1> HIDE DEF al
<1>2. \A j \in 1..i : j \in 1..(i - 1) \/ j = i
  BY <1>1
<1>3. /\ \A j \in 1..(i - 1) : al(j) <= a
      /\ IF i - 1 = 0 THEN a = 0 ELSE \E j \in 1..(i - 1) : al(j) = a
  BY DEF Largest, al
<1>4. a \in Nat
  BY <1>1, <1>3
<1>5. CASE al(i) > a
  <2>1. \A j \in 1..i : al(j) <= al(i)
    BY <1>1, <1>2, <1>3, <1>4, <1>5
  <2>2. i # 0 /\ i \in 1..i
    BY <1>1
  <2>3. Largest(al(i), d, i)
    BY <2>1, <2>2 DEF Largest, al
  <2> QED BY <2>3, <1>5 DEF al
<1>6. CASE ~(al(i) > a)
  <2>1. \A j \in 1..i : al(j) <= a
    BY <1>1, <1>2, <1>3, <1>4, <1>6
  <2>2. i - 1 # 0
    BY <1>1, <1>3, <1>6
  <2>3. i # 0 /\ \E j \in 1..i : al(j) = a
    BY <1>1, <1>3, <2>2
  <2>4. Largest(a, d, i)
    BY <2>1, <2>3 DEF Largest, al
  <2> QED BY <2>4, <1>6 DEF al
<1> QED BY <1>5, <1>6
--------------------------------------------------------------------------------
(* Activations on a stack.                                                  *)

LEMMA ReplaceLast ==
  ASSUME NEW s \in Seq(Frame), s # <<>>, NEW f \in Frame
  PROVE  /\ Len(s) \in Nat \ {0} /\ DOMAIN s = 1..Len(s) /\ s[Len(s)] \in Frame
         /\ SubSeq(s, 1, Len(s) - 1) \in Seq(Frame) /\ Len(SubSeq(s, 1, Len(s) - 1)) = Len(s) - 1
         /\ \A n \in 1..Len(s) - 1 : SubSeq(s, 1, Len(s) - 1)[n] = s[n]
         /\ Append(SubSeq(s, 1, Len(s) - 1), f) \in Seq(Frame)
         /\ Len(Append(SubSeq(s, 1, Len(s) - 1), f)) = Len(s)
         /\ \A n \in 1..Len(s) - 1 : Append(SubSeq(s, 1, Len(s) - 1), f)[n] = s[n]
         /\ Append(SubSeq(s, 1, Len(s) - 1), f)[Len(s)] = f
<1>1. Len(s) \in Nat \ {0} /\ DOMAIN s = 1..Len(s) /\ s[Len(s)] \in Frame
  <2>1. Len(s) \in Nat /\ Len(s) # 0
    BY EmptySeq
  <2> QED BY <2>1
<1> PICK b : b = SubSeq(s, 1, Len(s) - 1)
  OBVIOUS
<1>2. b \in Seq(Frame) /\ Len(b) = Len(s) - 1 /\ \A n \in 1..Len(s) - 1 : b[n] = s[n]
  BY <1>1, SubSeqProperties
<1>3. /\ Append(b, f) \in Seq(Frame) /\ Len(Append(b, f)) = Len(b) + 1
      /\ (\A n \in 1..Len(b) : Append(b, f)[n] = b[n]) /\ Append(b, f)[Len(b) + 1] = f
  BY <1>2, AppendProperties
<1>4. \A n \in 1..Len(s) - 1 : Append(b, f)[n] = s[n]
  BY <1>2, <1>3
<1>5. Len(Append(b, f)) = Len(s) /\ Append(b, f)[Len(s)] = f
  <2>1. Len(b) + 1 = Len(s)
    BY <1>1, <1>2
  <2> QED BY <1>3, <2>1
<1>6. Append(b, f) \in Seq(Frame)
  BY <1>3
<1> QED BY <1>1, <1>2, <1>4, <1>5, <1>6
LEMMA PushFacts ==
  ASSUME NEW s \in Seq(Frame), NEW f \in Frame
  PROVE  /\ Len(s) \in Nat /\ Append(s, f) \in Seq(Frame) /\ Len(Append(s, f)) = Len(s) + 1
         /\ (\A n \in 1..Len(s) : Append(s, f)[n] = s[n]) /\ Append(s, f)[Len(s) + 1] = f
         /\ Append(s, f) # <<>>
BY AppendProperties

\* The condition on one activation that does not look at the others.
Local(f) == /\ Declared[f.t].kind = "struct" /\ Declared[f.t].size = 0
            /\ Members(f.t) # <<>>
            /\ f.i \in 1..Len(Members(f.t)) + 1
            /\ f.at # "member" => f.i <= Len(Members(f.t))
            /\ f.at \in {"size", "align"} => f.i = 1
\* The innermost activation goes on.
LEMMA ActivationsReplace ==
  ASSUME NEW s \in Seq(Frame), s # <<>>, NEW d, Activations(s, d), NEW f \in Frame, Local(f),
         f.t = s[Len(s)].t, NEW r \in Seq(Frame), Len(r) = Len(s),
         \A n \in 1..Len(s) - 1 : r[n] = s[n], r[Len(s)] = f
  PROVE  Activations(r, d)
<1>1. Len(s) \in Nat \ {0} /\ DOMAIN s = 1..Len(s) /\ DOMAIN r = 1..Len(s)
  BY ReplaceLast
<1>2. \A n \in 1..Len(s) : r[n].t = s[n].t
  BY <1>1
<1>3. \A n \in DOMAIN r : Activation(r, n)
  <2>1. SUFFICES ASSUME NEW n \in 1..Len(s) PROVE Activation(r, n)
    BY <1>1
  <2>2. CASE n = Len(s)
    BY <1>1, <2>2 DEF Activation, Local
  <2>3. CASE n # Len(s)
    <3>1. n \in 1..Len(s) - 1 /\ n + 1 \in 1..Len(s) /\ n < Len(s)
      <4> PICK m : m = Len(s)
        OBVIOUS
      <4>1. m \in Nat /\ n \in 1..m /\ n # m
        BY <1>1, <2>3
      <4> QED BY <4>1
    <3>2. r[n] = s[n] /\ r[n + 1].t = s[n + 1].t /\ Activation(s, n)
      BY <1>1, <1>2, <3>1 DEF Activations
    <3> QED BY <3>1, <3>2 DEF Activation
  <2> QED BY <2>2, <2>3
<1>4. r # <<>> => r[1].t = d
  BY <1>1, <1>2 DEF Activations
<1> QED BY <1>1, <1>2, <1>3, <1>4 DEF Activations
\* Another activation is entered: of the first type, or of a member.
LEMMA ActivationsFirst ==
  ASSUME NEW f \in Frame, Local(f), NEW r \in Seq(Frame), Len(r) = 1, r[1] = f
  PROVE  Activations(r, f.t)
<1>1. DOMAIN r = 1..1 /\ f.t \in Descriptors
  BY DEF Frame
<1>2. f.t \in Nested[f.t]
  BY <1>1, NestedSelf
<1>3. \A n \in DOMAIN r : n = 1
  BY <1>1
<1>4. \A n \in DOMAIN r : Activation(r, n)
  BY <1>3 DEF Activation, Local
<1> QED BY <1>2, <1>3, <1>4 DEF Activations
LEMMA ActivationsPush ==
  ASSUME NEW s \in Seq(Frame), s # <<>>, NEW d, Activations(s, d), s[Len(s)].at = "valid",
         NEW f \in Frame, Local(f), f.t = Members(s[Len(s)].t)[s[Len(s)].i]
  PROVE  Activations(Append(s, f), d)
<1> PICK r : r = Append(s, f)
  OBVIOUS
<1> PICK n : n = Len(s)
  OBVIOUS
<1>1. /\ n \in Nat \ {0} /\ DOMAIN s = 1..n /\ r \in Seq(Frame) /\ Len(r) = n + 1
      /\ (\A k \in 1..n : r[k] = s[k]) /\ r[n + 1] = f
  BY ReplaceLast, PushFacts
<1>2. DOMAIN r = 1..(n + 1) /\ \A k \in 1..(n + 1) : k \in 1..n \/ k = n + 1
  BY <1>1
<1>3. \A k \in 1..n : s[k] \in Frame /\ s[k].t \in Descriptors
  <2>1. \A k \in 1..n : s[k] \in Frame
    BY <1>1, ElementOfSeq
  <2> QED BY <2>1 DEF Frame
<1>4. n \in 1..n /\ Activation(s, n) /\ Declared[s[n].t].size = 0
      /\ s[n].i \in DOMAIN Members(s[n].t)
  <2>1. n \in 1..n /\ Activation(s, n)
    BY <1>1 DEF Activations
  <2>2. s[n].t \in Descriptors
    BY <1>3, <2>1
  <2>3. s[n].i \in 1..Len(Members(s[n].t))
    BY <1>1, <2>1, <2>2, MembersType DEF Activation
  <2> QED BY <2>1, <2>2, <2>3, MembersType DEF Activation
<1>5. \A k \in 1..n : f.t \in Nested[s[k].t] /\ f.t # s[k].t
  <2>1. SUFFICES ASSUME NEW k \in 1..n PROVE f.t \in Nested[s[k].t] /\ f.t # s[k].t
    OBVIOUS
  <2>2. s[n].t \in Nested[s[k].t]
    BY <1>1, <1>4 DEF Activations
  <2>3. f.t \in Nested[s[n].t]
    BY <1>3, <1>4, NestedMember
  <2>4. f.t \in Nested[s[k].t]
    BY <1>3, <2>2, <2>3, NestedTransitive
  <2>5. f.t # s[k].t
    BY <1>3, <1>4, <2>2, NoCycle
  <2> QED BY <2>4, <2>5
<1>6. f.t \in Nested[f.t]
  BY NestedSelf DEF Frame
<1>7. \A k \in DOMAIN r : Activation(r, k)
  <2>1. SUFFICES ASSUME NEW k \in 1..(n + 1) PROVE Activation(r, k)
    BY <1>2
  <2>2. CASE k = n + 1
    BY <1>1, <2>2 DEF Activation, Local
  <2>3. CASE k = n
    <3>1. r[k] = s[n] /\ r[k + 1] = f /\ s[n].at = "valid"
      BY <1>1, <2>3
    <3> QED BY <1>4, <2>3, <3>1 DEF Activation
  <2>4. CASE k # n /\ k # n + 1
    <3>1. k \in 1..n /\ k + 1 \in 1..n /\ k < n
      BY <1>1, <2>4
    <3>2. r[k] = s[k] /\ r[k + 1] = s[k + 1] /\ Activation(s, k)
      BY <1>1, <3>1 DEF Activations
    <3> QED BY <3>1, <3>2 DEF Activation
  <2> QED BY <2>2, <2>3, <2>4
<1>8. r[1].t = d
  BY <1>1 DEF Activations
<1>9. \A k, j \in DOMAIN r : k <= j => r[j].t \in Nested[r[k].t]
  BY <1>1, <1>2, <1>5, <1>6 DEF Activations
<1>10. \A k, j \in DOMAIN r : k < j => r[j].t # r[k].t
  BY <1>1, <1>2, <1>5 DEF Activations
<1> QED BY <1>7, <1>8, <1>9, <1>10 DEF Activations
\* The innermost activation returns.
LEMMA ActivationsPop ==
  ASSUME NEW s \in Seq(Frame), s # <<>>, NEW d, Activations(s, d)
  PROVE  Activations(SubSeq(s, 1, Len(s) - 1), d)
<1> PICK b : b = SubSeq(s, 1, Len(s) - 1)
  OBVIOUS
<1>1. /\ Len(s) \in Nat \ {0} /\ DOMAIN s = 1..Len(s) /\ s[Len(s)] \in Frame
      /\ b \in Seq(Frame) /\ Len(b) = Len(s) - 1 /\ \A n \in 1..Len(s) - 1 : b[n] = s[n]
  <2>1. s[Len(s)] \in Frame
    BY EmptySeq
  <2> QED BY <2>1, ReplaceLast
<1>2. DOMAIN b = 1..Len(s) - 1 /\ \A n \in DOMAIN b : n \in DOMAIN s /\ b[n] = s[n]
  BY <1>1
<1>3. \A n \in DOMAIN b : Activation(b, n)
  <2>1. SUFFICES ASSUME NEW n \in 1..Len(s) - 1 PROVE Activation(b, n)
    BY <1>2
  <2>2. b[n] = s[n] /\ Activation(s, n) /\ n < Len(s)
    BY <1>1, <1>2 DEF Activations
  <2>3. n < Len(b) => b[n + 1] = s[n + 1]
    BY <1>1
  <2> QED BY <2>2, <2>3 DEF Activation
<1>4. b # <<>> => b[1].t = d
  <2>1. b # <<>> => 1 \in 1..Len(s) - 1
    BY <1>1, EmptySeq
  <2> QED BY <1>1, <2>1 DEF Activations
<1> QED BY <1>2, <1>3, <1>4 DEF Activations
LEMMA ActivationsEmpty == ASSUME NEW d PROVE Activations(<<>>, d)
BY DEF Activations

\* There are no more activations than descriptors.
LEMMA ActivationsShort ==
  ASSUME NEW s \in Seq(Frame), NEW d, Activations(s, d)
  PROVE  Len(s) <= Cardinality(Descriptors)
<1> PICK n : n = Len(s)
  OBVIOUS
<1>1. n \in Nat /\ DOMAIN s = 1..n /\ \A k \in 1..n : s[k].t \in Descriptors
  <2>1. n \in Nat /\ DOMAIN s = 1..n /\ \A k \in 1..n : s[k] \in Frame
    BY ElementOfSeq
  <2> QED BY <2>1 DEF Frame
<1> DEFINE f == [k \in 1..n |-> s[k].t]
<1>2. f \in Injection(1..n, Descriptors)
  <2>1. f \in [1..n -> Descriptors]
    BY <1>1
  <2>2. \A k, j \in 1..n : k < j => f[k] # f[j]
    BY <1>1 DEF Activations
  <2>3. \A k, j \in 1..n : f[k] = f[j] => k = j
    BY <1>1, <2>2
  <2> HIDE DEF f
  <2> QED BY <2>1, <2>3 DEF Injection, IsInjective
<1>3. Cardinality(1..n) <= Cardinality(Descriptors)
  <2> HIDE DEF f
  <2> QED BY <1>2, DeclaredAssumption, FS_Injection
<1>4. Cardinality(1..n) = n
  <2>1. 1 \in Int /\ n \in Int
    BY <1>1
  <2>2. Cardinality(1..n) = IF 1 > n THEN 0 ELSE n - 1 + 1
    BY <2>1, FS_Interval
  <2> QED BY <1>1, <2>2
<1> QED BY <1>3, <1>4
--------------------------------------------------------------------------------
(* The type invariant.                                                      *)

LEMMA TypesType ==
  ASSUME NEW r \in Requests
  PROVE  /\ Len(Types(r)) \in Nat \ {0} /\ DOMAIN Types(r) = 1..Len(Types(r))
         /\ \A k \in 1..Len(Types(r)) : Types(r)[k] \in Descriptors
         /\ r.variadic \in BOOLEAN /\ r.fixed \in Nat
<1>1. /\ r.ret \in Descriptors /\ r.args \in Seq(Descriptors)
      /\ r.variadic \in BOOLEAN /\ r.fixed \in Nat
  BY RequestsAssumption
<1> PICK one : one = <<r.ret>>
  OBVIOUS
<1>2. one \in Seq(Descriptors) /\ Len(one) = 1
  BY <1>1
<1> PICK s : s = one \o r.args
  OBVIOUS
<1>3. s \in Seq(Descriptors) /\ Len(s) = Len(one) + Len(r.args)
  BY <1>1, <1>2, ConcatProperties
<1>4. Len(s) \in Nat \ {0}
  BY <1>1, <1>2, <1>3, LenProperties
<1>5. DOMAIN s = 1..Len(s) /\ \A k \in 1..Len(s) : s[k] \in Descriptors
  BY <1>3, ElementOfSeq, LenProperties
<1> QED BY <1>1, <1>4, <1>5 DEF Types

\* What is the same of a goroutine after a step of another.
Same(h) == /\ stage'[h] = stage[h] /\ asked'[h] = asked[h] /\ next'[h] = next[h]
           /\ work'[h] = work[h] /\ cif'[h] = cif[h]
OthersSame(g) == \A h \in Goroutines \ {g} : Same(h)
LEMMA PlaceSame == ASSUME NEW h, Same(h), Place(h) PROVE Place(h)'
BY DEF Same, Place, This

Typed == /\ desc \in [Descriptors -> [size : Nat, align : Nat]]
         /\ stage \in [Goroutines -> {"idle", "enter", "valid", "classify", "ready"} \cup Errors]
         /\ asked \in [Goroutines -> Requests]
         /\ next \in [Goroutines -> Nat]
         /\ work \in [Goroutines -> Seq(Frame)]
         /\ cif \in [Goroutines -> [sizes : Seq(Nat), fixed : Nat]]
         /\ tainted \subseteq Descriptors
         /\ left \in [Goroutines -> 0..Preparations]
Placed == \A g \in Goroutines : Place(g)
LEMMA TypeInvFrom == Typed /\ Kept /\ Placed => TypeInv
<1> SUFFICES ASSUME Typed, Kept, \A g \in Goroutines : Place(g) PROVE TypeInv
  BY DEF Placed
<1>1. ASSUME NEW g \in Goroutines PROVE Len(work[g]) <= Cardinality(Descriptors)
  <2>1. work[g] \in Seq(Frame)
    BY DEF Typed
  <2>2. CASE stage[g] = "valid"
    BY <2>1, <2>2, ActivationsShort DEF Place
  <2>3. CASE stage[g] # "valid"
    <3>1. Len(work[g]) = 0
      BY <2>3, EmptySeq DEF Place
    <3>2. Cardinality(Descriptors) \in Nat
      BY DeclaredAssumption, FS_CardinalityType
    <3> QED BY <3>1, <3>2
  <2> QED BY <2>2, <2>3
<1> QED BY <1>1 DEF TypeInv, TypeOK, Typed
LEMMA TypeInvStep ==
  ASSUME TypeInv, NEW g \in Goroutines, OthersSame(g), Typed', Kept', Place(g)'
  PROVE  TypeInv'
<1>1. Placed'
  <2>1. \A h \in Goroutines \ {g} : Place(h)'
    BY PlaceSame DEF OthersSame, TypeInv
  <2> QED BY <2>1 DEF Placed
<1> QED BY <1>1, TypeInvFrom, PTL

\* What is known of the activations of a goroutine that has some.
LEMMA TopFacts ==
  ASSUME TypeInv, NEW g \in Goroutines, work[g] # <<>>
  PROVE  /\ stage[g] = "valid" /\ work[g] \in Seq(Frame) /\ Activations(work[g], This(g))
         /\ Len(work[g]) \in Nat \ {0} /\ DOMAIN work[g] = 1..Len(work[g])
         /\ Top(g) = work[g][Len(work[g])] /\ Top(g) \in Frame /\ Local(Top(g))
         /\ Top(g).t \in Descriptors /\ Top(g).i \in Nat /\ Top(g).i > 0
         /\ Top(g).at # "member" => Top(g).i \in DOMAIN Members(Top(g).t)
<1>1. stage[g] = "valid" /\ work[g] \in Seq(Frame) /\ Activations(work[g], This(g))
  BY DEF TypeInv, TypeOK, Place
<1>2. Len(work[g]) \in Nat \ {0} /\ DOMAIN work[g] = 1..Len(work[g])
  BY <1>1, EmptySeq, LenProperties
<1>3. Top(g) = work[g][Len(work[g])] /\ Top(g) \in Frame
  BY <1>1, <1>2, ElementOfSeq DEF Top
<1>4. Top(g).t \in Descriptors /\ Top(g).i \in Nat
  BY <1>3 DEF Frame
<1>5. Activation(work[g], Len(work[g]))
  BY <1>1, <1>2 DEF Activations
<1>6. Local(Top(g))
  BY <1>3, <1>5 DEF Activation, Local
<1>7. Len(Members(Top(g).t)) \in Nat /\ DOMAIN Members(Top(g).t) = 1..Len(Members(Top(g).t))
  BY <1>4, MembersType
<1>8. Top(g).i > 0 /\ (Top(g).at # "member" => Top(g).i \in DOMAIN Members(Top(g).t))
  BY <1>4, <1>6, <1>7 DEF Local
<1> QED BY <1>1, <1>2, <1>3, <1>4, <1>6, <1>8

LEMMA ThisType ==
  ASSUME TypeInv, NEW g \in Goroutines, stage[g] \in {"enter", "valid"}
  PROVE  This(g) \in Descriptors /\ next[g] \in 1..Len(Types(asked[g]))
<1>1. asked[g] \in Requests /\ next[g] \in 1..Len(Types(asked[g]))
  BY DEF TypeInv, TypeOK, Place
<1> QED BY <1>1, TypesType DEF This
LEMMA UnfinishedFacts ==
  ASSUME TypeInv, NEW d \in Descriptors, Unfinished(d)
  PROVE  Declared[d].kind = "struct" /\ Declared[d].size = 0
<1>1. Declared[d].size \in Nat
  BY DeclaredAssumption
<1>2. Declared[d].size > 0 => desc[d].size > 0
  <2>1. Declared[d].size > 0 => desc[d] = AsDeclared(d)
    BY DEF TypeInv, Kept
  <2> QED BY <2>1 DEF AsDeclared
<1> QED BY <1>1, <1>2 DEF Unfinished

\* A goroutine gives up.
LEMMA FailTyped ==
  ASSUME TypeInv, NEW g \in Goroutines, NEW error \in Errors, Fail(g, error)
  PROVE  TypeInv' /\ OthersSame(g)
<1>1. OthersSame(g)
  BY DEF Fail, OthersSame, Same, TypeInv, TypeOK
<1>2. {work[g][n].t : n \in DOMAIN work[g]} \subseteq Descriptors
  <2>1. work[g] \in Seq(Frame)
    BY DEF TypeInv, TypeOK
  <2>2. \A n \in DOMAIN work[g] : work[g][n] \in Frame
    BY <2>1, LenProperties, ElementOfSeq
  <2> QED BY <2>2 DEF Frame
<1>3. Typed'
  <2>1. work' \in [Goroutines -> Seq(Frame)]
    BY EmptySeq DEF Fail, TypeInv, TypeOK
  <2>2. stage' \in [Goroutines -> {"idle", "enter", "valid", "classify", "ready"} \cup Errors]
    BY DEF Fail, TypeInv, TypeOK
  <2> QED BY <1>2, <2>1, <2>2 DEF Fail, TypeInv, TypeOK, Typed
<1>4. Kept'
  BY DEF Fail, Kept, TypeInv
<1>5. Place(g)'
  <2>1. stage'[g] = error /\ work'[g] = <<>>
    BY DEF Fail, TypeInv, TypeOK
  <2> QED BY <2>1 DEF Place, Errors
<1> QED BY <1>1, <1>3, <1>4, <1>5, TypeInvStep

\* The innermost activation has done something: it is now f.
Moves(g, f) == /\ work' = [work EXCEPT ![g] = Append(Below(g), f)]
               /\ \A d \in Descriptors : d # Top(g).t => desc'[d] = desc[d]
               /\ UNCHANGED <<stage, asked, next, cif, tainted, left>>
LEMMA MovesFacts ==
  ASSUME TypeInv, NEW g \in Goroutines, work[g] # <<>>, NEW f \in Frame, Moves(g, f)
  PROVE  /\ OthersSame(g) /\ work' \in [Goroutines -> Seq(Frame)]
         /\ work'[g] \in Seq(Frame) /\ Len(work'[g]) = Len(work[g]) /\ work'[g] # <<>>
         /\ \A n \in 1..Len(work[g]) - 1 : work'[g][n] = work[g][n]
         /\ work'[g][Len(work[g])] = f
         /\ DOMAIN work'[g] = 1..Len(work[g])
<1>1. work \in [Goroutines -> Seq(Frame)] /\ work[g] \in Seq(Frame)
  BY DEF TypeInv, TypeOK
<1> PICK r : r = Append(Below(g), f)
  OBVIOUS
<1>2. /\ Len(work[g]) \in Nat \ {0} /\ r \in Seq(Frame) /\ Len(r) = Len(work[g])
      /\ (\A n \in 1..Len(work[g]) - 1 : r[n] = work[g][n]) /\ r[Len(work[g])] = f
  BY <1>1, ReplaceLast DEF Below
<1>3. work' = [work EXCEPT ![g] = r]
  BY DEF Moves
<1>4. work'[g] = r /\ work' \in [Goroutines -> Seq(Frame)]
      /\ \A h \in Goroutines \ {g} : work'[h] = work[h]
  BY <1>1, <1>2, <1>3
<1>5. OthersSame(g)
  BY <1>4 DEF Moves, OthersSame, Same
<1>6. r # <<>> /\ DOMAIN r = 1..Len(r)
  BY <1>2, EmptySeq, LenProperties
<1> QED BY <1>2, <1>4, <1>5, <1>6
LEMMA MovesTyped ==
  ASSUME TypeInv, NEW g \in Goroutines, work[g] # <<>>, NEW f \in Frame, Moves(g, f),
         Local(f), f.t = Top(g).t, desc' \in [Descriptors -> [size : Nat, align : Nat]]
  PROVE  TypeInv'
<1>1. OthersSame(g) /\ work' \in [Goroutines -> Seq(Frame)]
  BY MovesFacts
<1>2. Typed'
  BY <1>1 DEF Moves, Typed, TypeInv, TypeOK
<1>3. Kept'
  <2>1. Declared[Top(g).t].size = 0
    BY TopFacts DEF Local
  <2> QED BY <2>1 DEF Moves, Kept, TypeInv
<1>4. Place(g)'
  <2>1. Activations(work[g], This(g)) /\ work[g] \in Seq(Frame) /\ stage[g] = "valid"
        /\ f.t = work[g][Len(work[g])].t
    BY TopFacts
  <2>2. Activations(work'[g], This(g))
    <3> PICK r : r = work'[g]
      OBVIOUS
    <3>1. /\ r \in Seq(Frame) /\ Len(r) = Len(work[g]) /\ r[Len(work[g])] = f
          /\ \A n \in 1..Len(work[g]) - 1 : r[n] = work[g][n]
      BY MovesFacts
    <3> QED BY <2>1, <3>1, ActivationsReplace
  <2>3. UNCHANGED <<stage, next, asked>> /\ Place(g)
    BY DEF Moves, TypeInv
  <2> QED BY <2>1, <2>2, <2>3 DEF Place, This
<1> QED BY <1>1, <1>2, <1>3, <1>4, TypeInvStep

\* The innermost activation at another statement.
LEMMA AtFacts ==
  ASSUME TypeInv, NEW g \in Goroutines, work[g] # <<>>, NEW at \in Steps
  PROVE  /\ [Top(g) EXCEPT !.at = at] \in Frame /\ [Top(g) EXCEPT !.at = at].t = Top(g).t
         /\ [Top(g) EXCEPT !.at = at].i = Top(g).i /\ [Top(g) EXCEPT !.at = at].at = at
<1>1. Top(g) \in Frame
  BY TopFacts
<1> QED BY <1>1 DEF Frame
\* An assignment to the descriptor of the innermost activation.
LEMMA AssignFacts ==
  ASSUME TypeInv, NEW g \in Goroutines, work[g] # <<>>, NEW size \in Nat, NEW alignment \in Nat,
         NEW at \in Steps, Assign(g, size, alignment, at)
  PROVE  /\ Moves(g, [Top(g) EXCEPT !.at = at])
         /\ desc' \in [Descriptors -> [size : Nat, align : Nat]]
         /\ desc'[Top(g).t] = [size |-> size, align |-> alignment]
<1>1. Top(g).t \in Descriptors /\ desc \in [Descriptors -> [size : Nat, align : Nat]]
  BY TopFacts DEF TypeInv, TypeOK
<1>2. desc' = [desc EXCEPT ![Top(g).t] = [size |-> size, align |-> alignment]]
  BY DEF Assign
<1>3. [size |-> size, align |-> alignment] \in [size : Nat, align : Nat]
  OBVIOUS
<1>4. /\ desc' \in [Descriptors -> [size : Nat, align : Nat]]
      /\ desc'[Top(g).t] = [size |-> size, align |-> alignment]
      /\ \A d \in Descriptors : d # Top(g).t => desc'[d] = desc[d]
  BY <1>1, <1>2, <1>3
<1> QED BY <1>4 DEF Assign, Then, Moves
LEMMA ThenFacts ==
  ASSUME NEW g, NEW at, Then(g, at), UNCHANGED <<desc, stage, asked, next, cif, tainted, left>>
  PROVE  Moves(g, [Top(g) EXCEPT !.at = at])
BY DEF Then, Moves

\* The sizes an assignment computes are numbers.
LEMMA OwnFacts ==
  ASSUME TypeInv, NEW g \in Goroutines, work[g] # <<>>
  PROVE  /\ Own(g).size \in Nat /\ Own(g).align \in Nat /\ Own(g) = desc[Top(g).t]
         /\ Top(g).at # "member" =>
              /\ Member(g) \in Descriptors /\ Member(g) = Members(Top(g).t)[Top(g).i]
              /\ desc[Member(g)].size \in Nat /\ desc[Member(g)].align \in Nat
         /\ \A a \in Nat : align(Own(g).size, a) \in Nat
<1>1. Top(g).t \in Descriptors /\ desc \in [Descriptors -> [size : Nat, align : Nat]]
  BY TopFacts DEF TypeInv, TypeOK
<1>2. Own(g).size \in Nat /\ Own(g).align \in Nat /\ Own(g) = desc[Top(g).t]
  BY <1>1 DEF Own
<1>3. ASSUME Top(g).at # "member"
      PROVE  /\ Member(g) \in Descriptors /\ Member(g) = Members(Top(g).t)[Top(g).i]
             /\ desc[Member(g)].size \in Nat /\ desc[Member(g)].align \in Nat
  <2>1. Top(g).i \in DOMAIN Members(Top(g).t)
    BY <1>3, TopFacts
  <2>2. Member(g) \in Descriptors
    BY <1>1, <2>1, MembersType DEF Member
  <2> QED BY <1>1, <2>2 DEF Member
<1>4. \A a \in Nat : align(Own(g).size, a) \in Nat
  BY <1>2, AlignUpFacts DEF align
<1> QED BY <1>2, <1>3, <1>4

LEMMA AssignTyped ==
  ASSUME TypeInv, NEW g \in Goroutines, NEW at \in {"size", "align", "start", "add"}, At(g, at),
         NEW size \in Nat, NEW alignment \in Nat, NEW to \in Steps \ {"size", "align"},
         Assign(g, size, alignment, to) \/ (at = "size" /\ Assign(g, size, alignment, "align"))
  PROVE  TypeInv' /\ OthersSame(g)
<1> PICK b \in Steps : /\ Assign(g, size, alignment, b)
                       /\ b = "align" => at = "size"
                       /\ b # "size"
  BY DEF Steps
<1>1. work[g] # <<>> /\ Top(g).at = at
  BY DEF At
<1> PICK f : f = [Top(g) EXCEPT !.at = b]
  OBVIOUS
<1>2. Moves(g, f) /\ desc' \in [Descriptors -> [size : Nat, align : Nat]]
  BY <1>1, AssignFacts
<1>3. f \in Frame /\ f.t = Top(g).t /\ f.i = Top(g).i /\ f.at = b
  BY <1>1, AtFacts
<1>4. Local(f)
  BY <1>1, <1>3, TopFacts DEF Local
<1> QED BY <1>1, <1>2, <1>3, <1>4, MovesFacts, MovesTyped

LEMMA ResetSizeTyped ==
  ASSUME TypeInv, NEW g \in Goroutines, ResetSize(g) PROVE TypeInv' /\ OthersSame(g)
<1>1. At(g, "size") /\ Assign(g, 0, Own(g).align, "align")
  BY DEF ResetSize
<1>2. Own(g).align \in Nat
  BY <1>1, OwnFacts DEF At
<1> QED BY <1>1, <1>2, AssignTyped DEF Steps
LEMMA ResetAlignTyped ==
  ASSUME TypeInv, NEW g \in Goroutines, ResetAlign(g) PROVE TypeInv' /\ OthersSame(g)
<1>1. At(g, "align") /\ Assign(g, Own(g).size, 0, "member")
  BY DEF ResetAlign
<1>2. Own(g).size \in Nat
  BY <1>1, OwnFacts DEF At
<1> QED BY <1>1, <1>2, AssignTyped DEF Steps
LEMMA AlignMemberTyped ==
  ASSUME TypeInv, NEW g \in Goroutines, AlignMember(g) PROVE TypeInv' /\ OthersSame(g)
<1> PICK size : size = align(Own(g).size, desc[Member(g)].align)
  OBVIOUS
<1>1. At(g, "start") /\ Assign(g, size, Own(g).align, "add")
  BY DEF AlignMember
<1>2. size \in Nat /\ Own(g).align \in Nat
  BY <1>1, OwnFacts DEF At
<1> QED BY <1>1, <1>2, AssignTyped DEF Steps
LEMMA AddMemberTyped ==
  ASSUME TypeInv, NEW g \in Goroutines, AddMember(g) PROVE TypeInv' /\ OthersSame(g)
<1> PICK size : size = Own(g).size + desc[Member(g)].size
  OBVIOUS
<1>1. At(g, "add") /\ Assign(g, size, Own(g).align, "max")
  BY DEF AddMember
<1>2. Own(g).size \in Nat /\ desc[Member(g)].size \in Nat /\ Own(g).align \in Nat
  BY <1>1, OwnFacts DEF At
<1>3. size \in Nat
  BY <1>2
<1> QED BY <1>1, <1>2, <1>3, AssignTyped DEF Steps

\* The next member.
Advanced(f) == [t |-> f.t, i |-> f.i + 1, at |-> "member"]
LEMMA MaxAlignFacts ==
  ASSUME TypeInv, NEW g \in Goroutines, MaxAlign(g)
  PROVE  /\ At(g, "max") /\ work[g] # <<>> /\ Moves(g, Advanced(Top(g)))
         /\ Advanced(Top(g)) \in Frame /\ Local(Advanced(Top(g))) /\ Advanced(Top(g)).t = Top(g).t
         /\ Advanced(Top(g)).i = Top(g).i + 1 /\ Advanced(Top(g)).at = "member"
         /\ desc' \in [Descriptors -> [size : Nat, align : Nat]]
         /\ desc'[Top(g).t].size = Own(g).size
         /\ desc'[Top(g).t].align = IF desc[Member(g)].align > Own(g).align
                                    THEN desc[Member(g)].align ELSE Own(g).align
<1> PICK t : t = Top(g).t
  OBVIOUS
<1> PICK a : a = IF desc[Member(g)].align > desc[t].align
                 THEN desc[Member(g)].align ELSE desc[t].align
  OBVIOUS
<1>1. At(g, "max") /\ work[g] # <<>> /\ Top(g).at = "max"
  BY DEF MaxAlign, At
<1>2. Own(g) = desc[t] /\ Own(g).align \in Nat /\ desc[Member(g)].align \in Nat /\ t \in Descriptors
  BY <1>1, OwnFacts, TopFacts
<1>3. a \in Nat
  BY <1>2
<1>4. desc \in [Descriptors -> [size : Nat, align : Nat]]
  BY DEF TypeInv, TypeOK
<1>5. desc' = [desc EXCEPT ![t].align = a]
  BY <1>2, <1>4 DEF MaxAlign
<1>6. /\ desc' \in [Descriptors -> [size : Nat, align : Nat]]
      /\ desc'[t].size = desc[t].size /\ desc'[t].align = a
      /\ \A d \in Descriptors : d # t => desc'[d] = desc[d]
  BY <1>2, <1>3, <1>4, <1>5
<1>7. Moves(g, Advanced(Top(g)))
  BY <1>6 DEF MaxAlign, Moves, Advanced
<1>8. /\ Advanced(Top(g)) \in Frame /\ Advanced(Top(g)).t = t
      /\ Advanced(Top(g)).i = Top(g).i + 1 /\ Advanced(Top(g)).at = "member"
  <2> PICK f : f = Top(g)
    OBVIOUS
  <2>1. f \in [t : Descriptors, i : Nat, at : Steps] /\ f.t \in Descriptors /\ f.i + 1 \in Nat
    BY <1>1, TopFacts DEF Frame
  <2>2. Advanced(f) = [t |-> f.t, i |-> f.i + 1, at |-> "member"]
    BY DEF Advanced
  <2>3. "member" \in Steps
    BY DEF Steps
  <2> QED BY <2>1, <2>2, <2>3 DEF Frame
<1>9. Local(Advanced(Top(g)))
  <2>1. Local(Top(g)) /\ Top(g).i \in Nat /\ Len(Members(t)) \in Nat
    BY <1>1, <1>2, TopFacts, MembersType
  <2>2. Top(g).i + 1 \in 1..Len(Members(t)) + 1
    BY <1>1, <2>1 DEF Local
  <2> QED BY <1>8, <2>1, <2>2 DEF Local
<1> QED BY <1>1, <1>2, <1>6, <1>7, <1>8, <1>9
LEMMA MaxAlignTyped ==
  ASSUME TypeInv, NEW g \in Goroutines, MaxAlign(g) PROVE TypeInv' /\ OthersSame(g)
<1> PICK f : f = Advanced(Top(g))
  OBVIOUS
<1>1. /\ work[g] # <<>> /\ Moves(g, f) /\ f \in Frame /\ Local(f) /\ f.t = Top(g).t
      /\ desc' \in [Descriptors -> [size : Nat, align : Nat]]
  BY MaxAlignFacts
<1> QED BY <1>1, MovesFacts, MovesTyped
LEMMA CheckMemberTyped ==
  ASSUME TypeInv, NEW g \in Goroutines, CheckMember(g) PROVE TypeInv' /\ OthersSame(g)
<1>1. work[g] # <<>> /\ Top(g).at = "valid"
  BY DEF CheckMember, At
<1>2. CASE Fail(g, "invalidType")
  BY <1>2, FailTyped DEF Errors
<1>3. CASE ~Fail(g, "invalidType")
  <2> PICK f : f = [Top(g) EXCEPT !.at = "start"]
    OBVIOUS
  <2>1. Moves(g, f) /\ desc' = desc
    BY <1>3, ThenFacts DEF CheckMember
  <2>2. f \in Frame /\ f.t = Top(g).t /\ f.i = Top(g).i /\ f.at = "start"
    BY <1>1, AtFacts DEF Steps
  <2>3. Local(f)
    BY <1>1, <2>2, TopFacts DEF Local
  <2>4. desc' \in [Descriptors -> [size : Nat, align : Nat]]
    BY <2>1 DEF TypeInv, TypeOK
  <2> QED BY <1>1, <2>1, <2>2, <2>3, <2>4, MovesFacts, MovesTyped
<1> QED BY <1>2, <1>3

\* What entering a descriptor comes to.
Entered(d) == [t |-> d, i |-> 1, at |-> "size"]
LEMMA EnteredFacts ==
  ASSUME TypeInv, NEW d \in Descriptors, Unfinished(d), Members(d) # <<>>
  PROVE  /\ Entered(d) \in Frame /\ Local(Entered(d))
         /\ Entered(d).t = d /\ Entered(d).i = 1 /\ Entered(d).at = "size"
<1>1. Declared[d].kind = "struct" /\ Declared[d].size = 0
  BY UnfinishedFacts
<1>2. Len(Members(d)) \in Nat \ {0}
  BY MembersType
<1>3. Entered(d) \in Frame /\ Entered(d).t = d /\ Entered(d).i = 1 /\ Entered(d).at = "size"
  BY DEF Entered, Frame, Steps
<1> QED BY <1>1, <1>2, <1>3 DEF Local
\* The innermost activation enters its member.
Pushes(g) ==
  /\ Unfinished(Member(g)) /\ Members(Member(g)) # <<>>
  /\ work' = [work EXCEPT ![g] = Append(Append(Below(g), [Top(g) EXCEPT !.at = "valid"]),
                                        Entered(Member(g)))]
  /\ UNCHANGED <<desc, stage, asked, next, cif, tainted, left>>
LEMMA EnterMemberCases ==
  ASSUME TypeInv, NEW g \in Goroutines, EnterMember(g)
  PROVE  /\ work[g] # <<>> /\ Top(g).at = "member"
         /\ Top(g).i \in DOMAIN Members(Top(g).t) /\ Member(g) \in Descriptors
         /\ Member(g) = Members(Top(g).t)[Top(g).i]
         /\ \/ Fail(g, "noMembers") /\ Unfinished(Member(g)) /\ Members(Member(g)) = <<>>
            \/ ~Unfinished(Member(g)) /\ Moves(g, [Top(g) EXCEPT !.at = "valid"]) /\ desc' = desc
            \/ Pushes(g)
<1>1. work[g] # <<>> /\ Top(g).at = "member" /\ Top(g).i <= Len(Members(Top(g).t))
      /\ Enter(g, Member(g), Append(Below(g), [Top(g) EXCEPT !.at = "valid"]))
  BY DEF EnterMember, At
<1>2. Top(g).t \in Descriptors /\ Top(g).i \in Nat /\ Top(g).i > 0 /\ stage[g] = "valid"
  BY <1>1, TopFacts
<1>3. Top(g).i \in DOMAIN Members(Top(g).t) /\ Member(g) \in Descriptors
  BY <1>1, <1>2, MembersType DEF Member
<1>4. [stage EXCEPT ![g] = "valid"] = stage
  BY <1>2 DEF TypeInv, TypeOK
<1>5. CASE Unfinished(Member(g)) /\ Members(Member(g)) = <<>>
  BY <1>1, <1>3, <1>5 DEF Enter, Member
<1>6. CASE ~Unfinished(Member(g))
  BY <1>1, <1>3, <1>4, <1>6 DEF Enter, Moves, Member
<1>7. CASE Unfinished(Member(g)) /\ Members(Member(g)) # <<>>
  <2>1. Pushes(g)
    BY <1>1, <1>4, <1>7 DEF Enter, Pushes, Entered
  <2> QED BY <1>1, <1>3, <2>1 DEF Member
<1> QED BY <1>5, <1>6, <1>7
LEMMA PushesFacts ==
  ASSUME TypeInv, NEW g \in Goroutines, work[g] # <<>>, Top(g).at = "member",
         Member(g) \in Descriptors, Pushes(g)
  PROVE  /\ OthersSame(g) /\ work' \in [Goroutines -> Seq(Frame)]
         /\ Len(work'[g]) = Len(work[g]) + 1 /\ DOMAIN work'[g] = 1..Len(work[g]) + 1
         /\ \A n \in 1..Len(work[g]) - 1 : work'[g][n] = work[g][n]
         /\ work'[g][Len(work[g])] = [Top(g) EXCEPT !.at = "valid"]
         /\ work'[g][Len(work[g]) + 1] = Entered(Member(g))
<1>1. work \in [Goroutines -> Seq(Frame)] /\ work[g] \in Seq(Frame)
  BY DEF TypeInv, TypeOK
<1> PICK f : f = [Top(g) EXCEPT !.at = "valid"]
  OBVIOUS
<1> PICK e : e = Entered(Member(g))
  OBVIOUS
<1>2. f \in Frame /\ e \in Frame
  BY AtFacts, EnteredFacts DEF Pushes, Steps
<1> PICK r : r = Append(Below(g), f)
  OBVIOUS
<1>3. /\ Len(work[g]) \in Nat \ {0} /\ r \in Seq(Frame) /\ Len(r) = Len(work[g])
      /\ (\A n \in 1..Len(work[g]) - 1 : r[n] = work[g][n]) /\ r[Len(work[g])] = f
  BY <1>1, <1>2, ReplaceLast DEF Below
<1> PICK q : q = Append(r, e)
  OBVIOUS
<1>4. /\ q \in Seq(Frame) /\ Len(q) = Len(r) + 1 /\ (\A n \in 1..Len(r) : q[n] = r[n])
      /\ q[Len(r) + 1] = e
  BY <1>2, <1>3, PushFacts
<1>5. work' = [work EXCEPT ![g] = q]
  BY DEF Pushes
<1>6. work'[g] = q /\ work' \in [Goroutines -> Seq(Frame)]
      /\ \A h \in Goroutines \ {g} : work'[h] = work[h]
  BY <1>1, <1>4, <1>5
<1>7. OthersSame(g)
  BY <1>6 DEF Pushes, OthersSame, Same
<1>8. DOMAIN q = 1..Len(q)
  BY <1>4, LenProperties
<1>9. (\A n \in 1..Len(work[g]) - 1 : q[n] = work[g][n]) /\ q[Len(work[g])] = f
  BY <1>3, <1>4
<1>10. Len(q) = Len(work[g]) + 1 /\ q[Len(work[g]) + 1] = e
  BY <1>3, <1>4
<1> QED BY <1>6, <1>7, <1>8, <1>9, <1>10
LEMMA PushesTyped ==
  ASSUME TypeInv, NEW g \in Goroutines, work[g] # <<>>, Top(g).at = "member",
         Top(g).i \in DOMAIN Members(Top(g).t), Member(g) \in Descriptors, Pushes(g)
  PROVE  TypeInv'
<1>1. OthersSame(g) /\ work' \in [Goroutines -> Seq(Frame)]
  BY PushesFacts
<1>2. Typed' /\ Kept'
  BY <1>1 DEF Pushes, Typed, TypeInv, TypeOK, Kept
<1>3. Place(g)'
  <2> PICK f : f = [Top(g) EXCEPT !.at = "valid"]
    OBVIOUS
  <2> PICK e : e = Entered(Member(g))
    OBVIOUS
  <2>1. /\ Activations(work[g], This(g)) /\ work[g] \in Seq(Frame) /\ stage[g] = "valid"
        /\ Top(g) = work[g][Len(work[g])] /\ Local(Top(g)) /\ Top(g).t \in Descriptors
    BY TopFacts
  <2>2. f \in Frame /\ f.t = Top(g).t /\ f.i = Top(g).i /\ f.at = "valid"
    BY AtFacts DEF Steps
  <2>3. Local(f)
    BY <2>1, <2>2, MembersType DEF Local
  <2>4. e \in Frame /\ Local(e) /\ e.t = Member(g)
    BY EnteredFacts DEF Pushes
  <2> PICK r : r = Append(Below(g), f)
    OBVIOUS
  <2>5. /\ Len(work[g]) \in Nat \ {0} /\ r \in Seq(Frame) /\ Len(r) = Len(work[g])
        /\ (\A n \in 1..Len(work[g]) - 1 : r[n] = work[g][n]) /\ r[Len(work[g])] = f
    BY <2>1, <2>2, ReplaceLast DEF Below
  <2>6. Activations(r, This(g))
    BY <2>1, <2>2, <2>3, <2>5, ActivationsReplace
  <2>7. r # <<>> /\ r[Len(r)] = f
    BY <2>5, EmptySeq
  <2>8. e.t = Members(r[Len(r)].t)[r[Len(r)].i]
    BY <2>2, <2>4, <2>7 DEF Member
  <2>9. Activations(Append(r, e), This(g))
    BY <2>2, <2>4, <2>5, <2>6, <2>7, <2>8, ActivationsPush
  <2>10. work'[g] = Append(r, e)
    BY DEF Pushes, TypeInv, TypeOK
  <2>11. UNCHANGED <<stage, next, asked>> /\ Place(g)
    BY DEF Pushes, TypeInv
  <2> QED BY <2>1, <2>9, <2>10, <2>11 DEF Place, This
<1> QED BY <1>1, <1>2, <1>3, TypeInvStep
LEMMA EnterMemberTyped ==
  ASSUME TypeInv, NEW g \in Goroutines, EnterMember(g) PROVE TypeInv' /\ OthersSame(g)
<1>1. work[g] # <<>> /\ Top(g).at = "member" /\ Top(g).i \in DOMAIN Members(Top(g).t)
      /\ Member(g) \in Descriptors
  BY EnterMemberCases
<1>2. CASE Fail(g, "noMembers")
  BY <1>2, FailTyped DEF Errors
<1>3. CASE Moves(g, [Top(g) EXCEPT !.at = "valid"]) /\ desc' = desc
  <2> PICK f : f = [Top(g) EXCEPT !.at = "valid"]
    OBVIOUS
  <2>1. f \in Frame /\ f.t = Top(g).t /\ f.i = Top(g).i /\ f.at = "valid"
    BY <1>1, AtFacts DEF Steps
  <2>2. Local(f)
    BY <1>1, <2>1, TopFacts, MembersType DEF Local
  <2>3. desc' \in [Descriptors -> [size : Nat, align : Nat]]
    BY <1>3 DEF TypeInv, TypeOK
  <2> QED BY <1>1, <1>3, <2>1, <2>2, <2>3, MovesFacts, MovesTyped
<1>4. CASE Pushes(g)
  BY <1>1, <1>4, PushesFacts, PushesTyped
<1> QED BY <1>2, <1>3, <1>4, EnterMemberCases

LEMMA EnterTypeFacts ==
  ASSUME TypeInv, NEW g \in Goroutines, EnterType(g)
  PROVE  /\ stage[g] = "enter" /\ work[g] = <<>> /\ This(g) \in Descriptors
         /\ OthersSame(g) /\ This(g)' = This(g)
         /\ \/ Fail(g, "noMembers") /\ Unfinished(This(g)) /\ Members(This(g)) = <<>>
            \/ /\ stage' \in [Goroutines -> {"idle", "enter", "valid", "classify", "ready"} \cup Errors]
               /\ stage'[g] = "valid" /\ work' \in [Goroutines -> Seq(Frame)]
               /\ UNCHANGED <<desc, asked, next, cif, tainted, left>>
               /\ \/ ~Unfinished(This(g)) /\ work'[g] = <<>>
                  \/ /\ Unfinished(This(g)) /\ Members(This(g)) # <<>>
                     /\ Len(work'[g]) = 1 /\ work'[g][1] = Entered(This(g))
<1>1. stage[g] = "enter" /\ work[g] = <<>> /\ This(g) \in Descriptors /\ Enter(g, This(g), <<>>)
  BY ThisType DEF EnterType, TypeInv, Place
<1>2. CASE Unfinished(This(g)) /\ Members(This(g)) = <<>>
  <2>1. Fail(g, "noMembers")
    BY <1>1, <1>2 DEF Enter
  <2> QED BY <1>1, <1>2, <2>1, FailTyped DEF Errors, Fail, This
<1>3. CASE ~(Unfinished(This(g)) /\ Members(This(g)) = <<>>)
  <2> PICK r : r = IF Unfinished(This(g)) THEN Append(<<>>, Entered(This(g))) ELSE <<>>
    OBVIOUS
  <2>1. r \in Seq(Frame) /\ IF Unfinished(This(g)) THEN Len(r) = 1 /\ r[1] = Entered(This(g))
                                                   ELSE r = <<>>
    <3>1. CASE ~Unfinished(This(g))
      BY <3>1, EmptySeq
    <3>2. CASE Unfinished(This(g))
      <4>1. Entered(This(g)) \in Frame
        BY <1>1, <1>3, <3>2, EnteredFacts
      <4>2. <<>> \in Seq(Frame) /\ Len(<<>>) = 0
        BY EmptySeq
      <4>3. r = Append(<<>>, Entered(This(g)))
        BY <3>2
      <4>4. r \in Seq(Frame) /\ Len(r) = 0 + 1 /\ r[0 + 1] = Entered(This(g))
        <5>1. PICK e, z : e = <<>> /\ z = Entered(This(g))
          OBVIOUS
        <5>2. e \in Seq(Frame) /\ z \in Frame /\ Len(e) = 0
          BY <4>1, <4>2, <5>1
        <5>3. Append(e, z) \in Seq(Frame) /\ Len(Append(e, z)) = Len(e) + 1
              /\ Append(e, z)[Len(e) + 1] = z
          BY <5>2, PushFacts
        <5> QED BY <4>3, <5>1, <5>2, <5>3
      <4> QED BY <3>2, <4>4
    <3> QED BY <3>1, <3>2
  <2>2. work' = [work EXCEPT ![g] = r] /\ stage' = [stage EXCEPT ![g] = "valid"]
        /\ UNCHANGED <<desc, asked, next, cif, tainted, left>>
    BY <1>1, <1>3 DEF Enter, Entered
  <2>3. /\ work \in [Goroutines -> Seq(Frame)]
        /\ stage \in [Goroutines -> {"idle", "enter", "valid", "classify", "ready"} \cup Errors]
    BY DEF TypeInv, TypeOK
  <2>4. work' \in [Goroutines -> Seq(Frame)] /\ work'[g] = r
        /\ \A h \in Goroutines \ {g} : work'[h] = work[h]
    BY <2>1, <2>2, <2>3
  <2>5. /\ stage' \in [Goroutines -> {"idle", "enter", "valid", "classify", "ready"} \cup Errors]
        /\ stage'[g] = "valid" /\ \A h \in Goroutines \ {g} : stage'[h] = stage[h]
    BY <2>2, <2>3
  <2>6. OthersSame(g) /\ This(g)' = This(g)
    BY <2>2, <2>4, <2>5 DEF OthersSame, Same, This
  <2> QED BY <1>1, <1>3, <2>1, <2>2, <2>4, <2>5, <2>6
<1> QED BY <1>2, <1>3
LEMMA EnterTypeTyped ==
  ASSUME TypeInv, NEW g \in Goroutines, EnterType(g) PROVE TypeInv' /\ OthersSame(g)
<1>1. This(g) \in Descriptors /\ OthersSame(g) /\ This(g)' = This(g) /\ stage[g] = "enter"
  BY EnterTypeFacts
<1>2. CASE Fail(g, "noMembers")
  BY <1>2, FailTyped DEF Errors
<1>3. CASE ~Fail(g, "noMembers")
  <2>1. /\ stage' \in [Goroutines -> {"idle", "enter", "valid", "classify", "ready"} \cup Errors]
        /\ stage'[g] = "valid" /\ work' \in [Goroutines -> Seq(Frame)]
        /\ UNCHANGED <<desc, asked, next, cif, tainted, left>>
        /\ \/ ~Unfinished(This(g)) /\ work'[g] = <<>>
           \/ /\ Unfinished(This(g)) /\ Members(This(g)) # <<>>
              /\ Len(work'[g]) = 1 /\ work'[g][1] = Entered(This(g))
    BY <1>3, EnterTypeFacts
  <2>2. Typed' /\ Kept'
    BY <2>1 DEF Typed, TypeInv, TypeOK, Kept
  <2>3. Activations(work'[g], This(g))
    <3>1. CASE work'[g] = <<>>
      BY <3>1, ActivationsEmpty
    <3>2. CASE Unfinished(This(g)) /\ Members(This(g)) # <<>>
               /\ Len(work'[g]) = 1 /\ work'[g][1] = Entered(This(g))
      <4>1. work'[g] \in Seq(Frame)
        BY <2>1
      <4> PICK r : r = work'[g]
        OBVIOUS
      <4> PICK e : e = Entered(This(g))
        OBVIOUS
      <4>2. e \in Frame /\ Local(e) /\ e.t = This(g)
        BY <1>1, <3>2, EnteredFacts
      <4> QED BY <3>2, <4>1, <4>2, ActivationsFirst
    <3> QED BY <2>1, <3>1, <3>2
  <2>4. Place(g)'
    <3>1. next[g] \in 1..Len(Types(asked[g]))
      BY <1>1, ThisType
    <3> QED BY <1>1, <2>1, <2>3, <3>1 DEF Place
  <2> QED BY <1>1, <2>2, <2>4, TypeInvStep
<1> QED BY <1>2, <1>3

\* The innermost activation returns.
LEMMA FinishFacts ==
  ASSUME TypeInv, NEW g \in Goroutines, Finish(g)
  PROVE  /\ work[g] # <<>> /\ Top(g).at = "member"
         /\ Top(g).i = Len(Members(Top(g).t)) + 1 /\ Top(g).t \in Descriptors
         /\ OthersSame(g) /\ UNCHANGED <<stage, asked, next, cif, tainted, left>>
         /\ work' \in [Goroutines -> Seq(Frame)] /\ work'[g] = Below(g)
         /\ Len(Below(g)) = Len(work[g]) - 1 /\ DOMAIN Below(g) = 1..Len(work[g]) - 1
         /\ \A n \in 1..Len(work[g]) - 1 : Below(g)[n] = work[g][n]
         /\ desc' \in [Descriptors -> [size : Nat, align : Nat]]
         /\ desc'[Top(g).t] = [size |-> FinalSize(g), align |-> Own(g).align]
         /\ \A d \in Descriptors : d # Top(g).t => desc'[d] = desc[d]
<1> PICK t : t = Top(g).t
  OBVIOUS
<1> PICK z : z = FinalSize(g)
  OBVIOUS
<1> PICK b : b = Below(g)
  OBVIOUS
<1>1. work[g] # <<>> /\ Top(g).at = "member" /\ Top(g).i > Len(Members(t))
  BY DEF Finish, At
<1>2. t \in Descriptors /\ Local(Top(g)) /\ Top(g).i \in Nat /\ work[g] \in Seq(Frame)
      /\ Top(g) = work[g][Len(work[g])] /\ Top(g) \in Frame
  BY <1>1, TopFacts
<1>3. Top(g).i = Len(Members(t)) + 1
  BY <1>1, <1>2, MembersType DEF Local
<1>4. z \in Nat /\ Own(g) = desc[t] /\ Own(g).align \in Nat
  BY <1>1, OwnFacts DEF FinalSize
<1>5. desc \in [Descriptors -> [size : Nat, align : Nat]] /\ desc' = [desc EXCEPT ![t].size = z]
  BY DEF Finish, TypeInv, TypeOK
<1>6. /\ desc' \in [Descriptors -> [size : Nat, align : Nat]]
      /\ desc'[t].size = z /\ desc'[t].align = desc[t].align
      /\ \A d \in Descriptors : d # t => desc'[d] = desc[d]
  BY <1>2, <1>4, <1>5
<1>7. desc'[t] = [size |-> z, align |-> Own(g).align]
  <2>1. desc'[t] \in [size : Nat, align : Nat]
    BY <1>2, <1>6
  <2> QED BY <1>4, <1>6, <2>1
<1>8. /\ b \in Seq(Frame) /\ Len(b) = Len(work[g]) - 1
      /\ \A n \in 1..Len(work[g]) - 1 : b[n] = work[g][n]
  BY <1>1, <1>2, ReplaceLast DEF Below
<1>9. DOMAIN b = 1..Len(work[g]) - 1
  BY <1>8, LenProperties
<1>10. work \in [Goroutines -> Seq(Frame)] /\ work' = [work EXCEPT ![g] = b]
  BY DEF Finish, TypeInv, TypeOK
<1>11. work' \in [Goroutines -> Seq(Frame)] /\ work'[g] = b
       /\ \A h \in Goroutines \ {g} : work'[h] = work[h]
  BY <1>8, <1>10
<1>12. UNCHANGED <<stage, asked, next, cif, tainted, left>>
  BY DEF Finish
<1>13. OthersSame(g)
  BY <1>11, <1>12 DEF OthersSame, Same
<1> QED BY <1>1, <1>2, <1>3, <1>6, <1>7, <1>8, <1>9, <1>11, <1>12, <1>13
LEMMA FinishTyped ==
  ASSUME TypeInv, NEW g \in Goroutines, Finish(g) PROVE TypeInv' /\ OthersSame(g)
<1>1. /\ work[g] # <<>> /\ UNCHANGED <<stage, asked, next, cif, tainted, left>>
      /\ work' \in [Goroutines -> Seq(Frame)] /\ work'[g] = Below(g)
      /\ desc' \in [Descriptors -> [size : Nat, align : Nat]] /\ OthersSame(g)
      /\ \A d \in Descriptors : d # Top(g).t => desc'[d] = desc[d]
  BY FinishFacts
<1>2. Typed'
  BY <1>1 DEF Typed, TypeInv, TypeOK
<1>3. Kept'
  <2>1. Declared[Top(g).t].size = 0
    BY <1>1, TopFacts DEF Local
  <2> QED BY <1>1, <2>1 DEF Kept, TypeInv
<1>4. Place(g)'
  <2>1. Activations(work[g], This(g)) /\ work[g] \in Seq(Frame) /\ stage[g] = "valid"
    BY <1>1, TopFacts
  <2>2. Activations(Below(g), This(g))
    BY <1>1, <2>1, ActivationsPop DEF Below
  <2>3. Place(g)
    BY DEF TypeInv
  <2> QED BY <1>1, <2>1, <2>2, <2>3 DEF Place, This
<1> QED BY <1>1, <1>2, <1>3, <1>4, TypeInvStep

\* The steps outside initializeCompositeType.
LEMMA BeginFacts ==
  ASSUME TypeInv, NEW g \in Goroutines, NEW r \in Requests, Begin(g, r)
  PROVE  /\ OthersSame(g) /\ Typed' /\ asked'[g] = r /\ next'[g] = 1
         /\ stage'[g] \in {"enter", "tooManyFixed", "invalidCall"}
         /\ work[g] = <<>> /\ work' = work /\ desc' = desc /\ tainted' = tainted /\ cif' = cif
<1> PICK x : x = IF Refusal(r) = "none" THEN "enter" ELSE Refusal(r)
  OBVIOUS
<1>1. x \in {"enter", "tooManyFixed", "invalidCall"}
  <2>1. Refusal(r) \in {"none", "tooManyFixed", "invalidCall"}
    BY DEF Refusal
  <2> QED BY <2>1
<1>2. /\ stage \in [Goroutines -> {"idle", "enter", "valid", "classify", "ready"} \cup Errors]
      /\ asked \in [Goroutines -> Requests] /\ next \in [Goroutines -> Nat]
      /\ left \in [Goroutines -> 0..Preparations]
  BY DEF TypeInv, TypeOK
<1>3. /\ asked' = [asked EXCEPT ![g] = r] /\ stage' = [stage EXCEPT ![g] = x]
      /\ next' = [next EXCEPT ![g] = 1] /\ left' = [left EXCEPT ![g] = @ - 1]
      /\ UNCHANGED <<desc, work, cif, tainted>> /\ left[g] > 0 /\ ~Busy(g)
  BY DEF Begin
<1>4. /\ stage' \in [Goroutines -> {"idle", "enter", "valid", "classify", "ready"} \cup Errors]
      /\ stage'[g] = x /\ \A h \in Goroutines \ {g} : stage'[h] = stage[h]
  BY <1>1, <1>2, <1>3 DEF Errors
<1>5. /\ asked' \in [Goroutines -> Requests] /\ next' \in [Goroutines -> Nat]
      /\ left' \in [Goroutines -> 0..Preparations]
  <2>1. left[g] - 1 \in 0..Preparations
    BY <1>2, <1>3, BoundsAssumption
  <2> QED BY <1>2, <1>3, <2>1
<1>6. asked'[g] = r /\ next'[g] = 1 /\ OthersSame(g)
  BY <1>2, <1>3, <1>4 DEF OthersSame, Same
<1>7. work[g] = <<>>
  BY <1>3 DEF TypeInv, Place, Busy
<1>8. Typed'
  BY <1>3, <1>4, <1>5 DEF Typed, TypeInv, TypeOK
<1> QED BY <1>1, <1>3, <1>4, <1>6, <1>7, <1>8
LEMMA BeginTyped ==
  ASSUME TypeInv, NEW g \in Goroutines, NEW r \in Requests, Begin(g, r)
  PROVE  TypeInv' /\ OthersSame(g)
<1>1. /\ OthersSame(g) /\ Typed' /\ asked'[g] = r /\ next'[g] = 1
      /\ stage'[g] \in {"enter", "tooManyFixed", "invalidCall"}
      /\ work[g] = <<>> /\ work' = work /\ desc' = desc
  BY BeginFacts
<1>2. Kept'
  BY <1>1 DEF Kept, TypeInv
<1>3. Place(g)'
  <2>1. 1 \in 1..Len(Types(r))
    BY TypesType
  <2> QED BY <1>1, <2>1 DEF Place
<1> QED BY <1>1, <1>2, <1>3, TypeInvStep

LEMMA CheckTypeFacts ==
  ASSUME TypeInv, NEW g \in Goroutines, CheckType(g)
  PROVE  /\ stage[g] = "valid" /\ work[g] = <<>> /\ This(g) \in Descriptors
         /\ asked[g] \in Requests /\ next[g] \in 1..Len(Types(asked[g]))
         /\ IF Invalid(This(g)) THEN Fail(g, "invalidType")
            ELSE /\ UNCHANGED <<desc, asked, work, tainted, left>> /\ OthersSame(g) /\ Typed'
                 /\ \/ /\ next[g] # Len(Types(asked[g])) /\ stage'[g] = "enter"
                       /\ next'[g] = next[g] + 1
                    \/ /\ next[g] = Len(Types(asked[g])) /\ stage'[g] = "classify"
                       /\ next'[g] = 1 /\ cif'[g].sizes = <<>>
<1>1. /\ stage[g] = "valid" /\ work[g] = <<>> /\ This(g) \in Descriptors
      /\ asked[g] \in Requests /\ next[g] \in 1..Len(Types(asked[g]))
  BY ThisType DEF CheckType, TypeInv, TypeOK
<1>2. CASE Invalid(This(g))
  BY <1>1, <1>2 DEF CheckType, Invalid
<1>3. CASE ~Invalid(This(g))
  <2> PICK last : last = (next[g] = Len(Types(asked[g])))
    OBVIOUS
  <2> PICK n : n = IF last THEN 1 ELSE next[g] + 1
    OBVIOUS
  <2>1. /\ UNCHANGED <<desc, asked, work, tainted, left>>
        /\ stage' = [stage EXCEPT ![g] = IF last THEN "classify" ELSE "enter"]
        /\ next' = [next EXCEPT ![g] = n]
        /\ cif' = IF last THEN [cif EXCEPT ![g].sizes = <<>>] ELSE cif
    BY <1>3 DEF CheckType, Invalid
  <2>2. /\ stage \in [Goroutines -> {"idle", "enter", "valid", "classify", "ready"} \cup Errors]
        /\ next \in [Goroutines -> Nat] /\ cif \in [Goroutines -> [sizes : Seq(Nat), fixed : Nat]]
    BY DEF TypeInv, TypeOK
  <2>3. n \in Nat
    BY <2>2
  <2>4. next' \in [Goroutines -> Nat] /\ next'[g] = n
        /\ \A h \in Goroutines \ {g} : next'[h] = next[h]
    BY <2>1, <2>2, <2>3
  <2>5. /\ stage' \in [Goroutines -> {"idle", "enter", "valid", "classify", "ready"} \cup Errors]
        /\ stage'[g] = IF last THEN "classify" ELSE "enter"
        /\ \A h \in Goroutines \ {g} : stage'[h] = stage[h]
    BY <2>1, <2>2
  <2>6. /\ cif' \in [Goroutines -> [sizes : Seq(Nat), fixed : Nat]]
        /\ last => cif'[g].sizes = <<>>
        /\ \A h \in Goroutines \ {g} : cif'[h] = cif[h]
    <3>1. <<>> \in Seq(Nat)
      BY EmptySeq
    <3>2. CASE last
      BY <2>1, <2>2, <3>1, <3>2
    <3>3. CASE ~last
      BY <2>1, <2>2, <3>3
    <3> QED BY <3>2, <3>3
  <2>7. OthersSame(g)
    BY <2>1, <2>4, <2>5, <2>6 DEF OthersSame, Same
  <2>8. Typed'
    BY <2>1, <2>4, <2>5, <2>6 DEF Typed, TypeInv, TypeOK
  <2>9. \/ next[g] # Len(Types(asked[g])) /\ ~last
        \/ next[g] = Len(Types(asked[g])) /\ last
    OBVIOUS
  <2> QED BY <1>1, <1>3, <2>1, <2>4, <2>5, <2>6, <2>7, <2>8, <2>9
<1> QED BY <1>2, <1>3
LEMMA CheckTypeTyped ==
  ASSUME TypeInv, NEW g \in Goroutines, CheckType(g) PROVE TypeInv' /\ OthersSame(g)
<1>1. /\ stage[g] = "valid" /\ work[g] = <<>> /\ asked[g] \in Requests
      /\ next[g] \in 1..Len(Types(asked[g]))
  BY CheckTypeFacts
<1>2. CASE Invalid(This(g))
  <2>1. Fail(g, "invalidType")
    BY <1>2, CheckTypeFacts
  <2> QED BY <2>1, FailTyped DEF Errors
<1>3. CASE ~Invalid(This(g))
  <2>1. /\ UNCHANGED <<desc, asked, work, tainted, left>> /\ OthersSame(g) /\ Typed'
        /\ \/ /\ next[g] # Len(Types(asked[g])) /\ stage'[g] = "enter"
              /\ next'[g] = next[g] + 1
           \/ /\ next[g] = Len(Types(asked[g])) /\ stage'[g] = "classify" /\ next'[g] = 1
    BY <1>3, CheckTypeFacts
  <2>2. Kept'
    BY <2>1 DEF Kept, TypeInv
  <2>3. Len(Types(asked[g])) \in Nat \ {0}
    BY <1>1, TypesType
  <2>4. Place(g)'
    BY <1>1, <2>1, <2>3 DEF Place
  <2> QED BY <2>1, <2>2, <2>4, TypeInvStep
<1> QED BY <1>2, <1>3

LEMMA ClassifyFacts ==
  ASSUME TypeInv, NEW g \in Goroutines, Classify(g)
  PROVE  /\ stage[g] = "classify" /\ next[g] \in 1..Len(Types(asked[g])) /\ This(g) \in Descriptors
         /\ UNCHANGED <<desc, stage, asked, work, tainted, left>> /\ OthersSame(g) /\ Typed'
         /\ next'[g] = next[g] + 1 /\ cif[g].sizes \in Seq(Nat)
         /\ cif'[g].sizes = Append(cif[g].sizes, desc[This(g)].size) /\ desc[This(g)].size \in Nat
<1>1. stage[g] = "classify" /\ next[g] <= Len(Types(asked[g])) /\ asked[g] \in Requests
      /\ UNCHANGED <<desc, stage, asked, work, tainted, left>>
  BY DEF Classify, TypeInv, TypeOK
<1>2. Len(Types(asked[g])) \in Nat /\ next[g] \in 1..Len(Types(asked[g])) + 1
  BY <1>1, TypesType DEF TypeInv, Place
<1>3. next[g] \in 1..Len(Types(asked[g]))
  BY <1>1, <1>2
<1>4. This(g) \in Descriptors
  BY <1>1, <1>3, TypesType DEF This
<1>5. desc[This(g)].size \in Nat
  BY <1>4 DEF TypeInv, TypeOK
<1>6. next \in [Goroutines -> Nat] /\ cif \in [Goroutines -> [sizes : Seq(Nat), fixed : Nat]]
  BY DEF TypeInv, TypeOK
<1>7. cif[g].sizes \in Seq(Nat)
  BY <1>6
<1> PICK s : s = Append(cif[g].sizes, desc[This(g)].size)
  OBVIOUS
<1>8. s \in Seq(Nat)
  BY <1>5, <1>7, AppendProperties
<1>9. cif' = [cif EXCEPT ![g].sizes = s] /\ next' = [next EXCEPT ![g] = @ + 1]
  BY <1>6 DEF Classify
<1>10. /\ cif' \in [Goroutines -> [sizes : Seq(Nat), fixed : Nat]] /\ cif'[g].sizes = s
       /\ \A h \in Goroutines \ {g} : cif'[h] = cif[h]
  BY <1>6, <1>8, <1>9
<1>11. next' \in [Goroutines -> Nat] /\ next'[g] = next[g] + 1
       /\ \A h \in Goroutines \ {g} : next'[h] = next[h]
  BY <1>6, <1>9
<1>12. OthersSame(g)
  BY <1>1, <1>10, <1>11 DEF OthersSame, Same
<1>13. Typed'
  BY <1>1, <1>10, <1>11 DEF Typed, TypeInv, TypeOK
<1> QED BY <1>1, <1>3, <1>4, <1>5, <1>7, <1>10, <1>11, <1>12, <1>13
LEMMA ClassifyTyped ==
  ASSUME TypeInv, NEW g \in Goroutines, Classify(g) PROVE TypeInv' /\ OthersSame(g)
<1>1. /\ stage[g] = "classify" /\ next[g] \in 1..Len(Types(asked[g]))
      /\ UNCHANGED <<desc, stage, asked, work, tainted, left>> /\ OthersSame(g) /\ Typed'
      /\ next'[g] = next[g] + 1
  BY ClassifyFacts
<1>2. Kept'
  BY <1>1 DEF Kept, TypeInv
<1>3. asked[g] \in Requests /\ work[g] = <<>>
  BY <1>1 DEF TypeInv, TypeOK, Place
<1>4. Len(Types(asked[g])) \in Nat
  BY <1>3, TypesType
<1>5. Place(g)'
  BY <1>1, <1>3, <1>4 DEF Place
<1> QED BY <1>1, <1>2, <1>5, TypeInvStep

LEMMA PreparedFacts ==
  ASSUME TypeInv, NEW g \in Goroutines, Prepared(g)
  PROVE  /\ stage[g] = "classify" /\ next[g] = Len(Types(asked[g])) + 1 /\ asked[g] \in Requests
         /\ \/ /\ Room(cif[g].sizes) /\ stage'[g] = "ready" /\ OthersSame(g) /\ Typed'
               /\ UNCHANGED <<desc, asked, next, work, tainted, left>>
               /\ cif'[g].sizes = cif[g].sizes /\ cif'[g].fixed = FixedArgCount(g)
            \/ ~Room(cif[g].sizes) /\ Fail(g, "tooManyArguments")
<1>1. stage[g] = "classify" /\ next[g] > Len(Types(asked[g])) /\ asked[g] \in Requests
  BY DEF Prepared, TypeInv, TypeOK
<1>2. Len(Types(asked[g])) \in Nat /\ next[g] \in 1..Len(Types(asked[g])) + 1
  BY <1>1, TypesType DEF TypeInv, Place
<1>3. next[g] = Len(Types(asked[g])) + 1
  BY <1>1, <1>2
<1>4. CASE ~Room(cif[g].sizes)
  BY <1>1, <1>3, <1>4 DEF Prepared
<1>5. CASE Room(cif[g].sizes)
  <2>1. /\ stage' = [stage EXCEPT ![g] = "ready"]
        /\ cif' = [cif EXCEPT ![g].fixed = FixedArgCount(g)]
        /\ UNCHANGED <<desc, asked, next, work, tainted, left>>
    BY <1>5 DEF Prepared
  <2>2. /\ stage \in [Goroutines -> {"idle", "enter", "valid", "classify", "ready"} \cup Errors]
        /\ cif \in [Goroutines -> [sizes : Seq(Nat), fixed : Nat]]
    BY DEF TypeInv, TypeOK
  <2>3. FixedArgCount(g) \in Nat
    BY <1>1, <2>2, TypesType DEF FixedArgCount
  <2>4. /\ cif' \in [Goroutines -> [sizes : Seq(Nat), fixed : Nat]]
        /\ cif'[g].sizes = cif[g].sizes /\ cif'[g].fixed = FixedArgCount(g)
        /\ \A h \in Goroutines \ {g} : cif'[h] = cif[h]
    BY <2>1, <2>2, <2>3
  <2>5. /\ stage' \in [Goroutines -> {"idle", "enter", "valid", "classify", "ready"} \cup Errors]
        /\ stage'[g] = "ready" /\ \A h \in Goroutines \ {g} : stage'[h] = stage[h]
    BY <2>1, <2>2
  <2>6. OthersSame(g)
    BY <2>1, <2>4, <2>5 DEF OthersSame, Same
  <2>7. Typed'
    BY <2>1, <2>4, <2>5 DEF Typed, TypeInv, TypeOK
  <2> QED BY <1>1, <1>3, <1>5, <2>1, <2>4, <2>5, <2>6, <2>7
<1> QED BY <1>4, <1>5
LEMMA PreparedTyped ==
  ASSUME TypeInv, NEW g \in Goroutines, Prepared(g) PROVE TypeInv' /\ OthersSame(g)
<1>1. CASE Fail(g, "tooManyArguments")
  BY <1>1, FailTyped DEF Errors
<1>2. CASE ~Fail(g, "tooManyArguments")
  <2>1. /\ stage[g] = "classify" /\ stage'[g] = "ready" /\ OthersSame(g) /\ Typed'
        /\ UNCHANGED <<desc, asked, next, work, tainted, left>>
    BY <1>2, PreparedFacts
  <2>2. Kept'
    BY <2>1 DEF Kept, TypeInv
  <2>3. work[g] = <<>>
    BY <2>1 DEF TypeInv, Place
  <2>4. Place(g)'
    BY <2>1, <2>3 DEF Place
  <2> QED BY <2>1, <2>2, <2>4, TypeInvStep
<1> QED BY <1>1, <1>2

StepBy(g) == \/ \E r \in Requests : Begin(g, r)
             \/ EnterType(g) \/ CheckType(g) \/ Classify(g) \/ Prepared(g)
             \/ initializeCompositeType(g)
LEMMA TypeInvBy == ASSUME TypeInv, NEW g \in Goroutines, StepBy(g) PROVE TypeInv' /\ OthersSame(g)
<1>1. CASE \E r \in Requests : Begin(g, r)
  BY <1>1, BeginTyped
<1>2. CASE EnterType(g)
  BY <1>2, EnterTypeTyped
<1>3. CASE CheckType(g)
  BY <1>3, CheckTypeTyped
<1>4. CASE Classify(g)
  BY <1>4, ClassifyTyped
<1>5. CASE Prepared(g)
  BY <1>5, PreparedTyped
<1>6. CASE initializeCompositeType(g)
  <2>1. CASE ResetSize(g)
    BY <2>1, ResetSizeTyped
  <2>2. CASE ResetAlign(g)
    BY <2>2, ResetAlignTyped
  <2>3. CASE EnterMember(g)
    BY <2>3, EnterMemberTyped
  <2>4. CASE CheckMember(g)
    BY <2>4, CheckMemberTyped
  <2>5. CASE AlignMember(g)
    BY <2>5, AlignMemberTyped
  <2>6. CASE AddMember(g)
    BY <2>6, AddMemberTyped
  <2>7. CASE MaxAlign(g)
    BY <2>7, MaxAlignTyped
  <2>8. CASE Finish(g)
    BY <2>8, FinishTyped
  <2> QED BY <1>6, <2>1, <2>2, <2>3, <2>4, <2>5, <2>6, <2>7, <2>8 DEF initializeCompositeType
<1> QED BY <1>1, <1>2, <1>3, <1>4, <1>5, <1>6 DEF StepBy

LEMMA TypeInvInit == Init => TypeInv
<1> SUFFICES ASSUME Init PROVE TypeInv
  OBVIOUS
<1>1. /\ desc = [d \in Descriptors |-> [size |-> Declared[d].size, align |-> Declared[d].align]]
      /\ stage = [g \in Goroutines |-> "idle"]
      /\ asked \in [Goroutines -> {CHOOSE r \in Requests : TRUE}]
      /\ next = [g \in Goroutines |-> 1]
      /\ work = [g \in Goroutines |-> <<>>]
      /\ cif = [g \in Goroutines |-> [sizes |-> <<>>, fixed |-> 0]]
      /\ tainted = {}
      /\ left = [g \in Goroutines |-> Preparations]
  BY DEF Init
<1>2. desc \in [Descriptors -> [size : Nat, align : Nat]]
  BY <1>1, DeclaredAssumption
<1>3. asked \in [Goroutines -> Requests]
  <2>1. (CHOOSE r \in Requests : TRUE) \in Requests
    BY RequestsAssumption
  <2> QED BY <1>1, <2>1
<1>4. work \in [Goroutines -> Seq(Frame)] /\ <<>> \in Seq(Nat)
  BY <1>1, EmptySeq
<1>5. cif \in [Goroutines -> [sizes : Seq(Nat), fixed : Nat]]
  BY <1>1, <1>4
<1>6. stage \in [Goroutines -> {"idle", "enter", "valid", "classify", "ready"} \cup Errors]
      /\ next \in [Goroutines -> Nat] /\ left \in [Goroutines -> 0..Preparations]
  BY <1>1, BoundsAssumption
<1>7. Typed
  BY <1>1, <1>2, <1>3, <1>4, <1>5, <1>6 DEF Typed
<1>8. Kept
  BY <1>1 DEF Kept, AsDeclared
<1>9. Placed
  BY <1>1 DEF Placed, Place
<1> QED BY <1>7, <1>8, <1>9, TypeInvFrom
LEMMA TypeInvStutter == TypeInv /\ UNCHANGED vars => TypeInv'
<1> SUFFICES ASSUME TypeInv, UNCHANGED vars PROVE TypeInv'
  OBVIOUS
<1>1. Typed'
  BY DEF vars, Typed, TypeInv, TypeOK
<1>2. Kept'
  BY DEF vars, Kept, TypeInv
<1>3. \A h \in Goroutines : Place(h)'
  BY PlaceSame DEF vars, Same, TypeInv
<1>4. Placed'
  BY <1>3 DEF Placed
<1> QED BY <1>1, <1>2, <1>4, TypeInvFrom, PTL

\* However goroutines interleave, descriptors, activations and interfaces have their
\* types, and initializeCompositeType (ffi/ffi.go) nests no deeper than there are
\* types: it enters no struct twice, whatever the others write to it meanwhile.
THEOREM PreparationTypeOK == Spec => []TypeOK
<1>1. Init => TypeInv
  BY TypeInvInit
<1>2. TypeInv /\ [Next]_vars => TypeInv'
  <2> SUFFICES ASSUME TypeInv, [Next]_vars PROVE TypeInv'
    OBVIOUS
  <2>1. CASE Next
    <3>1. PICK g \in Goroutines : StepBy(g)
      BY <2>1 DEF Next, StepBy
    <3> QED BY <3>1, TypeInvBy
  <2>2. CASE UNCHANGED vars
    BY <2>2, TypeInvStutter
  <2> QED BY <2>1, <2>2
<1>3. TypeInv => TypeOK
  BY DEF TypeInv
<1> QED BY <1>1, <1>2, <1>3, PTL DEF Spec
--------------------------------------------------------------------------------
(* The layouts, when callers keep what is not laid out to one of them.      *)

\* What a step of g leaves alone: descriptors but its innermost one, and structs
\* that are laid out, which it does not enter.
Shape(g) ==
  /\ OthersSame(g)
  /\ \A d \in Descriptors : desc'[d] # desc[d] => work[g] # <<>> /\ d = Top(g).t
  /\ \A n \in DOMAIN work'[g] : \/ \E k \in DOMAIN work[g] : work'[g][n].t = work[g][k].t
                                \/ Unfinished(work'[g][n].t)
  /\ tainted \subseteq tainted'

LEMMA TopUnderWork ==
  ASSUME TypeInv, NEW g \in Goroutines, work[g] # <<>> PROVE UnderWork(Top(g).t)
<1>1. Len(work[g]) \in DOMAIN work[g] /\ Top(g) = work[g][Len(work[g])]
  BY TopFacts
<1> QED BY <1>1 DEF UnderWork
LEMMA ShapeFacts ==
  ASSUME TypeInv, NEW g \in Goroutines, Shape(g), NEW d \in Descriptors
  PROVE  /\ ~UnderWork(d) => desc'[d] = desc[d]
         /\ UnderWork(d)' => UnderWork(d) \/ Unfinished(d)
<1>1. ~UnderWork(d) => desc'[d] = desc[d]
  BY TopUnderWork DEF Shape
<1>2. ASSUME UnderWork(d)' PROVE UnderWork(d) \/ Unfinished(d)
  <2>1. PICK h \in Goroutines : \E n \in DOMAIN work'[h] : work'[h][n].t = d
    BY <1>2 DEF UnderWork
  <2>2. PICK n \in DOMAIN work'[h] : work'[h][n].t = d
    BY <2>1
  <2>3. CASE h = g
    BY <2>2, <2>3 DEF Shape, UnderWork
  <2>4. CASE h # g
    <3>1. work'[h] = work[h]
      BY <2>4 DEF Shape, OthersSame, Same
    <3> QED BY <2>2, <3>1 DEF UnderWork
  <2> QED BY <2>3, <2>4
<1> QED BY <1>1, <1>2

\* What is cleared stays so, whoever goes on.
LEMMA ClearedStays ==
  ASSUME TypeInv, NEW g \in Goroutines, Shape(g), NEW d \in Descriptors, Cleared(d)
  PROVE  Cleared(d)'
<1>1. CASE WellFormed(d)
  <2>1. desc[d] = Right[d] /\ ~UnderWork(d)
    BY <1>1 DEF Cleared
  <2>2. desc[d].size # 0
    BY <1>1, <2>1, RightPositive DEF Positive
  <2>3. desc'[d] = Right[d] /\ ~UnderWork(d)'
    BY <2>1, <2>2, ShapeFacts DEF Unfinished
  <2> QED BY <1>1, <2>3 DEF Cleared
<1>2. CASE ~WellFormed(d)
  BY <1>2 DEF Cleared, Shape
<1> QED BY <1>1, <1>2

\* Where activations are.
LEMMA WorkFacts ==
  ASSUME TypeInv, NEW h \in Goroutines, NEW n \in DOMAIN work[h]
  PROVE  /\ Busy(h) /\ stage[h] = "valid" /\ work[h] # <<>> /\ work[h][n] \in Frame
         /\ work[h][n].t \in Descriptors /\ UnderWork(work[h][n].t)
         /\ work[h][n].t \in Uses(asked[h]) /\ Local(work[h][n])
         /\ work[h][n].t \in Nested[This(h)]
<1>1. work[h] # <<>>
  OBVIOUS
<1>2. /\ stage[h] = "valid" /\ work[h] \in Seq(Frame) /\ Activations(work[h], This(h))
      /\ Len(work[h]) \in Nat \ {0} /\ DOMAIN work[h] = 1..Len(work[h])
  BY <1>1, TopFacts
<1>3. work[h][n] \in Frame
  BY <1>2, ElementOfSeq
<1>4. work[h][n].t \in Descriptors
  BY <1>3 DEF Frame
<1>5. 1 \in DOMAIN work[h] /\ 1 <= n /\ work[h][1].t = This(h)
  BY <1>1, <1>2 DEF Activations
<1>6. work[h][n].t \in Nested[This(h)]
  BY <1>2, <1>5 DEF Activations
<1>7. next[h] \in 1..Len(Types(asked[h])) /\ asked[h] \in Requests
  BY <1>2, ThisType DEF TypeInv, TypeOK
<1>8. work[h][n].t \in Uses(asked[h])
  <2>1. next[h] \in DOMAIN Types(asked[h])
    BY <1>7, TypesType
  <2> QED BY <1>6, <2>1 DEF Uses, This
<1>9. Local(work[h][n])
  BY <1>2 DEF Activations, Activation, Local
<1> QED BY <1>1, <1>2, <1>3, <1>4, <1>6, <1>8, <1>9 DEF UnderWork, Busy
LEMMA Apart ==
  ASSUME LayoutInv, NEW g \in Goroutines, NEW h \in Goroutines, h # g,
         NEW n \in DOMAIN work[h], NEW d \in Descriptors, Busy(g), d \in Uses(asked[g])
  PROVE  work[h][n].t # d
<1>1. TypeInv
  BY DEF LayoutInv
<1>2. Busy(h) /\ UnderWork(work[h][n].t) /\ work[h][n].t \in Uses(asked[h])
  BY <1>1, WorkFacts
<1> QED BY <1>2 DEF LayoutInv, Exclusive

\* The layout as far as another activation knows it is not disturbed.
LEMMA OtherFrames ==
  ASSUME LayoutInv, NEW g \in Goroutines, Shape(g), NEW h \in Goroutines, h # g,
         NEW n \in DOMAIN work'[h]
  PROVE  Layout(work[h], n)'
<1> PICK f : f = work[h][n]
  OBVIOUS
<1>1. TypeInv /\ work'[h] = work[h] /\ n \in DOMAIN work[h] /\ Layout(work[h], n)
  BY DEF Shape, OthersSame, Same, LayoutInv
<1>2. f \in Frame /\ f.t \in Descriptors /\ Local(f)
  BY <1>1, WorkFacts
<1>3. desc'[f.t] = desc[f.t]
  <2>1. SUFFICES ASSUME work[g] # <<>>, f.t = Top(g).t PROVE FALSE
    BY <1>2 DEF Shape
  <2>2. Len(work[g]) \in DOMAIN work[g] /\ Top(g) = work[g][Len(work[g])]
    BY <1>1, <2>1, TopFacts
  <2>3. Busy(g) /\ Top(g).t \in Uses(asked[g])
    BY <1>1, <2>2, WorkFacts
  <2> QED BY <1>1, <1>2, <2>1, <2>3, Apart
<1>4. \A j \in DOMAIN Members(f.t) : Cleared(Members(f.t)[j]) => Cleared(Members(f.t)[j])'
  BY <1>1, <1>2, ClearedStays, MembersType
<1>5. Len(Members(f.t)) \in Nat /\ DOMAIN Members(f.t) = 1..Len(Members(f.t))
  BY <1>2, MembersType
<1>6. /\ \A j \in 1..f.i - 1 : Cleared(Members(f.t)[j])
      /\ f.at \in {"start", "add", "max"} => Cleared(Members(f.t)[f.i])
      /\ f.at = "valid" /\ n = Len(work[h]) =>
           Invalid(Members(f.t)[f.i]) \/ Cleared(Members(f.t)[f.i])
      /\ WellFormed(f.t) => Partial(f)
  BY <1>1 DEF Layout
<1>7. (\A j \in 1..f.i - 1 : j \in DOMAIN Members(f.t))
      /\ (f.at # "member" => f.i \in DOMAIN Members(f.t))
  BY <1>2, <1>5 DEF Local
<1>8. WellFormed(f.t) => Partial(f)'
  BY <1>3, <1>6 DEF Partial
<1>9. /\ \A j \in 1..f.i - 1 : Cleared(Members(f.t)[j])'
      /\ f.at \in {"start", "add", "max"} => Cleared(Members(f.t)[f.i])'
      /\ f.at = "valid" /\ n = Len(work[h]) =>
           Invalid(Members(f.t)[f.i]) \/ Cleared(Members(f.t)[f.i])'
  BY <1>4, <1>6, <1>7
<1> QED BY <1>1, <1>8, <1>9 DEF Layout
LEMMA LowerFrames ==
  ASSUME LayoutInv, NEW g \in Goroutines, Shape(g), NEW n \in DOMAIN work[g], n < Len(work[g]),
         n < Len(work'[g]), work'[g][n] = work[g][n]
  PROVE  Layout(work[g], n)'
<1> PICK f : f = work[g][n]
  OBVIOUS
<1>1. TypeInv /\ Layout(work[g], n)
  BY DEF LayoutInv
<1>2. f \in Frame /\ f.t \in Descriptors /\ Local(f) /\ work[g] # <<>>
  BY <1>1, WorkFacts
<1>3. /\ Activations(work[g], This(g)) /\ Len(work[g]) \in DOMAIN work[g]
      /\ Top(g) = work[g][Len(work[g])]
  BY <1>1, <1>2, TopFacts
<1>4. f.at = "valid" /\ f.t # Top(g).t
  BY <1>3 DEF Activations, Activation
<1>5. desc'[f.t] = desc[f.t]
  BY <1>2, <1>4 DEF Shape
<1>6. Len(Members(f.t)) \in Nat /\ DOMAIN Members(f.t) = 1..Len(Members(f.t))
  BY <1>2, MembersType
<1>7. \A j \in 1..f.i - 1 : j \in DOMAIN Members(f.t) /\ Cleared(Members(f.t)[j])
  BY <1>1, <1>2, <1>6 DEF Layout, Local
<1>8. \A j \in 1..f.i - 1 : Cleared(Members(f.t)[j])'
  BY <1>1, <1>2, <1>7, ClearedStays, MembersType
<1>9. WellFormed(f.t) => Partial(f)'
  BY <1>1, <1>5 DEF Layout, Partial
<1> QED BY <1>4, <1>8, <1>9 DEF Layout

\* What a goroutine knows stays true while others go on.
LEMMA OtherKnown ==
  ASSUME LayoutInv, NEW g \in Goroutines, Shape(g), NEW h \in Goroutines, h # g
  PROVE  Known(h)' /\ RefusedFor(h)'
<1> PICK ts : ts = Types(asked[h])
  OBVIOUS
<1> PICK d : d = This(h)
  OBVIOUS
<1>1. TypeInv /\ Known(h) /\ RefusedFor(h) /\ Same(h)
  BY DEF Shape, OthersSame, LayoutInv
<1>2. asked[h] \in Requests
  BY <1>1 DEF TypeInv, TypeOK
<1>3. DOMAIN ts = 1..Len(ts) /\ Len(ts) \in Nat /\ \A k \in DOMAIN ts : ts[k] \in Descriptors
  BY <1>2, TypesType
<1>4. \A k \in DOMAIN ts : Cleared(ts[k]) => Cleared(ts[k])'
  BY <1>1, <1>3, ClearedStays
<1>5. This(h)' = d /\ Types(asked'[h]) = ts
  BY <1>1 DEF Same, This
<1>6. ASSUME stage'[h] \in {"enter", "valid"}
      PROVE  \A k \in 1..next'[h] - 1 : Cleared(ts[k])'
  <2>1. stage[h] \in {"enter", "valid"} /\ next'[h] = next[h]
    BY <1>1, <1>6 DEF Same
  <2>2. next[h] \in 1..Len(ts)
    BY <1>1, <2>1, ThisType
  <2>3. \A k \in 1..next[h] - 1 : k \in DOMAIN ts /\ Cleared(ts[k])
    BY <1>1, <1>3, <2>1, <2>2 DEF Known
  <2> QED BY <1>4, <2>1, <2>3
<1>7. ASSUME stage'[h] = "valid", work'[h] = <<>> PROVE Invalid(d) \/ Cleared(d)'
  <2>1. stage[h] = "valid" /\ work[h] = <<>>
    BY <1>1, <1>7 DEF Same
  <2>2. d \in Descriptors
    BY <1>1, <2>1, ThisType
  <2>3. Invalid(d) \/ Cleared(d)
    BY <1>1, <2>1 DEF Known
  <2> QED BY <1>1, <2>2, <2>3, ClearedStays
<1>8. ASSUME stage'[h] \in {"classify", "ready"} PROVE \A k \in DOMAIN ts : Cleared(ts[k])'
  <2>1. \A k \in DOMAIN ts : Cleared(ts[k])
    BY <1>1, <1>8 DEF Same, Known, AllCleared
  <2> QED BY <1>4, <2>1
<1>9. \A n : Sizes(h, n) => Sizes(h, n)'
  BY <1>1 DEF Same, Sizes
<1>10. stage'[h] = "valid" /\ work'[h] = <<>> => (Invalid(This(h)) \/ Cleared(This(h)))'
  BY <1>5, <1>7 DEF Cleared, UnderWork, Invalid
<1>11. stage'[h] \in {"classify", "ready"} => AllCleared(h)'
  BY <1>5, <1>8 DEF AllCleared
<1>12. /\ stage'[h] = "classify" => Sizes(h, next[h] - 1)'
       /\ stage'[h] = "ready" => /\ Sizes(h, Len(ts))'
                                 /\ asked'[h].variadic => cif'[h].fixed = asked'[h].fixed
  BY <1>1, <1>5, <1>9 DEF Known, Same
<1>13. Known(h)'
  <2>1. stage'[h] \in {"enter", "valid"} =>
          \A k \in 1..next'[h] - 1 : Cleared(Types(asked[h])[k])'
    <3>1. Types(asked[h])' = ts
      BY <1>5
    <3> QED BY <1>6, <3>1
  <2>2. stage'[h] = "valid" /\ work'[h] = <<>> => (Invalid(This(h)) \/ Cleared(This(h)))'
    BY <1>10
  <2>3. /\ stage'[h] = "classify" => Sizes(h, next[h] - 1)'
        /\ stage'[h] = "ready" => Sizes(h, Len(Types(asked[h])))'
    BY <1>5, <1>12
  <2> QED BY <1>11, <1>12, <2>1, <2>2, <2>3 DEF Known
<1>14. RefusedFor(h)'
  BY <1>1, <1>9 DEF RefusedFor, Same, Room
<1> QED BY <1>13, <1>14

LEMMA ExclusiveKept ==
  ASSUME LayoutInv, NEW g \in Goroutines, Shape(g), asked' = asked, Busy(g)' => Busy(g)
  PROVE  Exclusive'
<1>1. TypeInv /\ Exclusive
  BY DEF LayoutInv
<1>2. \A h \in Goroutines : Busy(h)' => Busy(h)
  BY DEF Shape, OthersSame, Same, Busy
<1>3. SUFFICES ASSUME NEW i \in Goroutines, NEW h \in Goroutines, i # h, Busy(i)', Busy(h)',
                      NEW d \in Uses(asked[i]) \cap Uses(asked[h])
               PROVE  ~Unfinished(d)' /\ ~UnderWork(d)'
  BY DEF Exclusive
<1>4. ~Unfinished(d) /\ ~UnderWork(d)
  BY <1>1, <1>2, <1>3 DEF Exclusive
<1>5. d \in Descriptors
  <2>1. asked[i] \in Requests
    BY <1>1 DEF TypeInv, TypeOK
  <2>2. PICK k \in DOMAIN Types(asked[i]) : d \in Nested[Types(asked[i])[k]]
    BY DEF Uses
  <2>3. Types(asked[i])[k] \in Descriptors
    BY <2>1, TypesType
  <2> QED BY <2>2, <2>3, NestedTransitive
<1>6. desc'[d] = desc[d] /\ ~UnderWork(d)'
  BY <1>1, <1>4, <1>5, ShapeFacts
<1> QED BY <1>4, <1>6 DEF Unfinished

LEMMA LayoutStep ==
  ASSUME LayoutInv, NEW g \in Goroutines, Shape(g), TypeInv', Exclusive',
         \A d \in Descriptors : UnderWork(d) /\ ~UnderWork(d)' => Resting(d)',
         \A n \in DOMAIN work'[g] : Layout(work[g], n)', Known(g)', RefusedFor(g)'
  PROVE  LayoutInv'
<1>1. TypeInv
  BY DEF LayoutInv
<1>2. ASSUME NEW d \in Descriptors, ~UnderWork(d)' PROVE Resting(d)'
  <2>1. CASE UnderWork(d)
    BY <1>2, <2>1
  <2>2. CASE ~UnderWork(d)
    <3>1. Resting(d) /\ desc'[d] = desc[d] /\ tainted \subseteq tainted'
      BY <1>1, <2>2, ShapeFacts DEF LayoutInv, Shape
    <3> QED BY <3>1 DEF Resting
  <2> QED BY <2>1, <2>2
<1>3. \A h \in Goroutines : \A n \in DOMAIN work'[h] : Layout(work[h], n)'
  BY OtherFrames
<1>4. \A h \in Goroutines : Known(h)' /\ RefusedFor(h)'
  BY OtherKnown
<1> QED BY <1>2, <1>3, <1>4 DEF LayoutInv

\* What the layout invariant says of the innermost activation.
LEMMA TopLayout ==
  ASSUME LayoutInv, NEW g \in Goroutines, work[g] # <<>>
  PROVE  /\ TypeInv
         /\ \A j \in 1..Top(g).i - 1 : Cleared(Members(Top(g).t)[j])
         /\ Top(g).at \in {"start", "add", "max"} => Cleared(Member(g))
         /\ Top(g).at = "valid" => Invalid(Member(g)) \/ Cleared(Member(g))
         /\ WellFormed(Top(g).t) => Partial(Top(g))
<1>1. TypeInv
  BY DEF LayoutInv
<1>2. Len(work[g]) \in DOMAIN work[g] /\ Top(g) = work[g][Len(work[g])]
  BY <1>1, TopFacts
<1>3. Layout(work[g], Len(work[g]))
  BY <1>2 DEF LayoutInv
<1> QED BY <1>1, <1>2, <1>3 DEF Layout, Member

\* An activation goes on: what it knows then is what has to be shown.
LEMMA MovesLayout ==
  ASSUME LayoutInv, TypeInv', NEW g \in Goroutines, work[g] # <<>>, NEW f \in Frame,
         Moves(g, f), f.t = Top(g).t, Local(f),
         \A j \in 1..f.i - 1 : Cleared(Members(f.t)[j]),
         f.at \in {"start", "add", "max"} => Cleared(Members(f.t)[f.i]),
         f.at = "valid" => Invalid(Members(f.t)[f.i]) \/ Cleared(Members(f.t)[f.i]),
         WellFormed(f.t) => Partial(f)'
  PROVE  LayoutInv'
<1> PICK l : l = Len(work[g])
  OBVIOUS
<1>1. TypeInv /\ Known(g)
  BY DEF LayoutInv
<1>2. /\ OthersSame(g) /\ Len(work'[g]) = l /\ work'[g] # <<>> /\ DOMAIN work'[g] = 1..l
      /\ (\A n \in 1..l - 1 : work'[g][n] = work[g][n]) /\ work'[g][l] = f
  BY <1>1, MovesFacts
<1>3. /\ l \in Nat \ {0} /\ DOMAIN work[g] = 1..l /\ Top(g) = work[g][l] /\ stage[g] = "valid"
      /\ f.t \in Descriptors
  BY <1>1, TopFacts
<1>4. \A n \in 1..l : work'[g][n].t = work[g][n].t
  BY <1>2, <1>3
<1>5. Shape(g)
  BY <1>2, <1>3, <1>4 DEF Shape, Moves
<1>6. ASSUME NEW d \in Descriptors, UnderWork(d) PROVE UnderWork(d)'
  <2>1. PICK h \in Goroutines : \E n \in DOMAIN work[h] : work[h][n].t = d
    BY <1>6 DEF UnderWork
  <2>2. \E n \in DOMAIN work'[h] : work'[h][n].t = d
    <3>1. CASE h = g
      BY <2>1, <3>1, <1>2, <1>3, <1>4
    <3>2. CASE h # g
      BY <2>1, <3>2, <1>2 DEF OthersSame, Same
    <3> QED BY <3>1, <3>2
  <2> QED BY <2>2 DEF UnderWork
<1>7. Exclusive'
  <2>1. asked' = asked /\ Busy(g)
    BY <1>3 DEF Moves, Busy
  <2> QED BY <1>5, <2>1, ExclusiveKept
<1>8. ASSUME NEW n \in DOMAIN work'[g] PROVE Layout(work[g], n)'
  <2>1. CASE n # l
    <3>1. n \in DOMAIN work[g] /\ n < l /\ n \in 1..l - 1
      BY <1>2, <1>3, <1>8, <2>1
    <3> QED BY <1>2, <1>5, <3>1, LowerFrames
  <2>2. CASE n = l
    <3>1. Len(Members(f.t)) \in Nat /\ DOMAIN Members(f.t) = 1..Len(Members(f.t))
      BY <1>3, MembersType
    <3>2. \A j \in DOMAIN Members(f.t) : Cleared(Members(f.t)[j]) => Cleared(Members(f.t)[j])'
      BY <1>1, <1>3, <1>5, ClearedStays, MembersType
    <3>3. /\ \A j \in 1..f.i - 1 : j \in DOMAIN Members(f.t)
          /\ f.at # "member" => f.i \in DOMAIN Members(f.t)
      BY <3>1 DEF Local
    <3>4. /\ \A j \in 1..f.i - 1 : Cleared(Members(f.t)[j])'
          /\ f.at \in {"start", "add", "max"} => Cleared(Members(f.t)[f.i])'
          /\ f.at = "valid" => Invalid(Members(f.t)[f.i]) \/ Cleared(Members(f.t)[f.i])'
      BY <3>2, <3>3
    <3>5. work'[g][n] = f
      BY <1>2, <2>2
    <3> QED BY <3>4, <3>5 DEF Layout
  <2> QED BY <2>1, <2>2
<1>9. Known(g)' /\ RefusedFor(g)'
  <2> PICK ts : ts = Types(asked[g])
    OBVIOUS
  <2>1. asked[g] \in Requests /\ next[g] \in 1..Len(ts)
    BY <1>1, <1>3, ThisType DEF TypeInv, TypeOK
  <2>2. \A k \in 1..next[g] - 1 : ts[k] \in Descriptors /\ Cleared(ts[k])
    BY <1>1, <1>3, <2>1, TypesType DEF Known
  <2>3. \A k \in 1..next[g] - 1 : Cleared(ts[k])'
    BY <1>1, <1>5, <2>2, ClearedStays
  <2>4. stage'[g] = "valid" /\ next'[g] = next[g] /\ asked'[g] = asked[g]
    BY <1>3 DEF Moves
  <2>5. Types(asked[g])' = ts
    BY <2>4
  <2> QED BY <1>2, <2>3, <2>4, <2>5 DEF Known, RefusedFor
<1> QED BY <1>5, <1>6, <1>7, <1>8, <1>9, LayoutStep

LEMMA ResetSizeLayout ==
  ASSUME LayoutInv, NEW g \in Goroutines, ResetSize(g) PROVE LayoutInv'
<1> PICK f : f = [Top(g) EXCEPT !.at = "align"]
  OBVIOUS
<1>1. TypeInv /\ TypeInv' /\ work[g] # <<>> /\ Top(g).at = "size"
      /\ Assign(g, 0, Own(g).align, "align")
  BY ResetSizeTyped DEF ResetSize, At, LayoutInv
<1>2. Own(g).align \in Nat /\ Top(g).t \in Descriptors /\ Local(Top(g))
  BY <1>1, OwnFacts, TopFacts
<1>3. Moves(g, f) /\ desc'[Top(g).t] = [size |-> 0, align |-> Own(g).align]
  BY <1>1, <1>2, AssignFacts DEF Steps
<1>4. f \in Frame /\ f.t = Top(g).t /\ f.i = Top(g).i /\ f.at = "align"
  BY <1>1, AtFacts DEF Steps
<1>5. Local(f) /\ f.i = 1
  BY <1>1, <1>2, <1>4 DEF Local
<1>6. desc'[f.t].size = 0
  BY <1>3, <1>4
<1>7. Partial(f)'
  BY <1>4, <1>6 DEF Partial
<1>8. \A j \in 1..f.i - 1 : Cleared(Members(f.t)[j])
  BY <1>5
<1> QED BY <1>1, <1>3, <1>4, <1>5, <1>7, <1>8, MovesLayout
LEMMA ResetAlignLayout ==
  ASSUME LayoutInv, NEW g \in Goroutines, ResetAlign(g) PROVE LayoutInv'
<1> PICK f : f = [Top(g) EXCEPT !.at = "member"]
  OBVIOUS
<1>1. TypeInv /\ TypeInv' /\ work[g] # <<>> /\ Top(g).at = "align"
      /\ Assign(g, Own(g).size, 0, "member")
  BY ResetAlignTyped DEF ResetAlign, At, LayoutInv
<1>2. Own(g).size \in Nat /\ Own(g) = desc[Top(g).t] /\ Top(g).t \in Descriptors /\ Local(Top(g))
  BY <1>1, OwnFacts, TopFacts
<1>3. Moves(g, f) /\ desc'[Top(g).t] = [size |-> Own(g).size, align |-> 0]
  <2>1. 0 \in Nat /\ "member" \in Steps /\ Own(g).size \in Nat
    BY <1>2 DEF Steps
  <2> QED BY <1>1, <2>1, AssignFacts
<1>4. f \in Frame /\ f.t = Top(g).t /\ f.i = Top(g).i /\ f.at = "member"
  BY <1>1, AtFacts DEF Steps
<1>5. Local(f) /\ f.i = 1
  BY <1>1, <1>2, <1>4 DEF Local
<1>6. WellFormed(f.t) => Partial(f)'
  <2>1. SUFFICES ASSUME WellFormed(f.t) PROVE Partial(f)'
    OBVIOUS
  <2>2. Own(g).size = 0
    BY <1>1, <1>2, <1>4, <2>1, TopLayout DEF Partial
  <2>3. EndOf(f.t, 0) = 0
    BY <1>2, <1>4, <2>1, EndOfFacts DEF Local
  <2>4. Largest(0, f.t, 0)
    BY DEF Largest
  <2>5. desc'[f.t].size = EndOf(f.t, f.i - 1) /\ Largest(desc'[f.t].align, f.t, f.i - 1)
    BY <1>3, <1>4, <1>5, <2>2, <2>3, <2>4
  <2> QED BY <1>4, <2>5 DEF Partial
<1>7. \A j \in 1..f.i - 1 : Cleared(Members(f.t)[j])
  BY <1>5
<1> QED BY <1>1, <1>3, <1>4, <1>5, <1>6, <1>7, MovesLayout

\* In a well-formed struct the layout of a cleared member is the C layout.
LEMMA MemberRight ==
  ASSUME TypeInv, NEW g \in Goroutines, work[g] # <<>>, WellFormed(Top(g).t),
         Top(g).at # "member", Cleared(Member(g))
  PROVE  /\ Top(g).i \in 1..Len(Members(Top(g).t)) /\ Declared[Top(g).t].size = 0
         /\ desc[Member(g)] = Right[Members(Top(g).t)[Top(g).i]]
         /\ Right[Members(Top(g).t)[Top(g).i]] \in Positive
<1>1. Top(g).t \in Descriptors /\ Local(Top(g)) /\ Top(g).i \in DOMAIN Members(Top(g).t)
  BY TopFacts
<1>2. Declared[Top(g).t].size = 0
  BY <1>1 DEF Local
<1>3. Top(g).i \in 1..Len(Members(Top(g).t))
  BY <1>1, MembersType
<1>4. WellFormed(Member(g)) /\ Right[Member(g)] \in Positive
      /\ Member(g) = Members(Top(g).t)[Top(g).i]
  BY <1>1, <1>2, <1>3, StructFacts DEF Member
<1> QED BY <1>2, <1>3, <1>4 DEF Cleared
LEMMA AlignMemberLayout ==
  ASSUME LayoutInv, NEW g \in Goroutines, AlignMember(g) PROVE LayoutInv'
<1> PICK f : f = [Top(g) EXCEPT !.at = "add"]
  OBVIOUS
<1> PICK size : size = align(Own(g).size, desc[Member(g)].align)
  OBVIOUS
<1>1. TypeInv /\ TypeInv' /\ work[g] # <<>> /\ Top(g).at = "start"
      /\ Assign(g, size, Own(g).align, "add")
  BY AlignMemberTyped DEF AlignMember, At, LayoutInv
<1>2. /\ size \in Nat /\ Own(g).align \in Nat /\ Own(g) = desc[Top(g).t]
      /\ Top(g).t \in Descriptors /\ Local(Top(g)) /\ Member(g) = Members(Top(g).t)[Top(g).i]
  BY <1>1, OwnFacts, TopFacts
<1>3. Moves(g, f) /\ desc'[Top(g).t] = [size |-> size, align |-> Own(g).align]
  <2>1. "add" \in Steps /\ size \in Nat /\ Own(g).align \in Nat
    BY <1>2 DEF Steps
  <2> QED BY <1>1, <2>1, AssignFacts
<1>4. f \in Frame /\ f.t = Top(g).t /\ f.i = Top(g).i /\ f.at = "add"
  BY <1>1, AtFacts DEF Steps
<1>5. Local(f)
  BY <1>1, <1>2, <1>4 DEF Local
<1>6. WellFormed(f.t) => Partial(f)'
  <2>1. SUFFICES ASSUME WellFormed(f.t) PROVE Partial(f)'
    OBVIOUS
  <2> PICK m : m = Members(f.t)[f.i]
    OBVIOUS
  <2>2. Cleared(Member(g))
    BY <1>1, TopLayout
  <2>3. f.i \in 1..Len(Members(f.t)) /\ desc[Member(g)] = Right[m] /\ Right[m] \in Positive
        /\ Declared[f.t].size = 0
    BY <1>1, <1>4, <2>1, <2>2, MemberRight
  <2>4. Own(g).size = EndOf(f.t, f.i - 1) /\ Largest(Own(g).align, f.t, f.i - 1)
    BY <1>1, <1>2, <1>4, <2>1, TopLayout DEF Partial
  <2>5. Offset(RightMembers(f.t), f.i) = AlignUp(EndOf(f.t, f.i - 1), Right[m].align)
    BY <1>2, <1>4, <2>1, <2>3, EndOfFacts
  <2>6. Right[m].align # 0
    BY <2>3 DEF Positive
  <2>7. size = Offset(RightMembers(f.t), f.i)
    BY <2>3, <2>4, <2>5, <2>6 DEF align
  <2>8. desc'[f.t].size = Offset(RightMembers(f.t), f.i) /\ Largest(desc'[f.t].align, f.t, f.i - 1)
    BY <1>3, <1>4, <2>4, <2>7
  <2> QED BY <1>4, <2>8 DEF Partial
<1>7. (\A j \in 1..f.i - 1 : Cleared(Members(f.t)[j])) /\ Cleared(Members(f.t)[f.i])
  BY <1>1, <1>2, <1>4, TopLayout
<1> QED BY <1>1, <1>3, <1>4, <1>5, <1>6, <1>7, MovesLayout
LEMMA AddMemberLayout ==
  ASSUME LayoutInv, NEW g \in Goroutines, AddMember(g) PROVE LayoutInv'
<1> PICK f : f = [Top(g) EXCEPT !.at = "max"]
  OBVIOUS
<1> PICK size : size = Own(g).size + desc[Member(g)].size
  OBVIOUS
<1>1. TypeInv /\ TypeInv' /\ work[g] # <<>> /\ Top(g).at = "add"
      /\ Assign(g, size, Own(g).align, "max")
  BY AddMemberTyped DEF AddMember, At, LayoutInv
<1>2. /\ Own(g).size \in Nat /\ desc[Member(g)].size \in Nat
      /\ Own(g).align \in Nat /\ Own(g) = desc[Top(g).t]
      /\ Top(g).t \in Descriptors /\ Local(Top(g)) /\ Member(g) = Members(Top(g).t)[Top(g).i]
  BY <1>1, OwnFacts, TopFacts
<1>3. Moves(g, f) /\ desc'[Top(g).t] = [size |-> size, align |-> Own(g).align]
  <2>1. "max" \in Steps /\ size \in Nat /\ Own(g).align \in Nat
    BY <1>2 DEF Steps
  <2> QED BY <1>1, <2>1, AssignFacts
<1>4. f \in Frame /\ f.t = Top(g).t /\ f.i = Top(g).i /\ f.at = "max"
  BY <1>1, AtFacts DEF Steps
<1>5. Local(f)
  BY <1>1, <1>2, <1>4 DEF Local
<1>6. WellFormed(f.t) => Partial(f)'
  <2>1. SUFFICES ASSUME WellFormed(f.t) PROVE Partial(f)'
    OBVIOUS
  <2> PICK m : m = Members(f.t)[f.i]
    OBVIOUS
  <2>2. Cleared(Member(g))
    BY <1>1, TopLayout
  <2>3. f.i \in 1..Len(Members(f.t)) /\ desc[Member(g)] = Right[m] /\ Declared[f.t].size = 0
    BY <1>1, <1>4, <2>1, <2>2, MemberRight
  <2>4. Own(g).size = Offset(RightMembers(f.t), f.i) /\ Largest(Own(g).align, f.t, f.i - 1)
    BY <1>1, <1>2, <1>4, <2>1, TopLayout DEF Partial
  <2>5. EndOf(f.t, f.i) = Offset(RightMembers(f.t), f.i) + Right[m].size
    BY <1>2, <1>4, <2>1, <2>3, EndOfFacts
  <2>6. desc'[f.t].size = EndOf(f.t, f.i) /\ Largest(desc'[f.t].align, f.t, f.i - 1)
    BY <1>3, <1>4, <2>3, <2>4, <2>5
  <2> QED BY <1>4, <2>6 DEF Partial
<1>7. (\A j \in 1..f.i - 1 : Cleared(Members(f.t)[j])) /\ Cleared(Members(f.t)[f.i])
  BY <1>1, <1>2, <1>4, TopLayout
<1> QED BY <1>1, <1>3, <1>4, <1>5, <1>6, <1>7, MovesLayout
LEMMA MaxAlignLayout ==
  ASSUME LayoutInv, NEW g \in Goroutines, MaxAlign(g) PROVE LayoutInv'
<1> PICK f : f = Advanced(Top(g))
  OBVIOUS
<1> PICK i : i = Top(g).i
  OBVIOUS
<1>1. TypeInv /\ TypeInv' /\ work[g] # <<>> /\ Top(g).at = "max"
  BY MaxAlignTyped DEF MaxAlign, At, LayoutInv
<1>2. /\ Moves(g, f) /\ f \in Frame /\ Local(f) /\ f.t = Top(g).t /\ f.i = i + 1 /\ f.at = "member"
      /\ desc'[f.t].size = Own(g).size
      /\ desc'[f.t].align = IF desc[Member(g)].align > Own(g).align
                            THEN desc[Member(g)].align ELSE Own(g).align
  BY <1>1, MaxAlignFacts
<1>3. f.t \in Descriptors /\ i \in Nat /\ Own(g) = desc[f.t] /\ Member(g) = Members(f.t)[i]
  BY <1>1, <1>2, OwnFacts, TopFacts
<1>4. \A j \in 1..f.i - 1 : Cleared(Members(f.t)[j])
  <2>1. (\A j \in 1..i - 1 : Cleared(Members(f.t)[j])) /\ Cleared(Members(f.t)[i])
    BY <1>1, <1>2, <1>3, TopLayout
  <2>2. \A j \in 1..f.i - 1 : j \in 1..i - 1 \/ j = i
    BY <1>2, <1>3
  <2> QED BY <2>1, <2>2
<1>5. WellFormed(f.t) => Partial(f)'
  <2>1. SUFFICES ASSUME WellFormed(f.t) PROVE Partial(f)'
    OBVIOUS
  <2> PICK m : m = Members(f.t)[i]
    OBVIOUS
  <2>2. Cleared(Member(g))
    BY <1>1, TopLayout
  <2>3. i \in 1..Len(Members(f.t)) /\ desc[Member(g)] = Right[m] /\ Declared[f.t].size = 0
    BY <1>1, <1>2, <2>1, <2>2, MemberRight
  <2>4. Own(g).size = EndOf(f.t, i) /\ Largest(Own(g).align, f.t, i - 1)
    BY <1>1, <1>2, <1>3, <2>1, TopLayout DEF Partial
  <2>5. Largest(desc'[f.t].align, f.t, i)
    BY <1>2, <1>3, <2>1, <2>3, <2>4, LargestNext
  <2>6. f.i - 1 = i
    BY <1>2, <1>3
  <2>7. desc'[f.t].size = EndOf(f.t, f.i - 1) /\ Largest(desc'[f.t].align, f.t, f.i - 1)
    BY <1>2, <2>4, <2>5, <2>6
  <2> QED BY <1>2, <2>7 DEF Partial
<1> QED BY <1>1, <1>2, <1>4, <1>5, MovesLayout

\* A type come to that is not to be laid out, and that nobody lays out, is done.
LEMMA EntryCleared ==
  ASSUME LayoutInv, NEW d \in Descriptors, ~Unfinished(d), ~UnderWork(d)
  PROVE  Invalid(d) \/ Cleared(d)
<1>1. Resting(d)
  BY DEF LayoutInv
<1>2. SUFFICES ASSUME ~Invalid(d) PROVE Cleared(d)
  OBVIOUS
<1>3. /\ Declared[d].kind \in {"scalar", "struct"} /\ Declared[d].size \in Nat
      /\ Declared[d].kind = "scalar" => Declared[d].size > 0
  BY <1>2, DeclaredAssumption DEF Invalid
<1>4. Declared[d].kind = "struct" => desc[d].size # 0
  BY DEF Unfinished
<1>5. CASE ~WellFormed(d)
  <2>1. Declared[d].kind = "struct"
    BY <1>2, <1>5, IllFormedCases
  <2> QED BY <1>1, <1>4, <1>5, <2>1 DEF Resting, Cleared
<1>6. CASE WellFormed(d)
  <2>1. ASSUME desc[d] = AsDeclared(d) PROVE desc[d] = Right[d]
    <3>1. Declared[d].size > 0
      BY <1>3, <1>4, <2>1 DEF AsDeclared
    <3> QED BY <2>1, <3>1, RightDeclared
  <2> QED BY <1>1, <1>6, <2>1 DEF Resting, Cleared
<1> QED BY <1>5, <1>6

\* Nobody works on the member come to next, nor on a type that is not entered.
LEMMA MemberFree ==
  ASSUME LayoutInv, NEW g \in Goroutines, work[g] # <<>>, Top(g).i \in DOMAIN Members(Top(g).t)
  PROVE  ~UnderWork(Member(g)) /\ Member(g) \in Uses(asked[g])
<1>1. TypeInv
  BY DEF LayoutInv
<1>2. /\ Activations(work[g], This(g)) /\ Len(work[g]) \in DOMAIN work[g]
      /\ Top(g) = work[g][Len(work[g])] /\ Local(Top(g)) /\ Top(g).t \in Descriptors
      /\ Len(work[g]) \in Nat /\ DOMAIN work[g] = 1..Len(work[g])
  BY <1>1, TopFacts
<1>3. /\ Member(g) = Members(Top(g).t)[Top(g).i] /\ Member(g) \in Descriptors
      /\ Declared[Top(g).t].size = 0
  BY <1>2, MembersType DEF Member, Local
<1>4. Busy(g) /\ Member(g) \in Uses(asked[g])
  <2>1. Busy(g) /\ Top(g).t \in Uses(asked[g]) /\ stage[g] = "valid"
    BY <1>1, <1>2, WorkFacts
  <2>2. Member(g) \in Nested[Top(g).t]
    BY <1>2, <1>3, NestedMember
  <2>3. asked[g] \in Requests
    BY <1>1 DEF TypeInv, TypeOK
  <2>4. PICK k \in DOMAIN Types(asked[g]) : Top(g).t \in Nested[Types(asked[g])[k]]
    BY <2>1 DEF Uses
  <2>5. Types(asked[g])[k] \in Descriptors
    BY <2>3, TypesType
  <2>6. Member(g) \in Nested[Types(asked[g])[k]]
    BY <2>2, <2>4, <2>5, NestedTransitive
  <2> QED BY <2>1, <2>6 DEF Uses
<1>5. ASSUME NEW h \in Goroutines, NEW n \in DOMAIN work[h] PROVE work[h][n].t # Member(g)
  <2>1. CASE h # g
    BY <1>3, <1>4, <2>1, Apart
  <2>2. CASE h = g
    <3>1. Top(g).t \in Nested[work[g][n].t] /\ work[g][n].t \in Descriptors
      BY <1>1, <1>2, <2>2, WorkFacts DEF Activations
    <3>2. Member(g) # work[g][n].t
      BY <1>3, <3>1, NoCycle
    <3> QED BY <2>2, <3>2
  <2> QED BY <2>1, <2>2
<1> QED BY <1>4, <1>5 DEF UnderWork
LEMMA ThisFree ==
  ASSUME LayoutInv, NEW g \in Goroutines, stage[g] \in {"enter", "valid"}, work[g] = <<>>
  PROVE  ~UnderWork(This(g)) /\ This(g) \in Descriptors
<1>1. TypeInv
  BY DEF LayoutInv
<1>2. This(g) \in Descriptors /\ next[g] \in 1..Len(Types(asked[g])) /\ asked[g] \in Requests
  BY <1>1, ThisType DEF TypeInv, TypeOK
<1>3. Busy(g) /\ This(g) \in Uses(asked[g])
  <2>1. next[g] \in DOMAIN Types(asked[g])
    BY <1>2, TypesType
  <2> QED BY <1>2, <2>1, NestedSelf DEF Uses, This, Busy
<1>4. ASSUME NEW h \in Goroutines, NEW n \in DOMAIN work[h] PROVE work[h][n].t # This(g)
  <2>1. CASE h # g
    BY <1>2, <1>3, <2>1, Apart
  <2>2. CASE h = g
    BY <2>2
  <2> QED BY <2>1, <2>2
<1> QED BY <1>2, <1>4 DEF UnderWork

\* Giving up: every struct of an open activation is ill-formed, and so is a type
\* of the request.
LEMMA FailLayout ==
  ASSUME LayoutInv, TypeInv', NEW g \in Goroutines, NEW error \in Errors, Fail(g, error), Busy(g),
         \A n \in DOMAIN work[g] : ~WellFormed(work[g][n].t), RefusedFor(g)'
  PROVE  LayoutInv'
<1>1. TypeInv
  BY DEF LayoutInv
<1>2. OthersSame(g)
  BY <1>1, FailTyped
<1>3. /\ work'[g] = <<>> /\ stage'[g] = error
      /\ UNCHANGED <<desc, asked, next, cif, left>>
      /\ tainted' = tainted \cup {work[g][n].t : n \in DOMAIN work[g]}
  BY <1>1 DEF Fail, TypeInv, TypeOK
<1>4. Shape(g)
  BY <1>2, <1>3 DEF Shape
<1>5. Exclusive'
  BY <1>3, <1>4, ExclusiveKept
<1>6. ASSUME NEW d \in Descriptors, UnderWork(d), ~UnderWork(d)' PROVE Resting(d)'
  <2>1. PICK h \in Goroutines : \E n \in DOMAIN work[h] : work[h][n].t = d
    BY <1>6 DEF UnderWork
  <2>2. PICK n \in DOMAIN work[h] : work[h][n].t = d
    BY <2>1
  <2>3. h = g
    BY <1>2, <1>6, <2>2 DEF OthersSame, Same, UnderWork
  <2>4. ~WellFormed(d) /\ d \in tainted' /\ d \in Nested[d]
    BY <1>3, <2>2, <2>3, NestedSelf
  <2> QED BY <2>4 DEF Resting
<1>7. Known(g)'
  BY <1>3 DEF Known, Errors
<1>8. \A n \in DOMAIN work'[g] : Layout(work[g], n)'
  BY <1>3
<1> QED BY <1>4, <1>5, <1>6, <1>7, <1>8, LayoutStep
\* What follows from an ill-formed member.
LEMMA IllFormedFrames ==
  ASSUME TypeInv, NEW g \in Goroutines, work[g] # <<>>, Top(g).i \in DOMAIN Members(Top(g).t),
         ~WellFormed(Member(g))
  PROVE  /\ \A n \in DOMAIN work[g] : ~WellFormed(work[g][n].t)
         /\ \E k \in DOMAIN Types(asked[g]) : ~WellFormed(Types(asked[g])[k])
<1>1. /\ Activations(work[g], This(g)) /\ Len(work[g]) \in DOMAIN work[g]
      /\ Top(g) = work[g][Len(work[g])] /\ Local(Top(g)) /\ Top(g).t \in Descriptors
      /\ Len(work[g]) \in Nat /\ DOMAIN work[g] = 1..Len(work[g]) /\ stage[g] = "valid"
  BY TopFacts
<1>2. ~WellFormed(Top(g).t)
  BY <1>1, IllFormedMember DEF Member, Local
<1>3. \A n \in DOMAIN work[g] : ~WellFormed(work[g][n].t)
  <2>1. SUFFICES ASSUME NEW n \in DOMAIN work[g] PROVE ~WellFormed(work[g][n].t)
    OBVIOUS
  <2>2. Top(g).t \in Nested[work[g][n].t] /\ work[g][n].t \in Descriptors
    BY <1>1, WorkFacts DEF Activations
  <2> QED BY <1>2, <2>2, IllFormedInside
<1>4. This(g) \in Descriptors /\ next[g] \in 1..Len(Types(asked[g])) /\ asked[g] \in Requests
  BY <1>1, ThisType DEF TypeInv, TypeOK
<1>5. ~WellFormed(This(g))
  <2>1. Top(g).t \in Nested[This(g)]
    BY <1>1, WorkFacts
  <2> QED BY <1>2, <1>4, <2>1, IllFormedInside
<1>6. next[g] \in DOMAIN Types(asked[g])
  BY <1>4, TypesType
<1> QED BY <1>3, <1>5, <1>6 DEF This
LEMMA RefusedForIllFormed ==
  ASSUME TypeInv, NEW g \in Goroutines, NEW error \in {"noMembers", "invalidType"}, Fail(g, error),
         \E k \in DOMAIN Types(asked[g]) : ~WellFormed(Types(asked[g])[k])
  PROVE  RefusedFor(g)'
<1> PICK ts : ts = Types(asked[g])
  OBVIOUS
<1>1. stage'[g] = error /\ Types(asked[g])' = ts
  BY DEF Fail, TypeInv, TypeOK
<1>2. \E k \in DOMAIN ts : ~WellFormed(ts[k])
  OBVIOUS
<1> QED BY <1>1, <1>2 DEF RefusedFor

LEMMA CheckMemberLayout ==
  ASSUME LayoutInv, NEW g \in Goroutines, CheckMember(g) PROVE LayoutInv'
<1>1. TypeInv /\ TypeInv' /\ work[g] # <<>> /\ Top(g).at = "valid"
  BY CheckMemberTyped DEF CheckMember, At, LayoutInv
<1>2. /\ Top(g).t \in Descriptors /\ Local(Top(g)) /\ Top(g).i \in DOMAIN Members(Top(g).t)
      /\ Busy(g) /\ Member(g) \in Descriptors /\ Member(g) = Members(Top(g).t)[Top(g).i]
  BY <1>1, TopFacts, OwnFacts DEF Busy
<1>3. CASE Invalid(Member(g))
  <2>1. Fail(g, "invalidType") /\ ~WellFormed(Member(g))
    BY <1>2, <1>3, IllFormedItself DEF CheckMember, Invalid
  <2>2. /\ \A n \in DOMAIN work[g] : ~WellFormed(work[g][n].t)
        /\ \E k \in DOMAIN Types(asked[g]) : ~WellFormed(Types(asked[g])[k])
    BY <1>1, <1>2, <2>1, IllFormedFrames
  <2>3. RefusedFor(g)'
    BY <1>1, <2>1, <2>2, RefusedForIllFormed
  <2> QED BY <1>1, <1>2, <2>1, <2>2, <2>3, FailLayout DEF Errors
<1>4. CASE ~Invalid(Member(g))
  <2> PICK f : f = [Top(g) EXCEPT !.at = "start"]
    OBVIOUS
  <2>1. Moves(g, f) /\ desc' = desc
    BY <1>4, ThenFacts DEF CheckMember, Invalid
  <2>2. f \in Frame /\ f.t = Top(g).t /\ f.i = Top(g).i /\ f.at = "start"
    BY <1>1, AtFacts DEF Steps
  <2>3. Local(f)
    BY <1>1, <1>2, <2>2 DEF Local
  <2>4. (\A j \in 1..f.i - 1 : Cleared(Members(f.t)[j])) /\ Cleared(Members(f.t)[f.i])
    BY <1>1, <1>2, <1>4, <2>2, TopLayout
  <2>5. WellFormed(f.t) => Partial(f)'
    BY <1>1, <2>1, <2>2, TopLayout DEF Partial
  <2> QED BY <1>1, <2>1, <2>2, <2>3, <2>4, <2>5, MovesLayout
<1> QED BY <1>3, <1>4

LEMMA PushesLayout ==
  ASSUME LayoutInv, TypeInv', NEW g \in Goroutines, work[g] # <<>>, Top(g).at = "member",
         Top(g).i \in DOMAIN Members(Top(g).t), Member(g) \in Descriptors, Pushes(g)
  PROVE  LayoutInv'
<1> PICK l : l = Len(work[g])
  OBVIOUS
<1> PICK f : f = [Top(g) EXCEPT !.at = "valid"]
  OBVIOUS
<1> PICK e : e = Entered(Member(g))
  OBVIOUS
<1>1. TypeInv /\ Known(g)
  BY DEF LayoutInv
<1>2. /\ OthersSame(g) /\ Len(work'[g]) = l + 1 /\ DOMAIN work'[g] = 1..l + 1
      /\ (\A n \in 1..l - 1 : work'[g][n] = work[g][n])
      /\ work'[g][l] = f /\ work'[g][l + 1] = e
  BY <1>1, PushesFacts
<1>3. /\ l \in Nat \ {0} /\ DOMAIN work[g] = 1..l /\ Top(g) = work[g][l] /\ stage[g] = "valid"
      /\ Top(g).t \in Descriptors /\ Local(Top(g))
  BY <1>1, TopFacts
<1>4. f.t = Top(g).t /\ f.i = Top(g).i /\ f.at = "valid"
  BY <1>1, AtFacts DEF Steps
<1>5. e.t = Member(g) /\ e.i = 1 /\ e.at = "size"
  BY <1>1, EnteredFacts DEF Pushes
<1>6. \A n \in 1..l : work'[g][n].t = work[g][n].t
  <2>1. SUFFICES ASSUME NEW n \in 1..l PROVE work'[g][n].t = work[g][n].t
    OBVIOUS
  <2>2. CASE n = l
    BY <1>2, <1>3, <1>4, <2>2
  <2>3. CASE n # l
    <3>1. n \in 1..l - 1
      BY <1>3, <2>3
    <3> QED BY <1>2, <3>1
  <2> QED BY <2>2, <2>3
<1>7. /\ \A n \in DOMAIN work'[g] : n = l + 1 \/ n \in 1..l
      /\ \A n \in 1..l : n \in DOMAIN work'[g]
  BY <1>2, <1>3
<1>8. \A n \in DOMAIN work'[g] :
         n = l + 1 \/ (n \in DOMAIN work[g] /\ work'[g][n].t = work[g][n].t)
  BY <1>3, <1>6, <1>7
<1>9. Shape(g)
  <2>1. desc' = desc /\ tainted' = tainted /\ Unfinished(Member(g))
    BY DEF Pushes
  <2> QED BY <1>2, <1>5, <1>8, <2>1 DEF Shape
<1>10. Exclusive'
  BY <1>9, ExclusiveKept DEF Pushes, Busy
<1>11. ASSUME NEW d \in Descriptors, UnderWork(d) PROVE UnderWork(d)'
  <2>1. PICK h \in Goroutines : \E n \in DOMAIN work[h] : work[h][n].t = d
    BY <1>11 DEF UnderWork
  <2>2. \E n \in DOMAIN work'[h] : work'[h][n].t = d
    <3>1. CASE h = g
      <4>1. PICK n \in 1..l : work[g][n].t = d
        BY <1>3, <2>1, <3>1
      <4>2. n \in DOMAIN work'[g] /\ work'[g][n].t = work[g][n].t
        BY <1>6, <1>7
      <4> QED BY <3>1, <4>1, <4>2
    <3>2. CASE h # g
      BY <2>1, <3>2, <1>2 DEF OthersSame, Same
    <3> QED BY <3>1, <3>2
  <2> QED BY <2>2 DEF UnderWork
<1>12. ASSUME NEW n \in DOMAIN work'[g] PROVE Layout(work[g], n)'
  <2>1. CASE n \in 1..l - 1
    <3>1. n \in DOMAIN work[g] /\ n < l /\ n < l + 1 /\ work'[g][n] = work[g][n]
      BY <1>2, <1>3, <2>1
    <3> QED BY <1>2, <1>9, <3>1, LowerFrames
  <2>2. CASE n = l
    <3>1. work'[g][n] = f /\ n # Len(work'[g])
      BY <1>2, <1>3, <2>2
    <3>2. Len(Members(f.t)) \in Nat /\ DOMAIN Members(f.t) = 1..Len(Members(f.t))
      BY <1>3, <1>4, MembersType
    <3>3. \A j \in 1..f.i - 1 : j \in DOMAIN Members(f.t) /\ Cleared(Members(f.t)[j])
      BY <1>1, <1>3, <1>4, <3>2, TopLayout DEF Local
    <3>4. \A j \in 1..f.i - 1 : Cleared(Members(f.t)[j])'
      BY <1>1, <1>3, <1>4, <1>9, <3>3, ClearedStays, MembersType
    <3>5. WellFormed(f.t) => Partial(f)'
      BY <1>4, TopLayout DEF Partial, Pushes
    <3> QED BY <1>4, <3>1, <3>4, <3>5 DEF Layout
  <2>3. CASE n = l + 1
    <3>1. work'[g][n] = e
      BY <1>2, <2>3
    <3>2. desc'[e.t].size = 0
      BY <1>5 DEF Pushes, Unfinished
    <3>3. Partial(e)'
      BY <1>5, <3>2 DEF Partial
    <3>4. \A j \in 1..e.i - 1 : FALSE
      BY <1>5
    <3> QED BY <1>5, <3>1, <3>3, <3>4 DEF Layout
  <2> QED BY <1>2, <1>3, <1>12, <2>1, <2>2, <2>3
<1>13. Known(g)' /\ RefusedFor(g)'
  <2> PICK ts : ts = Types(asked[g])
    OBVIOUS
  <2>1. asked[g] \in Requests /\ next[g] \in 1..Len(ts)
    BY <1>1, <1>3, ThisType DEF TypeInv, TypeOK
  <2>2. \A k \in 1..next[g] - 1 : ts[k] \in Descriptors /\ Cleared(ts[k])
    BY <1>1, <1>3, <2>1, TypesType DEF Known
  <2>3. \A k \in 1..next[g] - 1 : Cleared(ts[k])'
    BY <1>1, <1>9, <2>2, ClearedStays
  <2>4. stage'[g] = "valid" /\ next'[g] = next[g] /\ asked'[g] = asked[g]
    BY <1>3 DEF Pushes
  <2>5. Types(asked[g])' = ts /\ work'[g] # <<>>
    BY <1>2, <1>3, <2>4, EmptySeq
  <2> QED BY <2>3, <2>4, <2>5 DEF Known, RefusedFor
<1> QED BY <1>9, <1>10, <1>11, <1>12, <1>13, LayoutStep
LEMMA EnterMemberLayout ==
  ASSUME LayoutInv, NEW g \in Goroutines, EnterMember(g) PROVE LayoutInv'
<1>1. TypeInv /\ TypeInv'
  BY EnterMemberTyped DEF LayoutInv
<1>2. /\ work[g] # <<>> /\ Top(g).at = "member" /\ Top(g).i \in DOMAIN Members(Top(g).t)
      /\ Member(g) \in Descriptors /\ Member(g) = Members(Top(g).t)[Top(g).i]
  BY <1>1, EnterMemberCases
<1>3. Top(g).t \in Descriptors /\ Local(Top(g)) /\ Busy(g)
  BY <1>1, <1>2, TopFacts DEF Busy
<1>4. CASE Fail(g, "noMembers") /\ Unfinished(Member(g)) /\ Members(Member(g)) = <<>>
  <2>1. ~WellFormed(Member(g))
    BY <1>1, <1>2, <1>4, UnfinishedFacts, IllFormedItself
  <2>2. /\ \A n \in DOMAIN work[g] : ~WellFormed(work[g][n].t)
        /\ \E k \in DOMAIN Types(asked[g]) : ~WellFormed(Types(asked[g])[k])
    BY <1>1, <1>2, <2>1, IllFormedFrames
  <2>3. RefusedFor(g)'
    BY <1>1, <1>4, <2>2, RefusedForIllFormed
  <2> QED BY <1>1, <1>3, <1>4, <2>2, <2>3, FailLayout DEF Errors
<1>5. CASE ~Unfinished(Member(g)) /\ Moves(g, [Top(g) EXCEPT !.at = "valid"]) /\ desc' = desc
  <2> PICK f : f = [Top(g) EXCEPT !.at = "valid"]
    OBVIOUS
  <2>1. f \in Frame /\ f.t = Top(g).t /\ f.i = Top(g).i /\ f.at = "valid"
    BY <1>1, <1>2, AtFacts DEF Steps
  <2>2. Local(f)
    BY <1>2, <1>3, <2>1, MembersType DEF Local
  <2>3. Invalid(Member(g)) \/ Cleared(Member(g))
    BY <1>2, <1>5, MemberFree, EntryCleared
  <2>4. \A j \in 1..f.i - 1 : Cleared(Members(f.t)[j])
    BY <1>2, <2>1, TopLayout
  <2>5. WellFormed(f.t) => Partial(f)'
    BY <1>2, <1>5, <2>1, TopLayout DEF Partial
  <2> QED BY <1>1, <1>2, <1>5, <2>1, <2>2, <2>3, <2>4, <2>5, MovesLayout
<1>6. CASE Pushes(g)
  BY <1>1, <1>2, <1>6, PushesLayout
<1> QED BY <1>1, <1>4, <1>5, <1>6, EnterMemberCases

\* A struct is laid out.
LEMMA FinishCleared ==
  ASSUME LayoutInv, NEW g \in Goroutines, Finish(g), NEW t, t = Top(g).t
  PROVE  Cleared(t)' /\ Shape(g)
<1> PICK l : l = Len(work[g])
  OBVIOUS
<1>1. TypeInv
  BY DEF LayoutInv
<1>2. /\ work[g] # <<>> /\ Top(g).at = "member" /\ Top(g).i = Len(Members(t)) + 1 /\ t \in Descriptors
      /\ OthersSame(g) /\ tainted' = tainted /\ work'[g] = Below(g)
      /\ DOMAIN Below(g) = 1..l - 1 /\ \A n \in 1..l - 1 : Below(g)[n] = work[g][n]
      /\ desc'[t] = [size |-> FinalSize(g), align |-> Own(g).align]
      /\ \A d \in Descriptors : d # t => desc'[d] = desc[d]
  BY <1>1, FinishFacts
<1>3. /\ l \in Nat \ {0} /\ DOMAIN work[g] = 1..l /\ Top(g) = work[g][l] /\ stage[g] = "valid"
      /\ Local(Top(g)) /\ Activations(work[g], This(g))
  BY <1>1, <1>2, TopFacts
<1>4. Shape(g)
  BY <1>2, <1>3 DEF Shape
<1>5. ~UnderWork(t)'
  <2>1. SUFFICES ASSUME NEW h \in Goroutines, NEW n \in DOMAIN work'[h] PROVE work'[h][n].t # t
    BY DEF UnderWork
  <2>2. CASE h = g
    <3>1. n \in 1..l - 1 /\ work'[g][n] = work[g][n]
      BY <1>2, <2>2
    <3>2. n \in DOMAIN work[g] /\ l \in DOMAIN work[g] /\ n < l
      BY <1>3, <3>1
    <3> QED BY <1>3, <2>2, <3>1, <3>2 DEF Activations
  <2>3. CASE h # g
    <3>1. work'[h] = work[h]
      BY <1>2, <2>3 DEF OthersSame, Same
    <3>2. l \in DOMAIN work[g] /\ Busy(g)
      BY <1>3 DEF Busy
    <3>3. t \in Uses(asked[g])
      BY <1>1, <1>3, <3>2, WorkFacts
    <3> QED BY <1>2, <2>3, <3>1, <3>2, <3>3, Apart
  <2> QED BY <2>2, <2>3
<1>6. Len(Members(t)) \in Nat \ {0} /\ DOMAIN Members(t) = 1..Len(Members(t))
  BY <1>2, <1>3, MembersType DEF Local
<1>7. Top(g).i - 1 = Len(Members(t))
  BY <1>2, <1>6
<1>8. CASE WellFormed(t)
  <2> PICK a : a = Own(g).align
    OBVIOUS
  <2>1. Own(g).size = EndOf(t, Len(Members(t))) /\ Largest(a, t, Len(Members(t)))
    BY <1>2, <1>7, <1>8, TopLayout DEF Partial, Own
  <2>2. Declared[t].size = 0
    BY <1>3 DEF Local
  <2>3. a \in Nat \ {0} /\ Right[t] = [size |-> AlignUp(EndOf(t, Len(Members(t))), a), align |-> a]
    BY <1>2, <1>8, <2>1, <2>2, RightOf
  <2>4. FinalSize(g) = AlignUp(EndOf(t, Len(Members(t))), a)
    BY <2>1, <2>3 DEF FinalSize, align
  <2>5. desc'[t] = Right[t]
    BY <1>2, <2>3, <2>4
  <2> QED BY <1>4, <1>5, <1>8, <2>5 DEF Cleared
<1>9. CASE ~WellFormed(t)
  <2>1. ~Invalid(t) /\ Members(t) # <<>> /\ Declared[t].size = 0
    BY <1>3 DEF Local, Invalid
  <2>2. PICK i \in DOMAIN Members(t) : ~WellFormed(Members(t)[i])
    BY <1>2, <1>9, <2>1, IllFormedCases
  <2>3. i \in 1..Top(g).i - 1
    BY <1>6, <1>7, <2>2
  <2>4. Cleared(Members(t)[i])
    BY <1>2, <2>3, TopLayout
  <2>5. Nested[Members(t)[i]] \subseteq Nested[t]
    BY <1>2, <2>1, NestedMember
  <2>6. Nested[t] \cap tainted' # {}
    BY <1>2, <2>2, <2>4, <2>5 DEF Cleared
  <2> QED BY <1>4, <1>9, <2>6 DEF Cleared
<1> QED BY <1>8, <1>9
LEMMA FinishLayout ==
  ASSUME LayoutInv, NEW g \in Goroutines, Finish(g) PROVE LayoutInv'
<1> PICK t : t = Top(g).t
  OBVIOUS
<1> PICK l : l = Len(work[g])
  OBVIOUS
<1>1. TypeInv /\ TypeInv' /\ Shape(g) /\ Known(g)
  BY FinishTyped, FinishCleared DEF LayoutInv
<1>2. /\ work[g] # <<>> /\ t \in Descriptors
      /\ OthersSame(g) /\ UNCHANGED <<stage, asked, next, cif, tainted>> /\ work'[g] = Below(g)
      /\ Len(Below(g)) = l - 1
      /\ DOMAIN Below(g) = 1..l - 1 /\ \A n \in 1..l - 1 : Below(g)[n] = work[g][n]
      /\ \A d \in Descriptors : d # t => desc'[d] = desc[d]
  BY <1>1, FinishFacts
<1>3. /\ l \in Nat \ {0} /\ DOMAIN work[g] = 1..l /\ t = work[g][l].t /\ stage[g] = "valid"
      /\ Activations(work[g], This(g))
  BY <1>1, <1>2, TopFacts
<1>4. Cleared(t)'
  BY FinishCleared
<1>5. Exclusive'
  BY <1>1, <1>2, ExclusiveKept DEF Busy
<1>6. ASSUME NEW d \in Descriptors, UnderWork(d), ~UnderWork(d)' PROVE Resting(d)'
  <2>1. PICK h \in Goroutines : \E n \in DOMAIN work[h] : work[h][n].t = d
    BY <1>6 DEF UnderWork
  <2>2. PICK n \in DOMAIN work[h] : work[h][n].t = d
    BY <2>1
  <2>3. h = g
    BY <1>2, <1>6, <2>2 DEF OthersSame, Same, UnderWork
  <2>4. n \notin 1..l - 1
    <3>1. SUFFICES ASSUME n \in 1..l - 1 PROVE FALSE
      OBVIOUS
    <3>2. n \in DOMAIN work'[g] /\ work'[g][n].t = d
      BY <1>2, <2>2, <2>3, <3>1
    <3> QED BY <1>6, <3>2 DEF UnderWork
  <2>5. n = l
    BY <1>3, <2>2, <2>3, <2>4
  <2>6. d = t
    BY <1>3, <2>2, <2>3, <2>5
  <2> QED BY <1>4, <2>6 DEF Cleared, Resting
<1>7. ASSUME NEW n \in DOMAIN work'[g] PROVE Layout(work[g], n)'
  <2>1. n \in 1..l - 1 /\ n \in DOMAIN work[g] /\ n < l /\ work'[g][n] = work[g][n]
    BY <1>2, <1>3
  <2>2. CASE n < l - 1
    BY <1>1, <1>2, <2>1, <2>2, LowerFrames
  <2>3. CASE n = l - 1
    <3> PICK f : f = work[g][n]
      OBVIOUS
    <3>1. f.t \in Descriptors /\ Local(f) /\ Layout(work[g], n)
      BY <1>1, <2>1, WorkFacts DEF LayoutInv
    <3>2. l \in DOMAIN work[g] /\ n + 1 = l
      BY <1>3, <2>3
    <3>3. f.at = "valid" /\ t = Members(f.t)[f.i] /\ t # f.t
      BY <1>3, <2>1, <3>2 DEF Activations, Activation
    <3>4. desc'[f.t] = desc[f.t]
      BY <1>2, <3>1, <3>3
    <3>5. Len(Members(f.t)) \in Nat /\ DOMAIN Members(f.t) = 1..Len(Members(f.t))
      BY <3>1, MembersType
    <3>6. \A j \in 1..f.i - 1 : j \in DOMAIN Members(f.t) /\ Cleared(Members(f.t)[j])
      BY <3>1, <3>5 DEF Layout, Local
    <3>7. \A j \in 1..f.i - 1 : Cleared(Members(f.t)[j])'
      BY <1>1, <3>1, <3>6, ClearedStays, MembersType
    <3>8. WellFormed(f.t) => Partial(f)'
      BY <3>1, <3>4 DEF Layout, Partial
    <3> PICK m : m = Members(f.t)[f.i]
      OBVIOUS
    <3>9. Cleared(m)'
      BY <1>4, <3>3
    <3> QED BY <2>1, <3>3, <3>7, <3>8, <3>9 DEF Layout
  <2> QED BY <1>3, <2>1, <2>2, <2>3
<1>8. Known(g)' /\ RefusedFor(g)'
  <2> PICK ts : ts = Types(asked[g])
    OBVIOUS
  <2> PICK d : d = This(g)
    OBVIOUS
  <2>1. asked[g] \in Requests /\ next[g] \in 1..Len(ts)
    BY <1>1, <1>3, ThisType DEF TypeInv, TypeOK
  <2>2. \A k \in 1..next[g] - 1 : ts[k] \in Descriptors /\ Cleared(ts[k])
    BY <1>1, <1>3, <2>1, TypesType DEF Known
  <2>3. \A k \in 1..next[g] - 1 : Cleared(ts[k])'
    BY <1>1, <2>2, ClearedStays
  <2>4. work'[g] = <<>> => d = t
    <3>1. SUFFICES ASSUME work'[g] = <<>> PROVE d = t
      OBVIOUS
    <3>2. Len(Below(g)) = 0
      BY <1>2, <3>1
    <3>3. l = 1
      BY <1>2, <1>3, <3>2
    <3> QED BY <1>2, <1>3, <3>3 DEF Activations
  <2>5. work'[g] = <<>> => Cleared(d)'
    BY <1>4, <2>4
  <2>6. Types(asked[g])' = ts /\ This(g)' = d
    BY <1>2 DEF This
  <2>7. \A k \in 1..next'[g] - 1 : Cleared(Types(asked[g])[k])'
    BY <1>2, <2>3, <2>6
  <2>8. work'[g] = <<>> => Cleared(This(g))'
    BY <2>5, <2>6
  <2> QED BY <1>2, <1>3, <2>7, <2>8 DEF Known, RefusedFor
<1> QED BY <1>1, <1>5, <1>6, <1>7, <1>8, LayoutStep

\* A step between two types: no activation before and none after.
LEMMA QuietStep ==
  ASSUME LayoutInv, NEW g \in Goroutines, OthersSame(g), work[g] = <<>>, work'[g] = <<>>,
         UNCHANGED <<desc, tainted>>, TypeInv', Exclusive', Known(g)', RefusedFor(g)'
  PROVE  LayoutInv'
<1>1. Shape(g)
  BY DEF Shape
<1>2. ASSUME NEW d \in Descriptors, UnderWork(d) PROVE UnderWork(d)'
  BY <1>2 DEF UnderWork, OthersSame, Same
<1>3. \A n \in DOMAIN work'[g] : Layout(work[g], n)'
  OBVIOUS
<1> QED BY <1>1, <1>2, <1>3, LayoutStep
\* What is cleared of g's types stays so in such a step.
LEMMA QuietTypes ==
  ASSUME LayoutInv, NEW g \in Goroutines, OthersSame(g), work[g] = <<>>, work'[g] = <<>>,
         UNCHANGED <<desc, tainted>>, NEW d \in Descriptors, Cleared(d)
  PROVE  Cleared(d)'
<1>1. Shape(g) /\ TypeInv
  BY DEF Shape, LayoutInv
<1> QED BY <1>1, ClearedStays
LEMMA QuietExclusive ==
  ASSUME LayoutInv, NEW g \in Goroutines, OthersSame(g), work[g] = <<>>, work'[g] = <<>>,
         UNCHANGED <<desc, asked, tainted>>, Busy(g)
  PROVE  Exclusive'
<1>1. Shape(g)
  BY DEF Shape
<1> QED BY <1>1, ExclusiveKept

LEMMA EnterTypeLayout ==
  ASSUME LayoutInv, NEW g \in Goroutines, EnterType(g) PROVE LayoutInv'
<1> PICK ts : ts = Types(asked[g])
  OBVIOUS
<1> PICK d : d = This(g)
  OBVIOUS
<1>1. TypeInv /\ TypeInv' /\ Known(g)
  BY EnterTypeTyped DEF LayoutInv
<1>2. /\ stage[g] = "enter" /\ work[g] = <<>> /\ d \in Descriptors /\ OthersSame(g) /\ This(g)' = d
      /\ \/ Fail(g, "noMembers") /\ Unfinished(d) /\ Members(d) = <<>>
         \/ /\ stage'[g] = "valid" /\ UNCHANGED <<desc, asked, next, cif, tainted, left>>
            /\ \/ ~Unfinished(d) /\ work'[g] = <<>>
               \/ /\ Unfinished(d) /\ Members(d) # <<>>
                  /\ Len(work'[g]) = 1 /\ work'[g][1] = Entered(d)
                  /\ work' \in [Goroutines -> Seq(Frame)]
  BY <1>1, EnterTypeFacts
<1>3. Busy(g) /\ asked[g] \in Requests /\ next[g] \in 1..Len(ts) /\ d = ts[next[g]]
  BY <1>1, <1>2, ThisType DEF TypeInv, TypeOK, Busy, This
<1>4. /\ DOMAIN ts = 1..Len(ts) /\ Len(ts) \in Nat
      /\ \A k \in 1..next[g] - 1 : ts[k] \in Descriptors /\ Cleared(ts[k])
  BY <1>1, <1>2, <1>3, TypesType DEF Known
<1>5. CASE Fail(g, "noMembers") /\ Unfinished(d) /\ Members(d) = <<>>
  <2>1. ~WellFormed(d)
    BY <1>1, <1>2, <1>5, UnfinishedFacts, IllFormedItself
  <2>2. \E k \in DOMAIN Types(asked[g]) : ~WellFormed(Types(asked[g])[k])
    BY <1>3, <1>4, <2>1
  <2>3. RefusedFor(g)'
    BY <1>1, <1>5, <2>2, RefusedForIllFormed
  <2>4. \A n \in DOMAIN work[g] : ~WellFormed(work[g][n].t)
    BY <1>2
  <2> QED BY <1>1, <1>3, <1>5, <2>3, <2>4, FailLayout DEF Errors
<1>6. CASE /\ stage'[g] = "valid" /\ UNCHANGED <<desc, asked, next, cif, tainted, left>>
           /\ ~Unfinished(d) /\ work'[g] = <<>>
  <2>1. Invalid(d) \/ Cleared(d)
    BY <1>2, <1>6, ThisFree, EntryCleared
  <2>2. Invalid(d) \/ Cleared(d)'
    BY <1>2, <1>6, <2>1, QuietTypes
  <2>3. \A k \in 1..next[g] - 1 : Cleared(ts[k])'
    BY <1>2, <1>4, <1>6, QuietTypes
  <2>4. Types(asked[g])' = ts
    BY <1>6
  <2>5. \A k \in 1..next'[g] - 1 : Cleared(Types(asked[g])[k])'
    BY <1>6, <2>3, <2>4
  <2>6. (Invalid(This(g)) \/ Cleared(This(g)))'
    BY <1>2, <2>2
  <2>7. Known(g)' /\ RefusedFor(g)'
    BY <1>6, <2>5, <2>6 DEF Known, RefusedFor
  <2>8. Exclusive'
    BY <1>2, <1>3, <1>6, QuietExclusive
  <2> QED BY <1>1, <1>2, <1>6, <2>7, <2>8, QuietStep
<1>7. CASE /\ stage'[g] = "valid" /\ UNCHANGED <<desc, asked, next, cif, tainted, left>>
           /\ Unfinished(d) /\ Members(d) # <<>>
           /\ Len(work'[g]) = 1 /\ work'[g][1] = Entered(d) /\ work' \in [Goroutines -> Seq(Frame)]
  <2> PICK e : e = Entered(d)
    OBVIOUS
  <2>1. DOMAIN work'[g] = 1..1 /\ work'[g] \in Seq(Frame) /\ work'[g] # <<>>
    <3> PICK s : s = work'[g]
      OBVIOUS
    <3>1. s \in Seq(Frame) /\ Len(s) = 1
      BY <1>7
    <3>2. DOMAIN s = 1..1
      BY <3>1
    <3>3. s # <<>>
      BY <3>2
    <3> QED BY <3>1, <3>2, <3>3
  <2>2. e.t = d /\ e.i = 1 /\ e.at = "size"
    BY <1>1, <1>2, <1>7, EnteredFacts
  <2>3. \A n \in DOMAIN work'[g] : n = 1
    BY <2>1
  <2>4. Shape(g)
    BY <1>2, <1>7, <2>2, <2>3 DEF Shape
  <2>5. ASSUME NEW x \in Descriptors, UnderWork(x) PROVE UnderWork(x)'
    <3>1. PICK h \in Goroutines : \E n \in DOMAIN work[h] : work[h][n].t = x
      BY <2>5 DEF UnderWork
    <3>2. h # g
      BY <1>2, <3>1
    <3>3. work'[h] = work[h]
      BY <1>2, <3>2 DEF OthersSame, Same
    <3> QED BY <3>1, <3>3 DEF UnderWork
  <2>6. ASSUME NEW n \in DOMAIN work'[g] PROVE Layout(work[g], n)'
    <3>1. work'[g][n] = e
      BY <1>7, <2>3
    <3>2. desc'[e.t].size = 0
      BY <1>7, <2>2 DEF Unfinished
    <3>3. Partial(e)'
      BY <2>2, <3>2 DEF Partial
    <3>4. \A j \in 1..e.i - 1 : FALSE
      BY <2>2
    <3> QED BY <2>2, <3>1, <3>3, <3>4 DEF Layout
  <2>7. \A k \in 1..next[g] - 1 : Cleared(ts[k])'
    BY <1>1, <1>4, <2>4, ClearedStays
  <2>8. Types(asked[g])' = ts
    BY <1>7
  <2>9. \A k \in 1..next'[g] - 1 : Cleared(Types(asked[g])[k])'
    BY <1>7, <2>7, <2>8
  <2>10. Known(g)' /\ RefusedFor(g)'
    BY <1>7, <2>1, <2>9 DEF Known, RefusedFor
  <2>11. Exclusive'
    BY <1>3, <1>7, <2>4, ExclusiveKept
  <2> QED BY <1>1, <2>4, <2>5, <2>6, <2>10, <2>11, LayoutStep
<1> QED BY <1>2, <1>5, <1>6, <1>7

LEMMA CheckTypeLayout ==
  ASSUME LayoutInv, NEW g \in Goroutines, CheckType(g) PROVE LayoutInv'
<1> PICK ts : ts = Types(asked[g])
  OBVIOUS
<1> PICK d : d = This(g)
  OBVIOUS
<1>1. TypeInv /\ TypeInv' /\ Known(g)
  BY CheckTypeTyped DEF LayoutInv
<1>2. /\ stage[g] = "valid" /\ work[g] = <<>> /\ d \in Descriptors
      /\ asked[g] \in Requests /\ next[g] \in 1..Len(ts) /\ d = ts[next[g]]
      /\ IF Invalid(d) THEN Fail(g, "invalidType")
         ELSE /\ UNCHANGED <<desc, asked, work, tainted, left>> /\ OthersSame(g)
              /\ \/ /\ next[g] # Len(ts) /\ stage'[g] = "enter" /\ next'[g] = next[g] + 1
                 \/ /\ next[g] = Len(ts) /\ stage'[g] = "classify"
                    /\ next'[g] = 1 /\ cif'[g].sizes = <<>>
  BY <1>1, CheckTypeFacts DEF This
<1>3. /\ DOMAIN ts = 1..Len(ts) /\ Len(ts) \in Nat /\ Busy(g)
      /\ \A k \in 1..next[g] - 1 : Cleared(ts[k])
      /\ \A k \in 1..Len(ts) : ts[k] \in Descriptors
      /\ Invalid(d) \/ Cleared(d)
  BY <1>1, <1>2, TypesType DEF Known, Busy
<1>4. CASE Invalid(d)
  <2>1. ~WellFormed(d)
    BY <1>2, <1>4, IllFormedItself
  <2>2. \E k \in DOMAIN Types(asked[g]) : ~WellFormed(Types(asked[g])[k])
    BY <1>2, <1>3, <2>1
  <2>3. RefusedFor(g)'
    BY <1>1, <1>2, <1>4, <2>2, RefusedForIllFormed
  <2>4. \A n \in DOMAIN work[g] : ~WellFormed(work[g][n].t)
    BY <1>2
  <2> QED BY <1>1, <1>2, <1>3, <1>4, <2>3, <2>4, FailLayout DEF Errors
<1>5. CASE ~Invalid(d)
  <2>1. UNCHANGED <<desc, asked, work, tainted>> /\ OthersSame(g) /\ work'[g] = <<>>
    BY <1>2, <1>5
  <2>2. Exclusive'
    BY <1>2, <1>3, <2>1, QuietExclusive
  <2>3. \A k \in 1..next[g] : k \in 1..Len(ts) /\ (k \in 1..next[g] - 1 \/ k = next[g])
    BY <1>2, <1>3
  <2>4. \A k \in 1..next[g] : Cleared(ts[k])
    BY <1>2, <1>3, <1>5, <2>3
  <2>5. \A k \in 1..next[g] : Cleared(ts[k])'
    BY <1>2, <1>3, <2>1, <2>3, <2>4, QuietTypes
  <2>6. Types(asked[g])' = ts
    BY <2>1
  <2>7. CASE next[g] # Len(ts) /\ stage'[g] = "enter" /\ next'[g] = next[g] + 1
    <3>1. next'[g] - 1 = next[g]
      BY <1>2, <2>7
    <3>2. \A k \in 1..next'[g] - 1 : Cleared(Types(asked[g])[k])'
      BY <2>5, <2>6, <3>1
    <3>3. Known(g)' /\ RefusedFor(g)'
      BY <2>7, <3>2 DEF Known, RefusedFor
    <3> QED BY <1>1, <1>2, <2>1, <2>2, <3>3, QuietStep
  <2>8. CASE next[g] = Len(ts) /\ stage'[g] = "classify" /\ next'[g] = 1 /\ cif'[g].sizes = <<>>
    <3>1. \A k \in DOMAIN ts : Cleared(ts[k])'
      BY <1>3, <2>5, <2>8
    <3>2. AllCleared(g)'
      BY <2>6, <3>1 DEF AllCleared
    <3>3. Len(cif'[g].sizes) = 0 /\ next'[g] - 1 = 0
      BY <2>8
    <3>4. Sizes(g, next[g] - 1)'
      BY <3>3 DEF Sizes
    <3>5. Known(g)' /\ RefusedFor(g)'
      BY <2>8, <3>2, <3>4 DEF Known, RefusedFor
    <3> QED BY <1>1, <1>2, <2>1, <2>2, <3>5, QuietStep
  <2> QED BY <1>2, <1>5, <2>7, <2>8
<1> QED BY <1>4, <1>5

\* Nobody has an activation while he classifies.
LEMMA NoWork == ASSUME TypeInv, NEW g \in Goroutines, stage[g] # "valid" PROVE work[g] = <<>>
BY DEF TypeInv, Place
LEMMA ClassifyLayout ==
  ASSUME LayoutInv, NEW g \in Goroutines, Classify(g) PROVE LayoutInv'
<1> PICK ts : ts = Types(asked[g])
  OBVIOUS
<1> PICK n : n = next[g]
  OBVIOUS
<1> PICK sizes : sizes = cif[g].sizes
  OBVIOUS
<1> PICK size : size = desc[ts[n]].size
  OBVIOUS
<1>1. TypeInv /\ TypeInv' /\ Known(g)
  BY ClassifyTyped DEF LayoutInv
<1>2. /\ stage[g] = "classify" /\ n \in 1..Len(ts) /\ OthersSame(g)
      /\ UNCHANGED <<desc, stage, asked, work, tainted, left>>
      /\ next'[g] = n + 1 /\ sizes \in Seq(Nat) /\ cif'[g].sizes = Append(sizes, size)
      /\ size \in Nat
  BY <1>1, ClassifyFacts DEF This
<1>3. asked[g] \in Requests /\ work[g] = <<>> /\ work'[g] = <<>> /\ Busy(g)
  BY <1>1, <1>2, NoWork DEF TypeInv, TypeOK, Busy
<1>4. /\ DOMAIN ts = 1..Len(ts) /\ Len(ts) \in Nat /\ \A k \in 1..Len(ts) : ts[k] \in Descriptors
  BY <1>3, TypesType
<1>5. /\ \A k \in DOMAIN ts : Cleared(ts[k])
      /\ Len(sizes) = n - 1
      /\ \A k \in 1..n - 1 : WellFormed(ts[k]) => sizes[k] = Right[ts[k]].size
  BY <1>1, <1>2 DEF Known, AllCleared, Sizes
<1>6. Exclusive'
  BY <1>2, <1>3, QuietExclusive
<1>7. \A k \in DOMAIN ts : Cleared(ts[k])'
  BY <1>2, <1>3, <1>4, <1>5, QuietTypes
<1>8. AllCleared(g)'
  <2>1. Types(asked[g])' = ts
    BY <1>2
  <2> QED BY <1>7, <2>1 DEF AllCleared
<1>9. Sizes(g, next[g] - 1)'
  <2>1. /\ Len(Append(sizes, size)) = n /\ Append(sizes, size)[n] = size
        /\ \A k \in 1..n - 1 : Append(sizes, size)[k] = sizes[k]
    <3>1. PICK m : m = Len(sizes)
      OBVIOUS
    <3>2. PICK w : w = Append(sizes, size)
      OBVIOUS
    <3>3. /\ Len(w) = m + 1 /\ w[m + 1] = size
          /\ \A k \in 1..m : w[k] = sizes[k]
      BY <1>2, <3>1, <3>2, AppendProperties
    <3>4. n \in Nat /\ m = n - 1 /\ m + 1 = n
      BY <1>2, <1>4, <1>5, <3>1
    <3> QED BY <3>2, <3>3, <3>4
  <2>2. WellFormed(ts[n]) => size = Right[ts[n]].size
    BY <1>2, <1>4, <1>5 DEF Cleared
  <2>3. \A k \in 1..n : k \in 1..n - 1 \/ k = n
    BY <1>2
  <2>4. \A k \in 1..n : WellFormed(ts[k]) => cif'[g].sizes[k] = Right[ts[k]].size
    BY <1>2, <1>5, <2>1, <2>2, <2>3
  <2>5. next'[g] - 1 = n /\ Len(cif'[g].sizes) = n /\ Types(asked[g])' = ts
    BY <1>2, <1>4, <2>1
  <2> QED BY <2>4, <2>5 DEF Sizes
<1>10. Known(g)' /\ RefusedFor(g)'
  BY <1>2, <1>8, <1>9 DEF Known, RefusedFor
<1> QED BY <1>1, <1>2, <1>3, <1>6, <1>10, QuietStep

LEMMA PreparedLayout ==
  ASSUME LayoutInv, NEW g \in Goroutines, Prepared(g) PROVE LayoutInv'
<1> PICK ts : ts = Types(asked[g])
  OBVIOUS
<1>1. TypeInv /\ TypeInv' /\ Known(g)
  BY PreparedTyped DEF LayoutInv
<1>2. /\ stage[g] = "classify" /\ next[g] = Len(ts) + 1 /\ asked[g] \in Requests
      /\ \/ /\ Room(cif[g].sizes) /\ stage'[g] = "ready" /\ OthersSame(g)
            /\ UNCHANGED <<desc, asked, next, work, tainted, left>>
            /\ cif'[g].sizes = cif[g].sizes /\ cif'[g].fixed = FixedArgCount(g)
         \/ ~Room(cif[g].sizes) /\ Fail(g, "tooManyArguments")
  BY <1>1, PreparedFacts
<1>3. work[g] = <<>> /\ Busy(g) /\ Len(ts) \in Nat /\ DOMAIN ts = 1..Len(ts)
      /\ (\A k \in DOMAIN ts : ts[k] \in Descriptors)
  BY <1>1, <1>2, NoWork, TypesType DEF Busy
<1>4. Sizes(g, Len(ts)) /\ \A k \in DOMAIN ts : Cleared(ts[k])
  <2>1. next[g] - 1 = Len(ts)
    BY <1>2, <1>3
  <2> QED BY <1>1, <1>2, <2>1 DEF Known, AllCleared
<1>5. CASE /\ Room(cif[g].sizes) /\ stage'[g] = "ready" /\ OthersSame(g)
           /\ UNCHANGED <<desc, asked, next, work, tainted, left>>
           /\ cif'[g].sizes = cif[g].sizes /\ cif'[g].fixed = FixedArgCount(g)
  <2>1. work'[g] = <<>> /\ Types(asked[g])' = ts /\ asked'[g] = asked[g]
    BY <1>3, <1>5
  <2>2. \A k \in DOMAIN ts : Cleared(ts[k])'
    BY <1>3, <1>4, <1>5, <2>1, QuietTypes
  <2>3. AllCleared(g)'
    BY <2>1, <2>2 DEF AllCleared
  <2>4. Sizes(g, Len(ts))'
    BY <1>4, <1>5, <2>1 DEF Sizes
  <2>5. Sizes(g, Len(Types(asked[g])))'
    BY <2>1, <2>4 DEF Sizes
  <2>6. asked'[g].variadic => cif'[g].fixed = asked'[g].fixed
    BY <1>5, <2>1 DEF FixedArgCount
  <2>7. Known(g)' /\ RefusedFor(g)'
    BY <1>5, <2>3, <2>5, <2>6 DEF Known, RefusedFor
  <2>8. Exclusive'
    BY <1>3, <1>5, <2>1, QuietExclusive
  <2> QED BY <1>1, <1>3, <1>5, <2>1, <2>7, <2>8, QuietStep
<1>6. CASE ~Room(cif[g].sizes) /\ Fail(g, "tooManyArguments")
  <2>1. stage'[g] = "tooManyArguments" /\ asked' = asked /\ cif' = cif
    BY <1>1, <1>6 DEF Fail, TypeInv, TypeOK
  <2>2. Sizes(g, Len(Types(asked[g])))'
    BY <1>4, <2>1 DEF Sizes
  <2>3. RefusedFor(g)'
    BY <1>6, <2>1, <2>2 DEF RefusedFor, Room
  <2>4. \A n \in DOMAIN work[g] : ~WellFormed(work[g][n].t)
    BY <1>3
  <2> QED BY <1>1, <1>3, <1>6, <2>3, <2>4, FailLayout DEF Errors
<1> QED BY <1>2, <1>5, <1>6

\* Nobody else is to lay out what g begins with.
LEMMA BeginExclusive ==
  ASSUME Synchronized, LayoutInv, NEW g \in Goroutines, NEW r \in Requests, Begin(g, r)
  PROVE  Exclusive'
<1>1. TypeInv /\ Exclusive
  BY DEF LayoutInv
<1>2. /\ asked'[g] = r /\ desc' = desc /\ work' = work
      /\ \A h \in Goroutines \ {g} : Same(h)
  BY <1>1, BeginFacts DEF OthersSame
<1>3. \A h \in Goroutines \ {g} : ~Conflict(r, h)
  BY DEF Begin
<1> DEFINE Free(d) == ~Unfinished(d) /\ ~UnderWork(d)
<1>4. ASSUME NEW h \in Goroutines, h # g, Busy(h)'
      PROVE  \A d \in Uses(r) \cap Uses(asked'[h]) : Free(d)
  <2>1. Busy(h) /\ asked'[h] = asked[h]
    BY <1>2, <1>4 DEF Same, Busy
  <2> QED BY <1>3, <1>4, <2>1 DEF Conflict
<1>5. ASSUME NEW i \in Goroutines, NEW h \in Goroutines, i # h, Busy(i)', Busy(h)',
             NEW d \in Uses(asked'[i]) \cap Uses(asked'[h])
      PROVE  Free(d)
  <2>1. CASE i = g
    BY <1>2, <1>4, <1>5, <2>1
  <2>2. CASE h = g
    BY <1>2, <1>4, <1>5, <2>2
  <2>3. CASE i # g /\ h # g
    <3>1. Busy(i) /\ Busy(h) /\ asked'[i] = asked[i] /\ asked'[h] = asked[h]
      BY <1>2, <1>5, <2>3 DEF Same, Busy
    <3> QED BY <1>1, <1>5, <3>1 DEF Exclusive
  <2> QED BY <2>1, <2>2, <2>3
<1>6. \A d : Free(d) => ~Unfinished(d)' /\ ~UnderWork(d)'
  BY <1>2 DEF Unfinished, UnderWork
<1> HIDE DEF Free
<1> QED BY <1>5, <1>6 DEF Exclusive
LEMMA BeginLayout ==
  ASSUME Synchronized, LayoutInv, NEW g \in Goroutines, NEW r \in Requests, Begin(g, r)
  PROVE  LayoutInv'
<1>1. TypeInv /\ TypeInv'
  BY BeginTyped DEF LayoutInv
<1>2. /\ OthersSame(g) /\ asked'[g] = r /\ next'[g] = 1
      /\ stage'[g] \in {"enter", "tooManyFixed", "invalidCall"}
      /\ work[g] = <<>> /\ work' = work /\ desc' = desc /\ tainted' = tainted
  BY <1>1, BeginFacts
<1>3. \A k \in 1..next'[g] - 1 : FALSE
  BY <1>2
<1>4. Known(g)' /\ RefusedFor(g)'
  BY <1>2, <1>3 DEF Known, RefusedFor
<1> QED BY <1>1, <1>2, <1>4, BeginExclusive, QuietStep

LEMMA LayoutInvInit == Init => LayoutInv
<1> SUFFICES ASSUME Init PROVE LayoutInv
  OBVIOUS
<1>1. TypeInv
  BY TypeInvInit
<1>2. /\ \A g \in Goroutines : stage[g] = "idle" /\ work[g] = <<>>
      /\ \A d \in Descriptors : desc[d] = AsDeclared(d)
  BY DEF Init, AsDeclared
<1>3. Exclusive
  BY <1>2 DEF Exclusive, Busy
<1>4. ASSUME NEW d \in Descriptors PROVE Resting(d)
  <2>1. CASE WellFormed(d)
    BY <1>2, <2>1 DEF Resting
  <2>2. CASE ~WellFormed(d)
    <3>1. Declared[d].kind = "struct" => desc[d].size = 0
      <4>1. desc[d].size = Declared[d].size
        <5>1. desc[d] = AsDeclared(d)
          BY <1>2
        <5>2. AsDeclared(d).size = Declared[d].size
          BY DEF AsDeclared
        <5> QED BY <5>1, <5>2
      <4>2. Declared[d].kind = "struct" => Declared[d].size = 0
        BY <2>2, IllFormedCases DEF Invalid
      <4> QED BY <4>1, <4>2
    <3> QED BY <2>2, <3>1 DEF Resting
  <2> QED BY <2>1, <2>2
<1>5. \A g \in Goroutines : Known(g) /\ RefusedFor(g)
  BY <1>2 DEF Known, RefusedFor
<1>6. \A g \in Goroutines : \A n \in DOMAIN work[g] : Layout(work[g], n)
  BY <1>2
<1> QED BY <1>1, <1>3, <1>4, <1>5, <1>6 DEF LayoutInv
LEMMA LayoutInvBy ==
  ASSUME Synchronized, LayoutInv, NEW g \in Goroutines, StepBy(g) PROVE LayoutInv'
<1>1. CASE \E r \in Requests : Begin(g, r)
  BY <1>1, BeginLayout
<1>2. CASE EnterType(g)
  BY <1>2, EnterTypeLayout
<1>3. CASE CheckType(g)
  BY <1>3, CheckTypeLayout
<1>4. CASE Classify(g)
  BY <1>4, ClassifyLayout
<1>5. CASE Prepared(g)
  BY <1>5, PreparedLayout
<1>6. CASE initializeCompositeType(g)
  BY <1>6, ResetSizeLayout, ResetAlignLayout, EnterMemberLayout, CheckMemberLayout,
     AlignMemberLayout, AddMemberLayout, MaxAlignLayout, FinishLayout DEF initializeCompositeType
<1> QED BY <1>1, <1>2, <1>3, <1>4, <1>5, <1>6 DEF StepBy
LEMMA LayoutInvStutter == LayoutInv /\ UNCHANGED vars => LayoutInv'
<1> SUFFICES ASSUME LayoutInv, UNCHANGED vars PROVE LayoutInv'
  OBVIOUS
<1>1. TypeInv /\ TypeInv'
  BY TypeInvStutter DEF LayoutInv
<1>2. UNCHANGED <<desc, stage, asked, next, work, cif, tainted>>
  BY DEF vars
<1>3. Exclusive'
  BY <1>2 DEF LayoutInv, Exclusive, Busy, Unfinished, UnderWork
<1>4. \A d \in Descriptors : (~UnderWork(d))' => Resting(d)'
  BY <1>2 DEF LayoutInv, UnderWork, Resting
<1>5. \A g \in Goroutines : \A n \in DOMAIN work'[g] : Layout(work[g], n)'
  <2> SUFFICES ASSUME NEW g \in Goroutines, NEW n \in DOMAIN work'[g] PROVE Layout(work[g], n)'
    OBVIOUS
  <2> PICK s : s = work[g]
    OBVIOUS
  <2>1. work'[g] = s /\ Layout(s, n)
    BY <1>2 DEF LayoutInv
  <2>2. \A d : Cleared(d) => Cleared(d)'
    BY <1>2 DEF Cleared, UnderWork
  <2>3. Partial(s[n]) => Partial(s[n])'
    BY <1>2 DEF Partial
  <2>4. Layout(s, n)'
    BY <2>1, <2>2, <2>3 DEF Layout
  <2>5. work[g]' = s
    BY <2>1
  <2> QED BY <2>4, <2>5 DEF Layout
<1>6. \A g \in Goroutines : Known(g)' /\ RefusedFor(g)'
  <2>1. \A d : UnderWork(d)' <=> UnderWork(d)
    BY <1>2 DEF UnderWork
  <2>2. \A d : Cleared(d)' <=> Cleared(d)
    BY <1>2, <2>1 DEF Cleared
  <2> SUFFICES ASSUME NEW g \in Goroutines PROVE Known(g)' /\ RefusedFor(g)'
    OBVIOUS
  <2>3. Known(g) /\ RefusedFor(g)
    BY DEF LayoutInv
  <2>4. AllCleared(g)' <=> AllCleared(g)
    BY <1>2, <2>2 DEF AllCleared
  <2>5. \A n : Sizes(g, n)' <=> Sizes(g, n)
    BY <1>2 DEF Sizes
  <2>6. This(g)' = This(g)
    BY <1>2 DEF This
  <2>7. Known(g)'
    BY <1>2, <2>2, <2>3, <2>4, <2>5, <2>6 DEF Known
  <2>8. RefusedFor(g)'
    BY <1>2, <2>3, <2>5 DEF RefusedFor
  <2> QED BY <2>7, <2>8
<1> QED BY <1>1, <1>3, <1>4, <1>5, <1>6 DEF LayoutInv

\* With a lock of the callers' own, or types that are laid out before they are
\* shared, the layouts are right in every reachable state.
LEMMA LayoutInvariant == ASSUME Synchronized PROVE Spec => []LayoutInv
<1>1. Init => LayoutInv
  BY LayoutInvInit
<1>2. LayoutInv /\ [Next]_vars => LayoutInv'
  <2> SUFFICES ASSUME LayoutInv, [Next]_vars PROVE LayoutInv'
    OBVIOUS
  <2>1. CASE UNCHANGED vars
    BY <2>1, LayoutInvStutter
  <2>2. CASE Next
    <3>1. PICK g \in Goroutines : StepBy(g)
      BY <2>2 DEF Next, StepBy
    <3> QED BY <3>1, LayoutInvBy
  <2> QED BY <2>1, <2>2
<1> QED BY <1>1, <1>2, PTL DEF Spec

\* initializeCompositeType leaves a well-formed type as the program wrote it or with
\* the C layout once nobody works on it, also when preparations fail, provided no
\* two goroutines prepare at once what shares a type that is not laid out.
THEOREM PreparationIntact == Synchronized => (Spec => []Intact)
<1>1. LayoutInv => Intact
  BY DEF LayoutInv, Resting, Intact, AsDeclared
<1> SUFFICES ASSUME Synchronized PROVE Spec => []Intact
  OBVIOUS
<1> QED BY <1>1, LayoutInvariant, PTL

\* An interface that PrepareCallInterface accepted was classified with the C layout
\* of its types, which they keep while others prepare theirs; one that
\* PrepareVariadicCallInterface accepted knows its fixed arguments.
THEOREM PreparationIsRight == Synchronized => (Spec => []PreparedIsRight)
<1>1. LayoutInv => PreparedIsRight
  <2> SUFFICES ASSUME LayoutInv, NEW g \in Goroutines, stage[g] = "ready"
               PROVE  /\ asked[g].variadic => cif[g].fixed = asked[g].fixed
                      /\ \A k \in DOMAIN Types(asked[g]) :
                           IF WellFormed(Types(asked[g])[k])
                           THEN /\ cif[g].sizes[k] = Right[Types(asked[g])[k]].size
                                /\ desc[Types(asked[g])[k]].size = Right[Types(asked[g])[k]].size
                           ELSE Nested[Types(asked[g])[k]] \cap tainted # {}
    BY DEF PreparedIsRight
  <2>1. Known(g) /\ asked[g] \in Requests
    BY DEF LayoutInv, TypeInv, TypeOK
  <2>2. DOMAIN Types(asked[g]) = 1..Len(Types(asked[g]))
    BY <2>1, TypesType
  <2> QED BY <2>1, <2>2 DEF Known, AllCleared, Cleared, Sizes
<1> SUFFICES ASSUME Synchronized PROVE Spec => []PreparedIsRight
  OBVIOUS
<1> QED BY <1>1, LayoutInvariant, PTL

\* Under that condition a preparation that initializeCompositeType or isValidType
\* stops has an ill-formed type of its own, and one refused for too many
\* arguments has arguments whose C sizes do not fit.
THEOREM PreparationRefusedRightly == Synchronized => (Spec => []RefusedRightly)
<1>1. LayoutInv => RefusedRightly
  <2> SUFFICES ASSUME LayoutInv, NEW g \in Goroutines
               PROVE  LET types == Types(asked[g])
                      IN  /\ stage[g] \in {"noMembers", "invalidType"} =>
                               \E k \in DOMAIN types : ~WellFormed(types[k])
                          /\ stage[g] = "tooManyArguments" /\ (\A k \in DOMAIN types : WellFormed(types[k])) =>
                               Total([k \in DOMAIN types |-> Right[types[k]].size]) > Capacity
    BY DEF RefusedRightly
  <2> DEFINE types == Types(asked[g])
             sizes == [k \in DOMAIN types |-> Right[types[k]].size]
  <2>1. RefusedFor(g) /\ asked[g] \in Requests /\ cif[g].sizes \in Seq(Nat)
    BY DEF LayoutInv, TypeInv, TypeOK
  <2>2. DOMAIN types = 1..Len(types) /\ Len(types) \in Nat \ {0}
    BY <2>1, TypesType
  <2> HIDE DEF types
  <2>3. ASSUME stage[g] = "tooManyArguments", \A k \in DOMAIN types : WellFormed(types[k])
        PROVE  Total(sizes) > Capacity
    <3>1. ~Room(cif[g].sizes) /\ Sizes(g, Len(types))
      BY <2>1, <2>3 DEF RefusedFor, types
    <3>2. /\ Len(cif[g].sizes) = Len(types)
          /\ \A k \in 1..Len(types) : cif[g].sizes[k] = Right[types[k]].size
      BY <2>2, <2>3, <3>1 DEF Sizes, types
    <3>3. cif[g].sizes = [k \in 1..Len(types) |-> cif[g].sizes[k]]
      <4> PICK s : s = cif[g].sizes
        OBVIOUS
      <4>1. s \in Seq(Nat) /\ Len(s) = Len(types)
        BY <2>1, <3>2
      <4>2. s = [k \in 1..Len(s) |-> s[k]]
        BY <4>1, LenProperties
      <4> QED BY <4>1, <4>2
    <3>4. cif[g].sizes = sizes
      BY <2>2, <3>2, <3>3
    <3>5. Total(cif[g].sizes) \in Nat
      BY <2>1, <2>2, <3>2, TotalNat
    <3>6. Total(cif[g].sizes) > Capacity
      BY <3>1, <3>5, BoundsAssumption DEF Room
    <3> QED BY <3>4, <3>6
  <2> QED BY <2>1, <2>3 DEF RefusedFor, types
<1> SUFFICES ASSUME Synchronized PROVE Spec => []RefusedRightly
  OBVIOUS
<1> QED BY <1>1, LayoutInvariant, PTL
================================================================================
