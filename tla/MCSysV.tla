--------------------------------- MODULE MCSysV ---------------------------------
(* Instances of SysVRoundTrip for TLC: types and signatures. *)
EXTENDS SysVRoundTrip

OneFloat   == Struct(<<FloatT>>)
Small      == Struct(<<UInt8T, UInt8T, UInt8T>>)
Floats     == Struct(<<FloatT, FloatT>>)
Mixed      == Struct(<<DoubleT, SInt32T>>)
MixedInt   == Struct(<<SInt32T, FloatT, DoubleT>>)
Ints       == Struct(<<SInt64T, SInt32T>>)
Doubles    == Struct(<<DoubleT, FloatT>>)
Large      == Struct(<<SInt64T, Struct(<<DoubleT>>), SInt32T>>)
NestFloats == Struct(<<FloatT, Struct(<<FloatT>>)>>)      \* a hidden class
NestMixed  == Struct(<<SInt32T, Struct(<<FloatT>>)>>)     \* INTEGER by the member
NestPair   == Struct(<<DoubleT, Struct(<<SInt32T>>)>>)    \* nothing hidden
NestLong   == Struct(<<Struct(<<SInt32T, SInt32T, SInt32T>>), FloatT>>)  \* hidden

Nested == {NestFloats, NestMixed, NestPair, NestLong}
Structs == {OneFloat, Small, Floats, Mixed, MixedInt, Ints, Doubles, Large} \cup Nested
AllTypes == {VoidT, IntT, FloatT, DoubleT, UInt8T, SInt32T, SInt64T, PointerT} \cup Structs

\* Registers and stack slots are used up by a prefix of scalars, so that the
\* arguments that follow meet every degree of exhaustion.
Prefix(ints, floats) == [i \in 1..ints |-> SInt64T] \o [i \in 1..floats |-> DoubleT]
Prefixes == {Prefix(n, m) : n \in {0, 5, 6, 13, 14}, m \in {0, 7, 8}}
              \cup {Prefix(4, 0), Prefix(10, 12)}

Tails == LET T == AllTypes \ {VoidT} IN
         {<<t>> : t \in T} \cup {<<t, u>> : t, u \in T}
Shapes == {p \o t : p \in Prefixes, t \in Tails}

\* Argument lists with a result that takes no register, and every result with
\* a few argument lists.
AllSignatures == {[args |-> a, ret |-> r] : a \in Shapes, r \in {VoidT, Large}}
                   \cup {[args |-> a, ret |-> r] : a \in Prefixes \cup {<<>>}, r \in AllTypes}
================================================================================
