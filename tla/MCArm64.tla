--------------------------------- MODULE MCArm64 ---------------------------------
(* Instances of Arm64RoundTrip for TLC: types and signatures. *)
EXTENDS Arm64RoundTrip

OneDouble  == Struct(<<DoubleT>>)
Floats     == Struct(<<FloatT, FloatT>>)
Point      == Struct(<<DoubleT, DoubleT>>)
Rect       == Struct(<<Point, Point>>)
Triple     == Struct(<<Floats, FloatT>>)
FiveFloats == Struct(<<Floats, Floats, FloatT>>)
Rgb        == Struct(<<UInt8T, UInt8T, UInt8T>>)
Shared     == Struct(<<SInt32T, FloatT>>)
Apart      == Struct(<<DoubleT, SInt32T>>)
TwoKinds   == Struct(<<FloatT, DoubleT>>)
Padded     == Struct(<<UInt8T, PointerT>>)
Nested     == Struct(<<Rgb, SInt32T, Shared>>)
WithInt    == Struct(<<SInt64T, IntT>>)
Skipped    == Struct(<<Struct(<<SInt32T, UInt8T>>), UInt8T>>)
Quad       == Struct(<<Floats, Floats>>)
Crowd      == Struct(<<Floats, DoubleT>>)
Large      == Struct(<<SInt64T, DoubleT, SInt32T>>)

Structs == {OneDouble, Floats, Point, Rect, Triple, FiveFloats, Rgb, Shared, Apart,
            TwoKinds, Padded, Nested, WithInt, Skipped, Large}
AllTypes == {VoidT, IntT, FloatT, DoubleT, UInt8T, SInt32T, SInt64T, PointerT}
              \cup Structs \cup {Quad, Crowd}
AllSystems == {"linux", "darwin"}

\* Registers and stack slots are used up by a prefix of scalars, so that the
\* arguments that follow meet every degree of exhaustion.
Prefix(ints, floats) == [i \in 1..ints |-> SInt64T] \o [i \in 1..floats |-> DoubleT]
Prefixes == {Prefix(n, m) : n \in {0, 6, 7}, m \in {0, 5, 7}}
              \cup {Prefix(8, 8), Prefix(14, 0), Prefix(14, 8), Prefix(8, 14), Prefix(0, 16)}

Tails == LET T == AllTypes \ {VoidT, Quad, Crowd} IN {<<t>> : t \in T} \cup {<<t, u>> : t, u \in T}
Plain(a, r) == [args |-> a, ret |-> r, fixed |-> 0, given |-> Len(a)]

\* Many structs: homogeneous aggregates of which the last ones are on the stack, and
\* structs that countStructRegUsage takes for more floats than they have words.
Times(n, t) == [i \in 1..n |-> t]
Crowds == {Times(n, t) : n \in 2..9, t \in {Quad, Crowd, TwoKinds, Apart, Shared}}
            \cup {Times(4, TwoKinds) \o <<Rect, DoubleT>>,
                  Prefix(0, 7) \o Times(4, TwoKinds) \o Prefix(0, 5)}

\* Argument lists with a result that takes no register, every result with a few
\* argument lists, variadic calls, and calls with a value too few.
Variadics == {<<PointerT>> \o t : t \in Tails} \cup {Prefix(n, m) : n \in 6..10, m \in {0, 2}}
AllSignatures ==
  {Plain(p \o t, VoidT) : p \in Prefixes, t \in Tails}
    \cup {Plain(a, r) : a \in Prefixes \cup {<<>>}, r \in AllTypes}
    \cup {Plain(a, VoidT) : a \in Crowds}
    \cup {[Plain(a, VoidT) EXCEPT !.fixed = n] : a \in Variadics, n \in {1, 2}}
    \cup {[Plain(p, VoidT) EXCEPT !.given = Len(p) - 1] : p \in Prefixes \ {<<>>}}
================================================================================
