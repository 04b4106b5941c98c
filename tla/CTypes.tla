--------------------------------- MODULE CTypes ---------------------------------
(***************************************************************************)
(* C types as goffi describes them (types.TypeDescriptor), their layout    *)
(* (initializeCompositeType in ffi/cif.go), and the words that carry an    *)
(* argument: not its bytes, but which bytes of which argument they are.    *)
(***************************************************************************)
EXTENDS Integers, Sequences

AlignUp(value, alignment) == ((value + alignment - 1) \div alignment) * alignment

\* A descriptor also lists its scalars in memory order, those of nested structs
\* included: what the code's recursive walks over Members visit.
Leaf(kind, off, size) == [kind |-> kind, off |-> off, size |-> size]
Scalar(kind, size) == [kind |-> kind, size |-> size, align |-> size, members |-> <<>>,
                       leaves |-> <<Leaf(kind, 0, size)>>]
VoidT    == Scalar("void", 1)
IntT     == Scalar("int", 4)       \* IntType, for which the call path has no case
FloatT   == Scalar("float", 4)
DoubleT  == Scalar("double", 8)
UInt8T   == Scalar("uint8", 1)
SInt32T  == Scalar("sint32", 4)
SInt64T  == Scalar("sint64", 8)
PointerT == Scalar("pointer", 8)

\* Of a descriptor or of a leaf.
IsFloat(t) == t.kind \in {"float", "double"}
IsStruct(t) == t.kind = "struct"

\* Where the first i members end.
MemberEnds(ms) ==
  LET end[i \in 0..Len(ms)] ==
        IF i = 0 THEN 0 ELSE AlignUp(end[i - 1], ms[i].align) + ms[i].size
  IN  end
Offset(ms, i) == AlignUp(MemberEnds(ms)[i - 1], ms[i].align)

\* The leaves of the first i members.
MemberLeaves(ms) ==
  LET shifted(t, off) == [j \in DOMAIN t.leaves |-> [t.leaves[j] EXCEPT !.off = @ + off]]
      leaves[i \in 0..Len(ms)] ==
        IF i = 0 THEN <<>> ELSE leaves[i - 1] \o shifted(ms[i], Offset(ms, i))
  IN  leaves

\* A struct, completed by initializeCompositeType; its members may be structs.
Struct(ms) ==
  LET align == CHOOSE a \in {ms[i].align : i \in DOMAIN ms} :
                 \A i \in DOMAIN ms : ms[i].align <= a
  IN  [kind |-> "struct", size |-> AlignUp(MemberEnds(ms)[Len(ms)], align),
       align |-> align, members |-> ms, leaves |-> MemberLeaves(ms)[Len(ms)]]

LeafEnd(t, j) == t.leaves[j].off + t.leaves[j].size

\* The leaves of member i, at their offsets in the struct.
LeavesOf(ms, i) ==
  {Leaf(l.kind, l.off + Offset(ms, i), l.size) :
     l \in {ms[i].leaves[j] : j \in DOMAIN ms[i].leaves}}

\* 8-byte chunks a value takes up, and how much of the value chunk k holds.
Eightbytes(t) == (t.size + 7) \div 8
Left(t, k) == IF t.size - 8 * k < 8 THEN t.size - 8 * k ELSE 8
--------------------------------------------------------------------------------
(* Words.                                                                   *)

\* len bytes of argument arg from off on, zero-extended; argument 0 is the
\* return value.
Bytes(arg, off, len) == [is |-> "bytes", arg |-> arg, off |-> off, len |-> len]
AddressOf(arg) == [is |-> "address", arg |-> arg, off |-> 0, len |-> 8]
Unset == [is |-> "unset", arg |-> 0, off |-> 0, len |-> 0]
\* A float64 made of the bits of a float32, or the other way round.
Converted(w) == [w EXCEPT !.is = "converted"]
Word == [is : {"bytes", "address", "converted", "unset"}, arg : Nat, off : Nat, len : Nat]

\* Word w carries chunk k of argument arg of type t.
Carries(w, arg, t, k) == /\ w.is = "bytes" /\ w.arg = arg
                         /\ w.off = 8 * k /\ w.len >= Left(t, k)
================================================================================
