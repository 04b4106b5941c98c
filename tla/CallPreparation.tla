---------------------------- MODULE CallPreparation ----------------------------
(***************************************************************************)
(* PrepareCallInterface and PrepareVariadicCallInterface (ffi/ffi.go with  *)
(* ffi/cif.go) on goroutines that each have an interface of their own but  *)
(* share type descriptors.  initializeCompositeType lays a struct out in   *)
(* its descriptor, one assignment after another and without a lock, and a  *)
(* descriptor whose Size is not zero counts as laid out.                   *)
(*                                                                         *)
(* A statement is one step.  What the layout is used for is reduced to the *)
(* sizes that preparePlatformSpecific and Execute read.                    *)
(***************************************************************************)
EXTENDS CTypes, FiniteSets

CONSTANTS
  Goroutines,
  Descriptors,
  Declared,      \* what the program wrote: kind, size, align and members of each
  Requests,      \* interfaces to prepare; known: pointers and convention are valid
  Capacity,      \* eightbytes of arguments the platform has room for
  Synchronized,  \* callers do not prepare at once what shares an unfinished type
  Preparations   \* bound: how often a goroutine prepares its interface

\* A struct without a Size is one to lay out; whoever gives a Size gives an
\* alignment, too.
ASSUME DeclaredAssumption ==
  /\ IsFiniteSet(Descriptors)
  /\ Declared \in [Descriptors -> [kind : {"scalar", "struct", "invalid"}, size : Nat,
                                  align : Nat, members : Seq(Descriptors)]]
  /\ \A d \in Descriptors :
       /\ Declared[d].kind = "scalar" => Declared[d].size > 0
       /\ Declared[d].size > 0 => Declared[d].align > 0
\* align (ffi/cif.go) masks bits: it rounds up to powers of two only.
ASSUME AlignmentAssumption ==
  \A d \in Descriptors : Declared[d].align \in {0} \cup {2^k : k \in 0..12}
\* No type is nested in itself, which C has no size for: among any types there is
\* one that contains none of them.
ASSUME NestingAssumption ==
  \A ds \in (SUBSET Descriptors) \ {{}} :
    \E d \in ds : \A i \in DOMAIN Declared[d].members : Declared[d].members[i] \notin ds
ASSUME RequestsAssumption ==
  /\ Requests # {}
  /\ Requests \subseteq [ret : Descriptors, args : Seq(Descriptors), known : BOOLEAN,
                         variadic : BOOLEAN, fixed : Nat]
ASSUME BoundsAssumption ==
  Capacity \in Nat /\ Synchronized \in BOOLEAN /\ Preparations \in Nat

VARIABLES
  desc,     \* Size and Alignment of every descriptor
  stage,    \* where a goroutine is, or the error it got
  asked,    \* the request a goroutine prepares or has prepared
  next,     \* which of its types is looked at
  work,     \* its activations of initializeCompositeType, innermost last
  cif,      \* its interface: sizes the classifier read (result first), FixedArgCount
  tainted,  \* history: structs whose layout was given up in the middle
  left      \* how many preparations it may still begin

vars == <<desc, stage, asked, next, work, cif, tainted, left>>

Errors == {"tooManyFixed", "invalidCall", "noMembers", "invalidType", "tooManyArguments"}
Steps == {"size", "align", "member", "valid", "start", "add", "max"}
Frame == [t : Descriptors, i : Nat, at : Steps]

TypeOK ==
  /\ desc \in [Descriptors -> [size : Nat, align : Nat]]
  /\ stage \in [Goroutines -> {"idle", "enter", "valid", "classify", "ready"} \cup Errors]
  /\ asked \in [Goroutines -> Requests]
  /\ next \in [Goroutines -> Nat]
  /\ work \in [Goroutines -> Seq(Frame)]
  /\ cif \in [Goroutines -> [sizes : Seq(Nat), fixed : Nat]]
  /\ \A g \in Goroutines : Len(work[g]) <= Cardinality(Descriptors)
  /\ tainted \subseteq Descriptors
  /\ left \in [Goroutines -> 0..Preparations]
--------------------------------------------------------------------------------
Members(d) == Declared[d].members
Types(r) == <<r.ret>> \o r.args
\* The types whose descriptors the layout of a type touches: the type and, if the
\* program left its layout open, those of its members.
Nested ==
  LET nested[d \in Descriptors] ==
        {d} \cup IF Declared[d].size > 0 THEN {}
                 ELSE UNION {nested[Members(d)[i]] : i \in DOMAIN Members(d)}
  IN  nested
Uses(r) == UNION {Nested[Types(r)[k]] : k \in DOMAIN Types(r)}

\* A struct that the code would lay out.
Unfinished(d) == Declared[d].kind = "struct" /\ desc[d].size = 0
Busy(g) == stage[g] \in {"enter", "valid", "classify"}
UnderWork(d) == \E g \in Goroutines : \E n \in DOMAIN work[g] : work[g][n].t = d
\* To prepare r now would share a type with g that is not laid out.
Conflict(r, g) == /\ Busy(g)
                  /\ \E d \in Uses(r) \cap Uses(asked[g]) : Unfinished(d) \/ UnderWork(d)

Fail(g, error) == /\ stage' = [stage EXCEPT ![g] = error]
                  /\ tainted' = tainted \cup {work[g][n].t : n \in DOMAIN work[g]}
                  /\ work' = [work EXCEPT ![g] = <<>>]
                  /\ UNCHANGED <<desc, asked, next, cif, left>>

\* The checks before anything is written to the interface.
Refusal(r) == CASE r.variadic /\ r.fixed > Len(r.args) -> "tooManyFixed"
                [] ~(r.variadic /\ r.fixed > Len(r.args)) /\ ~r.known -> "invalidCall"
                [] OTHER -> "none"
Begin(g, r) ==
  /\ ~Busy(g) /\ left[g] > 0
  /\ Synchronized => \A h \in Goroutines \ {g} : ~Conflict(r, h)
  /\ asked' = [asked EXCEPT ![g] = r]
  /\ left' = [left EXCEPT ![g] = @ - 1]
  /\ stage' = [stage EXCEPT ![g] = IF Refusal(r) = "none" THEN "enter" ELSE Refusal(r)]
  /\ next' = [next EXCEPT ![g] = 1]
  /\ UNCHANGED <<desc, work, cif, tainted>>

\* Descriptor d is come to from the activations s: initializeCompositeType is
\* entered for a struct with no Size, and refuses one with no members.
Enter(g, d, s) ==
  IF Unfinished(d) /\ Members(d) = <<>> THEN Fail(g, "noMembers")
  ELSE /\ work' = [work EXCEPT ![g] =
                     IF Unfinished(d) THEN Append(s, [t |-> d, i |-> 1, at |-> "size"]) ELSE s]
       /\ stage' = [stage EXCEPT ![g] = "valid"]
       /\ UNCHANGED <<desc, asked, next, cif, tainted, left>>

\* The result's type, then those of the arguments: laid out if need be, checked.
This(g) == Types(asked[g])[next[g]]
EnterType(g) == stage[g] = "enter" /\ Enter(g, This(g), <<>>)
CheckType(g) ==
  /\ stage[g] = "valid" /\ work[g] = <<>>
  /\ IF Declared[This(g)].kind = "invalid" THEN Fail(g, "invalidType")
     ELSE LET last == next[g] = Len(Types(asked[g]))
          IN  /\ stage' = [stage EXCEPT ![g] = IF last THEN "classify" ELSE "enter"]
              /\ next' = [next EXCEPT ![g] = IF last THEN 1 ELSE @ + 1]
              /\ cif' = IF last THEN [cif EXCEPT ![g].sizes = <<>>] ELSE cif
              /\ UNCHANGED <<desc, asked, work, tainted, left>>

\* preparePlatformSpecific reads the size of the result and of every argument.
Classify(g) ==
  /\ stage[g] = "classify" /\ next[g] <= Len(Types(asked[g]))
  /\ cif' = [cif EXCEPT ![g].sizes = Append(@, desc[This(g)].size)]
  /\ next' = [next EXCEPT ![g] = @ + 1]
  /\ UNCHANGED <<desc, stage, asked, work, tainted, left>>
\* Eightbytes of all but the first size, which is the result's.
Total(sizes) ==
  LET sum[k \in 1..Len(sizes)] == IF k = 1 THEN 0 ELSE sum[k - 1] + (sizes[k] + 7) \div 8
  IN  sum[Len(sizes)]
\* Mutants: the result takes up room, too; the number of fixed arguments is lost.
Room_Result(sizes) == Total(<<0>> \o sizes) <= Capacity
FixedArgCount_Old(g) == cif[g].fixed
Room(sizes) == Total(sizes) <= Capacity
\* PrepareCallInterface itself leaves FixedArgCount as it was.
FixedArgCount(g) == IF asked[g].variadic THEN asked[g].fixed ELSE cif[g].fixed
Prepared(g) ==
  /\ stage[g] = "classify" /\ next[g] > Len(Types(asked[g]))
  /\ IF Room(cif[g].sizes)
     THEN /\ stage' = [stage EXCEPT ![g] = "ready"]
          /\ cif' = [cif EXCEPT ![g].fixed = FixedArgCount(g)]
          /\ UNCHANGED <<desc, asked, next, work, tainted, left>>
     ELSE Fail(g, "tooManyArguments")
--------------------------------------------------------------------------------
(* initializeCompositeType: the innermost activation does a statement.      *)

\* Mutant: an activation is not left.
Below_All(g) == work[g]
Below(g) == SubSeq(work[g], 1, Len(work[g]) - 1)
Top(g) == work[g][Len(work[g])]
At(g, at) == work[g] # <<>> /\ Top(g).at = at
Own(g) == desc[Top(g).t]
Member(g) == Members(Top(g).t)[Top(g).i]
Then(g, at) == work' = [work EXCEPT ![g] = Append(Below(g), [Top(g) EXCEPT !.at = at])]
\* Size and Alignment are assigned, then comes the next statement.
Assign(g, size, alignment, at) ==
  /\ desc' = [desc EXCEPT ![Top(g).t] = [size |-> size, align |-> alignment]]
  /\ Then(g, at)
  /\ UNCHANGED <<stage, asked, next, cif, tainted, left>>
align(value, alignment) == IF alignment = 0 THEN 0 ELSE AlignUp(value, alignment)

ResetSize(g) == At(g, "size") /\ Assign(g, 0, Own(g).align, "align")
ResetAlign(g) == At(g, "align") /\ Assign(g, Own(g).size, 0, "member")
EnterMember(g) == /\ At(g, "member") /\ Top(g).i <= Len(Members(Top(g).t))
                  /\ Enter(g, Member(g), Append(Below(g), [Top(g) EXCEPT !.at = "valid"]))
CheckMember(g) == /\ At(g, "valid")
                  /\ IF Declared[Member(g)].kind = "invalid" THEN Fail(g, "invalidType")
                     ELSE /\ Then(g, "start")
                          /\ UNCHANGED <<desc, stage, asked, next, cif, tainted, left>>
AlignMember(g) ==
  At(g, "start") /\ Assign(g, align(Own(g).size, desc[Member(g)].align), Own(g).align, "add")
AddMember(g) ==
  At(g, "add") /\ Assign(g, Own(g).size + desc[Member(g)].size, Own(g).align, "max")
\* The largest alignment so far; on to the next member.
MaxAlign(g) ==
  /\ At(g, "max")
  /\ desc' = [desc EXCEPT ![Top(g).t].align =
                IF desc[Member(g)].align > @ THEN desc[Member(g)].align ELSE @]
  /\ work' = [work EXCEPT ![g] =
                Append(Below(g), [t |-> Top(g).t, i |-> Top(g).i + 1, at |-> "member"])]
  /\ UNCHANGED <<stage, asked, next, cif, tainted, left>>
\* Mutant: the size is not rounded up to the alignment.
FinalSize_End(g) == Own(g).size
FinalSize(g) == align(Own(g).size, Own(g).align)
\* After the last member: the final size, and back to the caller.
Finish(g) == /\ At(g, "member") /\ Top(g).i > Len(Members(Top(g).t))
             /\ desc' = [desc EXCEPT ![Top(g).t].size = FinalSize(g)]
             /\ work' = [work EXCEPT ![g] = Below(g)]
             /\ UNCHANGED <<stage, asked, next, cif, tainted, left>>
initializeCompositeType(g) ==
  \/ ResetSize(g) \/ ResetAlign(g) \/ EnterMember(g) \/ CheckMember(g)
  \/ AlignMember(g) \/ AddMember(g) \/ MaxAlign(g) \/ Finish(g)

Init == /\ desc = [d \in Descriptors |-> [size |-> Declared[d].size, align |-> Declared[d].align]]
        /\ stage = [g \in Goroutines |-> "idle"]
        /\ asked \in [Goroutines -> {CHOOSE r \in Requests : TRUE}]
        /\ next = [g \in Goroutines |-> 1]
        /\ work = [g \in Goroutines |-> <<>>]
        /\ cif = [g \in Goroutines |-> [sizes |-> <<>>, fixed |-> 0]]
        /\ tainted = {}
        /\ left = [g \in Goroutines |-> Preparations]
Next == \E g \in Goroutines :
          \/ \E r \in Requests : Begin(g, r)
          \/ EnterType(g) \/ CheckType(g) \/ Classify(g) \/ Prepared(g)
          \/ initializeCompositeType(g)
Spec == Init /\ [][Next]_vars
--------------------------------------------------------------------------------
\* The C layout of a type.
Right ==
  LET layout[d \in Descriptors] ==
        IF Declared[d].size > 0 \/ Members(d) = <<>>
        THEN [size |-> Declared[d].size, align |-> Declared[d].align]
        ELSE LET ms == [i \in DOMAIN Members(d) |-> layout[Members(d)[i]]]
                 most == CHOOSE a \in {ms[i].align : i \in DOMAIN ms} :
                           \A i \in DOMAIN ms : ms[i].align <= a
             IN  [size |-> AlignUp(MemberEnds(ms)[Len(ms)], most), align |-> most]
  IN  layout
\* No invalid type in what is to be laid out, and no struct without members.
WellFormed(d) ==
  \A e \in Nested[d] :
    /\ Declared[e].kind # "invalid"
    /\ Declared[e].kind = "struct" => Declared[e].size > 0 \/ Members(e) # <<>>

\* A descriptor nobody is laying out is as the program wrote it or has the C
\* layout, whoever prepares, whatever failed and whatever it is nested in:
\* initializeCompositeType leaves no other trace in a well-formed type.
Intact ==
  \A d \in Descriptors :
    WellFormed(d) /\ ~UnderWork(d) =>
      desc[d] \in {[size |-> Declared[d].size, align |-> Declared[d].align], Right[d]}

\* An interface that is ready was classified with the C layout of its types, and
\* every call through it reads the same sizes, while other goroutines prepare
\* theirs; it knows its fixed arguments.  An ill-formed type gets through only
\* after a preparation that gave up on it: its Size is no longer zero then.
PreparedIsRight ==
  \A g \in Goroutines :
    stage[g] = "ready" =>
      /\ asked[g].variadic => cif[g].fixed = asked[g].fixed
      /\ \A k \in DOMAIN Types(asked[g]) :
           LET d == Types(asked[g])[k]
           IN  IF WellFormed(d) THEN cif[g].sizes[k] = Right[d].size /\ desc[d].size = Right[d].size
               ELSE Nested[d] \cap tainted # {}

\* A preparation fails for what is wrong with its own request, not for what
\* another goroutine does with a type they share.
RefusedRightly ==
  \A g \in Goroutines :
    LET types == Types(asked[g])
    IN  /\ stage[g] \in {"noMembers", "invalidType"} =>
             \E k \in DOMAIN types : ~WellFormed(types[k])
        /\ stage[g] = "tooManyArguments" /\ (\A k \in DOMAIN types : WellFormed(types[k])) =>
             Total([k \in DOMAIN types |-> Right[types[k]].size]) > Capacity

\* ffi/ffi.go:71: preparing is safe on goroutines with different interfaces.
SharingIsSafe ==
  \A g \in Goroutines :
    stage[g] = "ready" =>
      \A k \in DOMAIN Types(asked[g]) :
        cif[g].sizes[k] = Right[Types(asked[g])[k]].size
================================================================================
