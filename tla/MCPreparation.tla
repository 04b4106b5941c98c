----------------------------- MODULE MCPreparation -----------------------------
(* Instances of CallPreparation for TLC: what the program declares and asks. *)
EXTENDS CallPreparation, TLC

Plain(n) == [kind |-> "scalar", size |-> n, align |-> n, members |-> <<>>]
StructOf(ms) == [kind |-> "struct", size |-> 0, align |-> 0, members |-> ms]

\* A struct, one it is nested in, one that the program laid out, with a member
\* nobody looks at then, and ill-formed ones: an unknown kind in the middle and a nested struct without members.
AllDeclared ==
  [byte   |-> Plain(1),
   long   |-> Plain(8),
   inner  |-> StructOf(<<"long", "byte">>),
   outer  |-> StructOf(<<"byte", "inner">>),
   ready  |-> [StructOf(<<"byte", "alien">>) EXCEPT !.size = 2, !.align = 1],
   alien  |-> [Plain(1) EXCEPT !.kind = "invalid"],
   strange |-> StructOf(<<"byte", "alien">>),
   empty  |-> StructOf(<<>>),
   hollow |-> StructOf(<<"inner", "empty">>)]
AllDescriptors == DOMAIN AllDeclared

Ask(ret, args) == [ret |-> ret, args |-> args, known |-> TRUE, variadic |-> FALSE, fixed |-> 0]
Variadic(ret, args, n) == [Ask(ret, args) EXCEPT !.variadic = TRUE, !.fixed = n]

AllRequests ==
  {Ask("byte", <<"outer">>), Ask("inner", <<"ready">>), Ask("outer", <<"inner", "byte">>),
   Ask("byte", <<"strange">>), Ask("hollow", <<>>), Ask("alien", <<>>),
   Variadic("long", <<"inner", "inner", "inner">>, 1), Variadic("byte", <<"long", "inner">>, 1),
   Variadic("byte", <<>>, 1), [Ask("long", <<>>) EXCEPT !.known = FALSE]}

Swaps == Permutations(Goroutines)
\* Two goroutines that share one struct.
SharedRequests == {Ask("byte", <<"inner">>)}
================================================================================
