---------------------------- MODULE StartupContract ----------------------------
(***************************************************************************)
(* What the universal ("Profile U") start-up promises about a process,     *)
(* before anything is said of how: a process that is starting either       *)
(* reaches main with a libc it can call ("ffi") or reaches main as a       *)
(* pure-Go program that knows it has none ("pure"), and keeps that answer  *)
(* for as long as it runs.  It may stop at any time.  It is never in a     *)
(* third state.  UniversalBridge implements this contract.                 *)
(***************************************************************************)
CONSTANT Pids
VARIABLE phase

Phases == {"absent", "starting", "ffi", "pure"}

\* A process not running now starts.
Start(p) == /\ phase[p] = "absent"
            /\ phase' = [phase EXCEPT ![p] = "starting"]

\* A starting process settles on its answer (hostlibc.Missing is set once,
\* before main, and nothing clears it).
Settle(p) == /\ phase[p] = "starting"
             /\ \E answer \in {"ffi", "pure"} :
                   phase' = [phase EXCEPT ![p] = answer]

\* A process exits or is killed.
Stop(p) == /\ phase[p] # "absent"
           /\ phase' = [phase EXCEPT ![p] = "absent"]

Init == phase = [p \in Pids |-> "absent"]
Next == \E p \in Pids : Start(p) \/ Settle(p) \/ Stop(p)
Spec == Init /\ [][Next]_phase
================================================================================
