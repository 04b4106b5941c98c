--------------------------- MODULE MCUniversalBridge ---------------------------
(* Instances of UniversalBridge for TLC: sets of hosts. *)
EXTENDS UniversalBridgeProps

\* Every combination.
AllHosts == {h \in Host : h.aborts => h.preload}
\* Hosts whose environment fits the bridge's buffer.
PlainHosts == {h \in AllHosts : ~h.bigEnv}
================================================================================
