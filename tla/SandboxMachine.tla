--------------------------- MODULE SandboxMachine ---------------------------
(***************************************************************************)
(* What the control plane promises of one sandbox, without operators,      *)
(* nodes, records or leases: one guest, whose memory survives every        *)
(* suspend and resume, and which runs only while the sandbox is listed.    *)
(* Memory is the version of the guest's last write; 1 is a fresh boot.     *)
(***************************************************************************)
EXTENDS Naturals

VARIABLES
    mode,       \* where the sandbox is in its life
    memory      \* the guest's memory

machineVars == <<mode, memory>>

Mode == {"unlisted", "new", "running", "stopped", "erased", "gone"}

Init == mode = "unlisted" /\ memory = 0

\* The sandbox is listed: it may run from now on.
List == mode = "unlisted" /\ mode' = "new" /\ memory' = memory

\* The one fresh boot of its life.
Boot == mode = "new" /\ mode' = "running" /\ memory' = 1

Write == mode = "running" /\ mode' = "running" /\ memory' = memory + 1

Stop == mode = "running" /\ mode' = "stopped" /\ memory' = memory

\* The guest continues with the memory it stopped with.
Restore == mode = "stopped" /\ mode' = "running" /\ memory' = memory

\* Destroyed on its node, still listed.
Erase == mode \in {"running", "stopped"} /\ mode' = "erased" /\ memory' = memory

\* Deleted for good, and only with nothing left on a node.
Drop == mode \in {"unlisted", "new", "erased"} /\ mode' = "gone" /\ memory' = memory

Next == List \/ Boot \/ Write \/ Stop \/ Restore \/ Erase \/ Drop

Spec == Init /\ [][Next]_machineVars
=============================================================================
