---------------------------- MODULE GuestMemory ----------------------------
(***************************************************************************)
(* What suspend and resume promise of one guest: its memory changes only   *)
(* while it runs, and it wakes with the memory it fell asleep with.  Some  *)
(* failures void the promise; SnapshotFiles names them one by one.         *)
(***************************************************************************)
CONSTANTS Page, Value

VARIABLES
    phase,      \* "running", "suspended", or "void" once nothing is promised
    memory      \* what every page of the guest holds

guestVars == <<phase, memory>>

Init == phase = "running" /\ memory \in [Page -> Value]

Write ==
    /\ phase = "running" /\ phase' = "running"
    /\ memory' \in [Page -> Value]

Sleep == phase = "running" /\ phase' = "suspended" /\ memory' = memory

Wake == phase = "suspended" /\ phase' = "running" /\ memory' = memory

Void == phase' = "void"

Next == Write \/ Sleep \/ Wake \/ Void

Spec == Init /\ [][Next]_guestVars
=============================================================================
