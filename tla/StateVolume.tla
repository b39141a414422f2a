---------------------------- MODULE StateVolume ----------------------------
(***************************************************************************)
(* State volumes and the hosts they are attached to: what EC2 keeps of a   *)
(* volume, what a node-agent has mounted and runs, and which snapshots lie *)
(* on a volume (node-agent/main.py, ec2 as recovery.py uses it).           *)
(*                                                                         *)
(* Every Spot host boots with a state volume of its own, named by that     *)
(* host; a standby boots without one.  EC2 completes an attach or a detach *)
(* when it is asked to.                                                    *)
(***************************************************************************)
EXTENDS Integers, FiniteSets

CONSTANTS
    Sandbox,    \* sandboxes
    Spot,       \* Spot hosts, and their state volumes
    Standby,    \* On-Demand recovery hosts
    Late,       \* standbys the node group starts only when asked to
    Source,     \* the Spot host the sandboxes live on at first
    Asked,      \* bound: the sandboxes clients ask something of
    None,       \* no host, volume, session or lease holder
    Budget      \* bound: how many faults and client requests there may be

Node == Spot \cup Standby
Volume == Spot
Place == Node \cup {None}

ASSUME StateVolumeAssumption ==
    /\ IsFiniteSet(Sandbox)
    /\ None \notin Node \cup {"deleted"}
    /\ Node \cap {"deleted", "none", "todo", "asked", "ended", "failed"} = {}
    /\ Spot \cap Standby = {}
    /\ Late \subseteq Standby
    /\ Source \in Spot
    /\ Asked \subseteq Sandbox
    /\ Budget \in Nat

VARIABLES
    host,       \* instances: "absent", "ordered", "up" or "gone"
    at,         \* per volume: its host, None when available, or "deleted"
    keep,       \* volumes that survive their host's termination
    mnt,        \* per host: the state volume its agent has mounted
    vm,         \* per host and sandbox: the agent's runtime entry
    snap,       \* per sandbox: the snapshot on the volume, against the guest
    s3,         \* per sandbox: the copy in S3, against the guest
    budget      \* faults and requests still to come

volumeVars == <<host, at, keep, mnt, vm, snap, s3, budget>>

Copy == {"none", "stale", "current"}
Runtime == {"none", "running", "suspended"}

StateVolumeTypeOK ==
    /\ host \in [Node -> {"absent", "ordered", "up", "gone"}]
    /\ at \in [Volume -> Place \cup {"deleted"}]
    /\ keep \in SUBSET Volume
    /\ mnt \in [Node -> Volume \cup {None}]
    /\ vm \in [Node -> [Sandbox -> Runtime]]
    /\ snap \in [Sandbox -> Copy \cup {"gone"}]
    /\ s3 \in [Sandbox -> Copy]
    /\ budget \in 0 .. Budget

StateVolumeInit ==
    /\ host = [n \in Node |-> IF n \in Late THEN "absent" ELSE "up"]
    /\ at = [v \in Volume |-> v]
    /\ keep = {}
    /\ mnt = [n \in Node |-> IF n \in Spot THEN n ELSE None]
    /\ \E asleep \in SUBSET Asked :
          LET copy == [s \in Sandbox |->
                         IF s \in asleep THEN "current" ELSE "none"]
          IN  /\ vm = [n \in Node |-> [s \in Sandbox |->
                          IF n # Source THEN "none"
                          ELSE IF s \in asleep THEN "suspended" ELSE "running"]]
              /\ snap = copy
              /\ s3 = copy
    /\ budget = Budget

-----------------------------------------------------------------------------
\* A fault, or a client's request.
Spend == budget > 0 /\ budget' = budget - 1

Up(n) == n # None /\ host[n] = "up"
Resident(n) == {s \in Sandbox : vm[n][s] # "none"}
RunningOn(n) == {s \in Sandbox : vm[n][s] = "running"}

\* The volume that holds the sandboxes' directories.
Home == Source

-----------------------------------------------------------------------------
\* op_recovery_mount takes a volume that is attached here, on a host without
\* sandboxes, even when it is mounted already.
Mounts(n, v) == Up(n) /\ Resident(n) = {} /\ at[v] = n

Mount(n, v) == mnt' = [mnt EXCEPT ![n] = v]

\* Faulty: a volume is unmounted under running guests.
UnmountsUnder(n, v) == Up(n) /\ mnt[n] \in {v, None}

\* op_recovery_unmount refuses another volume, and while a guest runs.
Unmounts(n, v) ==
    /\ Up(n)
    /\ mnt[n] \in {v, None}
    /\ RunningOn(n) = {}

\* With nothing mounted the request is done already; otherwise the suspended
\* entries, which have no VMM, leave with the volume.
Unmount(n) ==
    /\ mnt' = [mnt EXCEPT ![n] = None]
    /\ vm' = [vm EXCEPT ![n] = [s \in Sandbox |->
                IF mnt[n] # None /\ @[s] = "suspended" THEN "none" ELSE @[s]]]

-----------------------------------------------------------------------------
\* op_suspend: the snapshot of a running guest is written, its VMM stopped.
\* The Spot path and the repatriation leave S3 alone.
Suspends(n, s) == Up(n) /\ vm[n][s] = "running"

Suspend(n, s, upload) ==
    /\ vm' = [vm EXCEPT ![n][s] = "suspended"]
    /\ snap' = [snap EXCEPT ![s] = "current"]
    /\ s3' = IF upload THEN [s3 EXCEPT ![s] = "current"] ELSE s3

\* What op_resume restores: the snapshot found under the mount point, else the
\* copy in S3.
Restored(n, s) ==
    IF mnt[n] = Home /\ snap[s] \in {"stale", "current"} THEN snap[s] ELSE s3[s]

Resumes(n, s) ==
    Up(n) /\ (vm[n][s] = "running" \/ Restored(n, s) # "none")

Resume(n, s) == vm' = [vm EXCEPT ![n][s] = "running"]

\* The sandbox is published as running: from here on clients write to its
\* guest, if there is one, and no copy has what they write.
Age(copy) == IF copy = "current" THEN "stale" ELSE copy
Publish(s) ==
    IF \E n \in Node : vm[n][s] = "running"
    THEN /\ snap' = [snap EXCEPT ![s] = Age(@)]
         /\ s3' = [s3 EXCEPT ![s] = Age(@)]
    ELSE UNCHANGED <<snap, s3>>

\* op_destroy: the guest stops, its directories go.
Destroy(n, s) ==
    /\ vm' = [vm EXCEPT ![n][s] = "none"]
    /\ snap' = [snap EXCEPT ![s] = IF mnt[n] = Home THEN "gone" ELSE @]

-----------------------------------------------------------------------------
\* attach_volume: a volume attached later survives its host.
Attach(v, n) ==
    /\ at' = [at EXCEPT ![v] = n]
    /\ keep' = keep \cup {v}

Detach(v) == at' = [at EXCEPT ![v] = None]

Delete(v) == at' = [at EXCEPT ![v] = "deleted"]

\* The instance ends with its guests; its volumes go with it unless they are
\* kept.
End(n) ==
    /\ host' = [host EXCEPT ![n] = "gone"]
    /\ mnt' = [mnt EXCEPT ![n] = None]
    /\ vm' = [vm EXCEPT ![n] = [s \in Sandbox |-> "none"]]
    /\ at' = [v \in Volume |->
                IF at[v] # n THEN at[v]
                ELSE IF v \in keep THEN None ELSE "deleted"]
=============================================================================
