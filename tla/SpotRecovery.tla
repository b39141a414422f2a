---------------------------- MODULE SpotRecovery ----------------------------
(***************************************************************************)
(* A Spot host is reclaimed and its state volume taken over by an          *)
(* On-Demand standby (node-agent/main.py, sandbox-api/recovery.py).        *)
(*                                                                         *)
(* The host's agent keeps the volume and checkpoints its guests into it;   *)
(* an operator's recovery pass claims a standby, attaches and mounts the   *)
(* volume there and resumes the guests.  A pass is interrupted by a crash  *)
(* between any two accesses to shared state, and the next pass starts over *)
(* from what it finds.  Recovery takes no lease of a sandbox; the          *)
(* reconcile workers, which do, go on suspending, resuming and deleting.   *)
(*                                                                         *)
(* A session is named by the reclaimed host: an agent evacuates once.      *)
(* One pass at a time: the leader's, that ends or dies with its replica    *)
(* before another replica leads.                                           *)
(***************************************************************************)
EXTENDS StateVolume

VARIABLES
    rec,        \* per sandbox: the record
    lease,      \* per sandbox: who holds its lease
    work,       \* per sandbox: the reconcile worker's operation
    hb,         \* per host: its heartbeat in the registry
    claim,      \* per standby: recovery_claim_id
    rclaim,     \* per Spot host: repatriation_claim_id, with the volume
                \* it is going to replace
    evac,       \* per Spot host: how far its agent's evacuation is
    ck,         \* per sandbox: its checkpoint job in the evacuation
    past,       \* hosts whose termination deadline has passed
    pass,       \* the leader's pass
    job         \* per sandbox: its job in the pass; a host is where the
                \* guest was resumed

recoveryVars ==
    <<host, at, keep, mnt, vm, snap, s3, budget, rec, lease, work, hb, claim,
      rclaim, evac, ck, past, pass, job>>

RECOVERY_STATES ==
    {"checkpointing", "checkpointed", "attaching", "recovering",
     "recovery_failed"}
Recoverable == {"checkpointed", "attaching", "recovering"}

RecState == RECOVERY_STATES \cup
    {"running", "suspending", "suspended", "resuming", "destroying", "failed",
     "repatriating", "none"}

Record == [state : RecState,        \* "none": no item
           sess  : Spot \cup {None}, \* recovery_session_id, source volume
           tgt   : Place,           \* recovery_target_node, _instance_id
           node  : Place,
           orig  : RecState,         \* repatriation_original_state
           saved : BOOLEAN]          \* repatriation_checkpointed

NoRecord == [state |-> "none", sess |-> None, tgt |-> None, node |-> None,
             orig |-> "none", saved |-> FALSE]

\* What the updates of a record set.
Journaled(r, state, n) == [r EXCEPT !.state = state, !.sess = n]
Bound(r, state, n) == [r EXCEPT !.state = state, !.tgt = n]
Placed(r, n) == [r EXCEPT !.state = "running", !.node = n]

NoWork == [kind |-> "none", at |-> None, res |-> "none"]

RecoveryPc == {"lookup", "claim", "mark", "attach", "mount", "resume"}
RepatriationPc ==
    {"lease", "empty", "discard", "target", "mark2", "checkpoint", "unmount",
     "detach", "unmount2", "detach2", "attach2", "mount2", "restore",
     "release", "terminate"}

\* src: the session's source or the host given back; view: the records the
\* pass works on; pend: those it gives up; lost: a lease renewal failed.
Pass == [pc : {"idle"} \cup RecoveryPc \cup RepatriationPc,
         src : Place, tgt : Place,
         view : SUBSET Sandbox, pend : SUBSET Sandbox, lost : BOOLEAN]

Idle == [pc |-> "idle", src |-> None, tgt |-> None, view |-> {}, pend |-> {},
         lost |-> FALSE]

\* A worker's operation, a host's item in the registry, a claim on a Spot host,
\* a sandbox's job.
Operation == [kind : {"none", "suspend", "resume", "delete"}, at : Place,
              res : {"none", "ok", "error"}]
Item == [listed : BOOLEAN, vol : Volume \cup {None},
         vms : 0 .. Cardinality(Sandbox), draining : BOOLEAN]
Claim == [by : Spot \cup {None}, vol : Volume \cup {None}]
Job == Node \cup {"none", "todo", "asked", "ended", "failed"}

NoJob == [s \in Sandbox |-> "none"]

RecoveryTypeOK ==
    /\ StateVolumeTypeOK
    /\ rec \in [Sandbox -> Record]
    /\ lease \in [Sandbox -> {"none", "worker", "pass"}]
    /\ work \in [Sandbox -> Operation]
    /\ hb \in [Node -> Item]
    /\ claim \in [Standby -> Spot \cup {None}]
    /\ rclaim \in [Spot -> Claim]
    /\ evac \in [Spot -> {"calm", "detected", "saving", "over"}]
    /\ ck \in [Sandbox -> {"none", "listed", "open", "written", "ended"}]
    /\ past \in SUBSET Spot
    /\ pass \in Pass
    /\ job \in [Sandbox -> Job]

Unclaimed == [by |-> None, vol |-> None]

RecoveryInit ==
    /\ StateVolumeInit
    /\ rec = [s \in Sandbox |->
                [NoRecord EXCEPT !.state = vm[Source][s], !.node = Source]]
    /\ lease = [s \in Sandbox |-> "none"]
    /\ work = [s \in Sandbox |-> NoWork]
    /\ hb = [n \in Node |->
               [listed |-> n \notin Late, vol |-> mnt[n],
                vms |-> Cardinality(Resident(n)), draining |-> FALSE]]
    /\ claim = [n \in Standby |-> None]
    /\ rclaim = [n \in Spot |-> Unclaimed]
    /\ evac = [n \in Spot |-> "calm"]
    /\ ck = [s \in Sandbox |-> "none"]
    /\ past = {}
    /\ pass = Idle
    /\ job = NoJob

-----------------------------------------------------------------------------
(* Groups of variables an action may leave alone. *)
ec2 == <<host, at, keep>>
agents == <<mnt, vm, snap, s3>>
registry == <<hb, claim, rclaim>>
reclaim == <<evac, ck, past>>
workers == <<lease, work>>
passes == <<pass, job>>

-----------------------------------------------------------------------------
(* The node-agent. *)

\* _heartbeat_once: one update that leaves the claims on the item alone.
Beat(n) == [listed |-> TRUE, vol |-> mnt[n],
            vms |-> Cardinality(Resident(n)),
            draining |-> n \in Spot /\ evac[n] # "calm"]

Heartbeat(n) ==
    /\ Up(n)
    /\ hb[n] # Beat(n)
    /\ hb' = [hb EXCEPT ![n] = Beat(n)]
    /\ UNCHANGED <<ec2, agents, budget, rec, workers, claim, rclaim, reclaim,
                   passes>>

\* The host is no longer in list_active_nodes.  (A Spot host that ended was
\* draining, so that nobody chooses it: whether it is listed tells nothing.)
HeartbeatExpire(n) ==
    /\ n \in Standby /\ hb[n].listed /\ ~Up(n)
    /\ hb' = [hb EXCEPT ![n].listed = FALSE]
    /\ UNCHANGED <<ec2, agents, budget, rec, workers, claim, rclaim, reclaim,
                   passes>>

\* _update_sandbox_recovery: best effort, and never a new item.
Journal(s, state, n) ==
    \/ /\ rec' = IF rec[s].state = "none" THEN rec
                 ELSE [rec EXCEPT ![s] = Journaled(@, state, n)]
       /\ UNCHANGED budget
    \/ Spend /\ UNCHANGED rec

\* The watcher sees an interruption notice or a rebalance recommendation and
\* acts on both alike: _evacuate_local lists the running guests.  A host
\* without any sandbox state is left to lose its volume.
Detect(n) ==
    /\ Up(n) /\ n = Source /\ evac[n] = "calm"
    /\ LET empty == n # Home \/ \A s \in Sandbox : snap[s] = "gone"
       IN  evac' = [evac EXCEPT ![n] =
                      IF RunningOn(n) = {} /\ empty THEN "over" ELSE "detected"]
    /\ ck' = [s \in Sandbox |-> IF s \in RunningOn(n) THEN "listed" ELSE ck[s]]
    /\ UNCHANGED <<ec2, agents, budget, rec, workers, registry, past,
                   passes>>

\* _preserve_state_volume: the volume shall outlive the host.  If it cannot,
\* every listed sandbox is given up and goes on running.
Preserve(n) ==
    /\ Up(n) /\ evac[n] = "detected"
    /\ \/ /\ mnt[n] # None /\ at[mnt[n]] = n
          /\ keep' = keep \cup {mnt[n]}
          /\ evac' = [evac EXCEPT ![n] = "saving"]
          /\ UNCHANGED <<budget, rec, ck>>
       \/ /\ Spend
          /\ rec' = [s \in Sandbox |->
                IF ck[s] = "listed" /\ rec[s].state # "none"
                THEN Journaled(rec[s], "recovery_failed", n)
                ELSE rec[s]]
          /\ ck' = [s \in Sandbox |->
                IF ck[s] = "listed" THEN "ended" ELSE ck[s]]
          /\ evac' = [evac EXCEPT ![n] = "over"]
          /\ UNCHANGED keep
    /\ UNCHANGED <<host, at, agents, workers, registry, past, passes>>

\* _checkpoint_one: the sandbox is journaled, ...
CkStart(n, s) ==
    /\ Up(n) /\ evac[n] = "saving" /\ ck[s] = "listed"
    /\ Journal(s, "checkpointing", n)
    /\ ck' = [ck EXCEPT ![s] = "open"]
    /\ UNCHANGED <<ec2, agents, workers, registry, evac, past, passes>>

\* ... suspended on the volume, ...
CkWrite(n, s) ==
    /\ evac[n] = "saving" /\ ck[s] = "open"
    /\ Suspends(n, s)
    /\ Suspend(n, s, FALSE)
    /\ ck' = [ck EXCEPT ![s] = "written"]
    /\ UNCHANGED <<ec2, mnt, budget, rec, workers, registry, evac, past,
                   passes>>

\* ... and journaled again; ...
CkDone(n, s) ==
    /\ Up(n) /\ evac[n] = "saving" /\ ck[s] = "written"
    /\ Journal(s, "checkpointed", n)
    /\ ck' = [ck EXCEPT ![s] = "ended"]
    /\ UNCHANGED <<ec2, agents, workers, registry, evac, past, passes>>

\* ... or the suspend fails, or there is no running guest any more, or no
\* time left.
CkFail(n, s) ==
    /\ Up(n) /\ evac[n] = "saving" /\ ck[s] = "open"
    /\ rec' = IF rec[s].state = "none" THEN rec
              ELSE [rec EXCEPT ![s] = Journaled(@, "recovery_failed", n)]
    /\ \/ (~Suspends(n, s) \/ n \in past) /\ UNCHANGED budget
       \/ Suspends(n, s) /\ n \notin past /\ Spend
    /\ ck' = [ck EXCEPT ![s] = "ended"]
    /\ UNCHANGED <<ec2, agents, workers, registry, evac, past, passes>>

-----------------------------------------------------------------------------
(* EC2. *)

\* The termination deadline the agent wrote to the records has passed.
Deadline(n) ==
    /\ evac[n] # "calm" /\ n \notin past
    /\ past' = past \cup {n}
    /\ UNCHANGED <<ec2, agents, budget, rec, workers, registry, evac, ck,
                   passes>>

\* EC2 takes the Spot host; what its agent was doing ends with it.
Terminate(n) ==
    /\ Up(n) /\ n \in past
    /\ End(n)
    /\ ck' = [s \in Sandbox |-> IF ck[s] = "none" THEN "none" ELSE "ended"]
    /\ UNCHANGED <<keep, snap, s3, budget, rec, workers, registry, evac,
                   past, passes>>

\* A standby is lost before it has taken a volume over.
StandbyLost(n) ==
    /\ Up(n) /\ mnt[n] = None /\ Resident(n) = {}
    /\ Spend
    /\ End(n)
    /\ UNCHANGED <<keep, snap, s3, rec, workers, registry, reclaim, passes>>

\* The node group starts a standby that was asked for.
StandbyJoins(n) ==
    /\ host[n] = "ordered"
    /\ host' = [host EXCEPT ![n] = "up"]
    /\ UNCHANGED <<at, keep, agents, budget, rec, workers, registry, reclaim,
                   passes>>

-----------------------------------------------------------------------------
(* The reconcile workers, one operation per sandbox under its lease. *)

MayStart(k, state) ==
    \/ k = "suspend" /\ state = "running"
    \/ k = "resume" /\ state = "suspended"
    \/ k = "delete" /\ state # "none"

Marked(k) == IF k = "suspend" THEN "suspending"
             ELSE IF k = "resume" THEN "resuming" ELSE "destroying"

\* The host driver.resume asks: the recovery target before anything else.
ResumeNode(r) == IF r.tgt # None THEN r.tgt ELSE r.node

\* The lease is taken and the record is marked.  Records in a recovery are
\* only published, but a delete asks for no state.
WorkStart(s, k) ==
    /\ s \in Asked /\ lease[s] = "none" /\ MayStart(k, rec[s].state)
    /\ k # "delete" => Up(ResumeNode(rec[s]))
    /\ Spend
    /\ lease' = [lease EXCEPT ![s] = "worker"]
    /\ work' = [work EXCEPT ![s] =
                  [kind |-> k, res |-> "none",
                   at |-> IF k = "resume" THEN ResumeNode(rec[s])
                          ELSE rec[s].node]]
    /\ rec' = [rec EXCEPT ![s].state = Marked(k)]
    /\ UNCHANGED <<ec2, agents, registry, reclaim, passes>>

\* The node-agent's answer.
WorkCall(s) ==
    LET n == work[s].at
        Possible == /\ work[s].kind = "suspend" => Suspends(n, s)
                    /\ work[s].kind = "resume" => Resumes(n, s)
                    /\ work[s].kind = "delete" => Up(n)
    IN
    /\ work[s].kind # "none" /\ work[s].res = "none"
    /\ \/ /\ Possible
          /\ \/ work[s].kind = "suspend" /\ Suspend(n, s, TRUE)
             \/ work[s].kind = "resume" /\ Resume(n, s)
                  /\ UNCHANGED <<snap, s3>>
             \/ work[s].kind = "delete" /\ Destroy(n, s) /\ UNCHANGED s3
          /\ work' = [work EXCEPT ![s].res = "ok"]
       \/ /\ ~Possible
          /\ work' = [work EXCEPT ![s].res = "error"]
          /\ UNCHANGED <<vm, snap, s3>>
    /\ UNCHANGED <<ec2, mnt, budget, rec, lease, registry, reclaim, passes>>

\* The outcome is written, the lease released.  The end of a suspend is
\* conditional on "suspending"; its failure writes "running" whatever the
\* record says.
WorkDone(s) ==
    /\ work[s].res # "none"
    /\ \/ /\ work[s].kind = "suspend" /\ work[s].res = "ok"
          /\ rec' = IF rec[s].state = "suspending"
                    THEN [rec EXCEPT ![s].state = "suspended"] ELSE rec
          /\ UNCHANGED <<snap, s3>>
       \/ /\ work[s].kind = "resume" /\ work[s].res = "ok"
          /\ rec' = [rec EXCEPT ![s] = Placed(@, work[s].at)]
          /\ Publish(s)
       \/ /\ work[s].kind = "delete" /\ work[s].res = "ok"
          /\ rec' = [rec EXCEPT ![s] = NoRecord]
          /\ UNCHANGED <<snap, s3>>
       \/ /\ work[s].res = "error"
          /\ rec' = [rec EXCEPT ![s].state =
                       IF work[s].kind = "suspend" THEN "running" ELSE "failed"]
          /\ UNCHANGED <<snap, s3>>
    /\ work' = [work EXCEPT ![s] = NoWork]
    /\ lease' = [lease EXCEPT ![s] = "none"]
    /\ UNCHANGED <<ec2, mnt, vm, budget, registry, reclaim, passes>>

-----------------------------------------------------------------------------
(* The recovery pass. *)

\* checkpoint_only records are those of a benchmark.
Group(n) == {s \in Sandbox : /\ rec[s].state \in RECOVERY_STATES
                             /\ rec[s].sess = n}

\* Faulty: the sandboxes that were given up are recovered as well.
AnyOf(n) == {s \in Group(n) : rec[s].state # "checkpointing"}

ViewOf(n) == {s \in Group(n) : rec[s].state \in Recoverable}
PendOf(n) == {s \in Group(n) : rec[s].state = "checkpointing"}

\* recovery_expected_count: how many guests the evacuation listed.
Expected == Cardinality({s \in Sandbox : ck[s] # "none"})
Completed(n) == Cardinality(Group(n) \ PendOf(n))

Goto(pc) == pass' = [pass EXCEPT !.pc = pc]

Onto(n, pc) == pass' = [pass EXCEPT !.pc = pc, !.tgt = n]

Begin(pc, n, view, pend) ==
    pass' = [Idle EXCEPT !.pc = pc, !.src = n, !.view = view, !.pend = pend]

Finish ==
    /\ pass' = Idle
    /\ job' = NoJob

\* reconcile_once, _recover_session: a session whose checkpoints are complete,
\* or whose deadline has passed.
RcRead(n) ==
    /\ pass.pc = "idle"
    /\ ViewOf(n) \cup PendOf(n) # {}
    /\ Completed(n) < Expected => n \in past
    /\ Begin("lookup", n, ViewOf(n), PendOf(n))
    /\ UNCHANGED <<ec2, agents, budget, rec, workers, registry, reclaim, job>>

\* What is still pending at the deadline is given up; get_recovery_claim.
RcLookup ==
    /\ pass.pc = "lookup"
    /\ rec' = [s \in Sandbox |->
                 IF s \in pass.pend
                 THEN [rec[s] EXCEPT !.state = "recovery_failed"] ELSE rec[s]]
    /\ \/ pass.view = {} /\ Finish
       \/ /\ pass.view # {}
          /\ \E n \in Standby :
                /\ hb[n].listed /\ claim[n] = pass.src
                /\ Onto(n, "mark")
          /\ UNCHANGED job
       \/ /\ pass.view # {}
          /\ ~\E n \in Standby : hb[n].listed /\ claim[n] = pass.src
          /\ Goto("claim")
          /\ UNCHANGED job
    /\ UNCHANGED <<ec2, agents, budget, workers, registry, reclaim>>

\* claim_recovery_standby: by the heartbeat, an empty standby without a
\* volume; by condition, nobody else's.
Claimable(n, session) ==
    /\ hb[n].listed /\ hb[n].vol = None /\ hb[n].vms = 0 /\ ~hb[n].draining
    /\ claim[n] \in {None, session}

RcClaim ==
    /\ pass.pc = "claim"
    /\ \/ \E n \in Standby :
             /\ Claimable(n, pass.src)
             /\ claim' = [claim EXCEPT ![n] = pass.src]
             /\ Onto(n, "mark")
             /\ UNCHANGED job
       \/ /\ ~\E n \in Standby : Claimable(n, pass.src)
          /\ Finish
          /\ UNCHANGED claim
    /\ UNCHANGED <<ec2, agents, budget, rec, workers, hb, rclaim, reclaim>>

\* force_update of every record of the list read before: without a condition.
RcMark ==
    /\ pass.pc = "mark"
    /\ rec' = [s \in Sandbox |->
                 IF s \in pass.view
                 THEN Bound(rec[s], "attaching", pass.tgt)
                 ELSE rec[s]]
    /\ Goto("attach")
    /\ UNCHANGED <<ec2, agents, budget, workers, registry, reclaim, job>>

\* The target is validated with EC2; a volume that is attached elsewhere, or
\* gone, ends the pass.
RcAttach ==
    LET n == pass.tgt
        v == pass.src
    IN
    /\ pass.pc = "attach"
    /\ \/ /\ Up(n) /\ at[v] = None
          /\ Attach(v, n)
          /\ Goto("mount")
          /\ UNCHANGED job
       \/ /\ Up(n) /\ at[v] = n
          /\ Goto("mount")
          /\ UNCHANGED <<at, keep, job>>
       \/ /\ ~Up(n) \/ at[v] \notin {n, None}
          /\ Finish
          /\ UNCHANGED <<at, keep>>
    /\ UNCHANGED <<host, agents, budget, rec, workers, registry, reclaim>>

\* mount_recovery_volume; any exception leaves the records in "attaching".
RcMount ==
    /\ pass.pc = "mount"
    /\ \/ /\ Mounts(pass.tgt, pass.src)
          /\ Mount(pass.tgt, pass.src)
          /\ Goto("resume")
          /\ job' = [s \in Sandbox |->
                    IF s \in pass.view THEN "todo" ELSE "none"]
       \/ /\ ~Mounts(pass.tgt, pass.src)
          /\ Finish
          /\ UNCHANGED mnt
    /\ UNCHANGED <<ec2, budget, vm, snap, s3, rec, workers, registry, reclaim>>

\* _resume_one: "recovering" is written, ...
RcStart(s) ==
    /\ pass.pc = "resume" /\ job[s] = "todo"
    /\ rec' = [rec EXCEPT ![s] = Bound(@, "recovering", pass.tgt)]
    /\ job' = [job EXCEPT ![s] = "asked"]
    /\ UNCHANGED <<ec2, agents, budget, workers, registry, reclaim, pass>>

\* ... the host that the record names by now resumes the guest, ...
RcBoot(s) ==
    LET n == rec[s].tgt IN
    /\ pass.pc = "resume" /\ job[s] = "asked"
    /\ Resumes(n, s)
    /\ Resume(n, s)
    /\ job' = [job EXCEPT ![s] = n]
    /\ UNCHANGED <<ec2, mnt, snap, s3, budget, rec, workers, registry, reclaim,
                   pass>>

\* ... and the record is published as running, ...
RcDone(s) ==
    /\ pass.pc = "resume" /\ job[s] \in Node
    /\ rec' = [rec EXCEPT ![s] = Placed(@, job[s])]
    /\ Publish(s)
    /\ job' = [job EXCEPT ![s] = "ended"]
    /\ UNCHANGED <<ec2, mnt, vm, budget, workers, registry, reclaim, pass>>

\* ... or given up for good.
RcFail(s) ==
    /\ pass.pc = "resume" /\ job[s] = "asked"
    /\ \/ ~Resumes(rec[s].tgt, s) /\ UNCHANGED budget
       \/ Resumes(rec[s].tgt, s) /\ Spend
    /\ rec' = [rec EXCEPT ![s].state = "recovery_failed"]
    /\ job' = [job EXCEPT ![s] = "ended"]
    /\ UNCHANGED <<ec2, agents, workers, registry, reclaim, pass>>

\* _ensure_standby_capacity: unless a spare one is live or on its way, the
\* node group is asked for another standby.
Spare == {n \in Standby : hb[n].listed /\ hb[n].vol = None /\ hb[n].vms = 0
                          /\ ~hb[n].draining /\ claim[n] = None}
Coming == {n \in Standby : host[n] \in {"ordered", "up"} /\ ~hb[n].listed}

RcEnd ==
    /\ pass.pc = "resume"
    /\ \A s \in Sandbox : job[s] \in {"none", "ended"}
    /\ Finish
    /\ \/ /\ Spare \cup Coming = {}
          /\ \E n \in Standby : /\ host[n] = "absent"
                                /\ host' = [host EXCEPT ![n] = "ordered"]
       \/ /\ \/ Spare \cup Coming # {}
             \/ \A n \in Standby : host[n] # "absent"
          /\ UNCHANGED host
    /\ UNCHANGED <<at, keep, agents, budget, rec, workers, registry, reclaim>>

-----------------------------------------------------------------------------
\* The pass ends where it is: the operator dies and the leases it held run out,
\* or a request to an agent or to EC2 fails and the exception releases them.
Crash ==
    /\ pass.pc # "idle"
    /\ Spend
    /\ Finish
    /\ lease' = [s \in Sandbox |->
                   IF lease[s] = "pass" THEN "none" ELSE lease[s]]
    /\ UNCHANGED <<ec2, agents, rec, work, registry, reclaim>>

AgentStep ==
    \/ \E n \in Node : Heartbeat(n) \/ HeartbeatExpire(n)
    \/ \E n \in Spot : Detect(n) \/ Preserve(n)
    \/ \E n \in Spot, s \in Sandbox :
          CkStart(n, s) \/ CkWrite(n, s) \/ CkDone(n, s) \/ CkFail(n, s)

Ec2Step ==
    \/ \E n \in Spot : Deadline(n) \/ Terminate(n)
    \/ \E n \in Standby : StandbyLost(n) \/ StandbyJoins(n)

WorkStep ==
    \E s \in Sandbox :
        \/ \E k \in {"suspend", "resume", "delete"} : WorkStart(s, k)
        \/ WorkCall(s)
        \/ WorkDone(s)

RcStep ==
    \/ \E n \in Spot : RcRead(n)
    \/ RcLookup
    \/ RcClaim
    \/ RcMark
    \/ RcAttach
    \/ RcMount
    \/ \E s \in Sandbox :
          RcStart(s) \/ RcBoot(s) \/ RcDone(s) \/ RcFail(s)
    \/ RcEnd
=============================================================================
