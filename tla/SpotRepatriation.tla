-------------------------- MODULE SpotRepatriation --------------------------
(***************************************************************************)
(* The way back: a recovery host gives its volume and its sandboxes to an  *)
(* empty Spot host and is terminated (sandbox-api/recovery.py).  The pass  *)
(* holds the leases of all sandboxes of the host.                          *)
(***************************************************************************)
EXTENDS SpotRecovery

vars == recoveryVars

\* Faulty: an interrupted handoff is in nobody's way but its own.
BlockingAll == RECOVERY_STATES \cup {"repatriating"}

Blocking == {"checkpointing", "checkpointed", "attaching", "recovering"}

\* Faulty: only what runs on the host is looked for.
Awake(n) == {s \in Sandbox : rec[s].tgt = n /\ rec[s].state = "running"}

Owned(n) == {s \in Sandbox : rec[s].tgt = n}

\* What this pass moves, and the volume it replaces on the target.
Moved == Home
Replaced == rclaim[pass.tgt].vol
Session == claim[pass.src]

\* What the updates of a record set.
Moving(r) == [r EXCEPT !.state = "repatriating",
                       !.orig = IF @ = "none" THEN r.state ELSE @]
Saved(r) == [r EXCEPT !.saved = TRUE, !.state = "repatriating"]
Back(r, state, n) == [r EXCEPT !.state = state, !.node = n, !.tgt = n]

Held == {s \in Sandbox : lease[s] = "pass"}

\* Faulty: the leases are left to run out.
KeepLeases == Finish /\ UNCHANGED lease

\* The pass ends, by an exception or not: _SandboxLeaseSet.release.
GiveUp ==
    /\ Finish
    /\ lease' = [s \in Sandbox |-> IF s \in Held THEN "none" ELSE lease[s]]

\* assert_held: no renewal has failed so far.
StillHeld == ~pass.lost

-----------------------------------------------------------------------------
\* _repatriate_recovery_hosts: a live host with a claim that is not a Spot
\* host, whose heartbeat shows no more sandboxes than the table does, none of
\* them in a recovery.
RpRead(n) ==
    /\ pass.pc = "idle"
    /\ hb[n].listed /\ claim[n] # None
    /\ hb[n].vms <= Cardinality(Owned(n))
    /\ \A s \in Owned(n) : rec[s].state \notin Blocking
    /\ Begin("lease", n, {}, {})
    /\ UNCHANGED <<ec2, agents, budget, rec, workers, registry, reclaim, job>>

\* _repatriate_host: the consistent list, every lease of it or none.
RpLease ==
    LET owned == Owned(pass.src) IN
    /\ pass.pc = "lease"
    /\ \/ /\ \A s \in owned : lease[s] = "none"
          /\ lease' = [s \in Sandbox |-> IF s \in owned THEN "pass" ELSE lease[s]]
          /\ Begin(IF owned = {} THEN "empty" ELSE "target", pass.src, owned, {})
          /\ UNCHANGED job
       \/ /\ \E s \in owned : lease[s] # "none"
          /\ GiveUp
    /\ UNCHANGED <<ec2, agents, budget, rec, work, registry, reclaim>>

\* A renewal fails and the leases run out under the pass.
LeaseLost ==
    /\ pass.pc \in RepatriationPc /\ Held # {}
    /\ Spend
    /\ pass' = [pass EXCEPT !.lost = TRUE]
    /\ lease' = [s \in Sandbox |-> IF s \in Held THEN "none" ELSE lease[s]]
    /\ UNCHANGED <<ec2, agents, rec, work, registry, reclaim, job>>

-----------------------------------------------------------------------------
\* _repatriate_host_locked without records: a target that was claimed is let
\* go and its replaced volume deleted, which an attached volume refuses.
RpEmpty ==
    LET mine == {q \in Spot : hb[q].listed /\ rclaim[q].by = Session}
        doomed == {rclaim[q].vol : q \in mine}
    IN
    /\ pass.pc = "empty"
    /\ IF \A w \in doomed : at[w] \notin Node
       THEN /\ at' = [w \in Volume |->
                        IF w \in doomed THEN "deleted" ELSE at[w]]
            /\ rclaim' = [q \in Spot |->
                            IF q \in mine THEN Unclaimed ELSE rclaim[q]]
            /\ Goto("discard")
            /\ UNCHANGED <<lease, job>>
       ELSE GiveUp /\ UNCHANGED <<at, rclaim>>
    /\ UNCHANGED <<host, keep, agents, budget, rec, work, hb, claim, reclaim>>

\* The host's own volume, by its heartbeat, is quiesced, detached and deleted.
RpDiscard ==
    LET n == pass.src
        v == hb[n].vol
        attached == v # None /\ at[v] = n
    IN
    /\ pass.pc = "discard"
    /\ IF attached /\ ~Unmounts(n, v)
       THEN GiveUp /\ UNCHANGED <<at, mnt, vm>>
       ELSE /\ IF attached THEN Unmount(n) ELSE UNCHANGED <<mnt, vm>>
            /\ at' = IF v # None /\ at[v] \in {n, None}
                     THEN [at EXCEPT ![v] = "deleted"] ELSE at
            /\ Goto("terminate")
            /\ UNCHANGED <<lease, job>>
    /\ UNCHANGED <<host, keep, snap, s3, budget, rec, work, registry, reclaim>>

\* claim_repatriation_target: an empty Spot host with a volume.
Reservable(q, session) ==
    /\ hb[q].listed /\ hb[q].vol # None /\ hb[q].vms = 0 /\ ~hb[q].draining
    /\ rclaim[q].by \in {None, session}

\* The claim of an earlier pass, or a new one; the target is validated.
RpTarget ==
    LET session == Session
        mine == {q \in Spot : hb[q].listed /\ rclaim[q].by = session}
        Take(q) == IF Up(q)
                   THEN /\ Onto(q, "mark2")
                        /\ UNCHANGED <<lease, job>>
                   ELSE GiveUp
    IN
    /\ pass.pc = "target"
    /\ \/ /\ \E q \in mine : Take(q)
          /\ UNCHANGED rclaim
       \/ /\ mine = {}
          /\ \E q \in Spot :
                /\ Reservable(q, session)
                /\ rclaim' = [rclaim EXCEPT ![q] = [by |-> session,
                                                    vol |-> hb[q].vol]]
                /\ Take(q)
       \/ /\ mine = {} /\ ~\E q \in Spot : Reservable(q, session)
          /\ GiveUp
          /\ UNCHANGED rclaim
    /\ UNCHANGED <<ec2, agents, budget, rec, work, hb, claim, reclaim>>

\* The records are marked; what they were before the first attempt stays
\* written.
RpMark ==
    /\ pass.pc = "mark2"
    /\ rec' = [s \in Sandbox |->
         IF s \notin pass.view THEN rec[s]
         ELSE Moving(rec[s])]
    /\ Goto("checkpoint")
    /\ UNCHANGED <<ec2, agents, budget, workers, registry, reclaim, job>>

ToCheckpoint ==
    {s \in pass.view : rec[s].orig = "running" /\ ~rec[s].saved}

\* _checkpoint_for_repatriation: the running guest is suspended, ...
RpSave(s) ==
    LET n == pass.src IN
    /\ pass.pc = "checkpoint" /\ s \in ToCheckpoint
    /\ Suspends(n, s)
    /\ Suspend(n, s, FALSE)
    /\ UNCHANGED <<ec2, mnt, budget, rec, workers, registry, reclaim, passes>>

\* ... and the flag written, which a repeated pass takes up at once.
RpFlag(s) ==
    /\ pass.pc = "checkpoint" /\ s \in ToCheckpoint
    /\ Up(pass.src) /\ vm[pass.src][s] = "suspended"
    /\ rec' = [rec EXCEPT ![s] = Saved(@)]
    /\ UNCHANGED <<ec2, agents, budget, workers, registry, reclaim, passes>>

\* Neither running nor suspended: a guest that cannot be checkpointed.
RpNoGuest ==
    /\ pass.pc = "checkpoint"
    /\ \E s \in ToCheckpoint :
          ~Up(pass.src) \/ vm[pass.src][s] = "none"
    /\ GiveUp
    /\ UNCHANGED <<ec2, agents, budget, rec, work, registry, reclaim>>

\* The handoff starts: the two volumes must differ, the leases must not have
\* been lost, and the claim is renewed.
RpHandoff ==
    /\ pass.pc = "checkpoint" /\ ToCheckpoint = {}
    /\ IF Replaced # Moved /\ StillHeld /\ rclaim[pass.tgt].by = Session
       THEN Goto("unmount") /\ UNCHANGED <<lease, job>>
       ELSE GiveUp
    /\ UNCHANGED <<ec2, agents, budget, rec, work, registry, reclaim>>

\* A volume is quiesced on its host, if it is attached there.
Quiesce(pc, v, n, next, skip) ==
    /\ pass.pc = pc
    /\ \/ /\ at[v] = n /\ Unmounts(n, v)
          /\ Unmount(n)
          /\ Goto(next)
          /\ UNCHANGED <<lease, job>>
       \/ /\ at[v] = n /\ ~Unmounts(n, v)
          /\ GiveUp
          /\ UNCHANGED <<mnt, vm>>
       \/ /\ at[v] # n
          /\ Goto(skip)
          /\ UNCHANGED <<mnt, vm, lease, job>>
    /\ UNCHANGED <<ec2, snap, s3, budget, rec, work, registry, reclaim>>

RpUnmount ==
    Quiesce("unmount", Moved, pass.src, "detach", "unmount2")
RpUnmountReplaced ==
    Quiesce("unmount2", Replaced, pass.tgt, "detach2", "attach2")

\* _detach_volume.
Release(pc, v, next) ==
    /\ pass.pc = pc
    /\ Detach(v)
    /\ Goto(next)
    /\ UNCHANGED <<host, keep, agents, budget, rec, workers, registry, reclaim,
                   job>>

RpDetach == Release("detach", Moved, "unmount2")
RpDetachReplaced == Release("detach2", Replaced, "attach2")

\* The volume is attached to the Spot host, unless an earlier pass did.
RpAttach ==
    LET v == Moved
        q == pass.tgt
    IN
    /\ pass.pc = "attach2"
    /\ \/ /\ at[v] = None /\ Up(q)
          /\ Attach(v, q)
          /\ Goto("mount2")
          /\ UNCHANGED <<lease, job>>
       \/ /\ at[v] = q
          /\ Goto("mount2")
          /\ UNCHANGED <<at, keep, lease, job>>
       \/ /\ at[v] \notin {None, q} \/ ~Up(q)
          /\ GiveUp
          /\ UNCHANGED <<at, keep>>
    /\ UNCHANGED <<host, agents, budget, rec, work, registry, reclaim>>

RpMount ==
    LET v == Moved
        q == pass.tgt
    IN
    /\ pass.pc = "mount2"
    /\ IF Mounts(q, v)
       THEN /\ Mount(q, v)
            /\ Goto("restore")
            /\ job' = [s \in Sandbox |->
                    IF s \in pass.view THEN "todo" ELSE "none"]
            /\ UNCHANGED lease
       ELSE GiveUp /\ UNCHANGED mnt
    /\ UNCHANGED <<ec2, vm, snap, s3, budget, rec, work, registry, reclaim>>

-----------------------------------------------------------------------------
\* Faulty: every sandbox gets its state back before its guest runs.
ReturnAny(s) ==
    /\ pass.pc = "restore" /\ job[s] = "todo"
    /\ rec' = [rec EXCEPT ![s] = Back(@, rec[s].orig, pass.tgt)]
    /\ job' = [job EXCEPT ![s] = "ended"]
    /\ UNCHANGED <<ec2, agents, budget, workers, registry, reclaim, pass>>

\* A sandbox that slept gets its state back, at its new place.
RpReturn(s) ==
    /\ pass.pc = "restore" /\ job[s] = "todo"
    /\ rec[s].orig # "running"
    /\ rec' = [rec EXCEPT ![s] = Back(@, rec[s].orig, pass.tgt)]
    /\ job' = [job EXCEPT ![s] = "ended"]
    /\ UNCHANGED <<ec2, agents, budget, workers, registry, reclaim, pass>>

\* _resume_repatriated.
RpBoot(s) ==
    LET q == pass.tgt IN
    /\ pass.pc = "restore" /\ job[s] = "todo"
    /\ rec[s].orig = "running"
    /\ \A r \in pass.view : rec[r].orig # "running" => job[r] = "ended"
    /\ Resumes(q, s)
    /\ Resume(q, s)
    /\ job' = [job EXCEPT ![s] = q]
    /\ UNCHANGED <<ec2, mnt, snap, s3, budget, rec, workers, registry, reclaim,
                   pass>>

RpDone(s) ==
    /\ pass.pc = "restore" /\ job[s] \in Node
    /\ rec' = [rec EXCEPT ![s] = Back(@, "running", pass.tgt)]
    /\ Publish(s)
    /\ job' = [job EXCEPT ![s] = "ended"]
    /\ UNCHANGED <<ec2, mnt, vm, budget, workers, registry, reclaim, pass>>

\* The guest cannot be resumed: the pass fails once the others are done.
RpBootFails(s) ==
    /\ pass.pc = "restore" /\ job[s] = "todo"
    /\ rec[s].orig = "running"
    /\ \/ ~Resumes(pass.tgt, s) /\ UNCHANGED budget
       \/ Resumes(pass.tgt, s) /\ Spend
    /\ job' = [job EXCEPT ![s] = "failed"]
    /\ UNCHANGED <<ec2, agents, rec, workers, registry, reclaim, pass>>

\* Every sandbox is back, the target shows the volume and the guests, and the
\* leases were never lost: the replaced volume is deleted, ...
RpHealth ==
    LET q == pass.tgt
        w == Replaced
        guests == {s \in pass.view : rec[s].orig = "running"}
    IN
    /\ pass.pc = "restore"
    /\ \A s \in pass.view : job[s] \in {"ended", "failed"}
    /\ IF /\ \A s \in pass.view : job[s] = "ended"
          /\ Up(q) /\ mnt[q] = Moved
          /\ Cardinality(Resident(q)) >= Cardinality(guests)
          /\ StillHeld
          /\ at[w] \notin Node
       THEN Delete(w) /\ Goto("release") /\ UNCHANGED <<lease, job>>
       ELSE GiveUp /\ UNCHANGED at
    /\ UNCHANGED <<host, keep, agents, budget, rec, work, registry, reclaim>>

\* ... the target released, ...
RpRelease ==
    /\ pass.pc = "release"
    /\ rclaim' = [rclaim EXCEPT ![pass.tgt] = Unclaimed]
    /\ Goto("terminate")
    /\ UNCHANGED <<ec2, agents, budget, rec, workers, hb, claim, reclaim, job>>

\* ... and the On-Demand host terminated.
RpTerminate ==
    /\ pass.pc = "terminate"
    /\ IF Up(pass.src) THEN End(pass.src) ELSE UNCHANGED <<host, at, mnt, vm>>
    /\ GiveUp
    /\ UNCHANGED <<keep, snap, s3, budget, rec, work, registry, reclaim>>

-----------------------------------------------------------------------------
RpStep ==
    \/ \E n \in Standby : RpRead(n)
    \/ RpLease
    \/ RpEmpty \/ RpDiscard
    \/ RpTarget
    \/ RpMark
    \/ \E s \in Sandbox : RpSave(s) \/ RpFlag(s)
    \/ RpNoGuest
    \/ RpHandoff
    \/ RpUnmount \/ RpDetach
    \/ RpUnmountReplaced \/ RpDetachReplaced
    \/ RpAttach \/ RpMount
    \/ \E s \in Sandbox : RpReturn(s) \/ RpBoot(s) \/ RpBootFails(s)
                          \/ RpDone(s)
    \/ RpHealth \/ RpRelease \/ RpTerminate

OperatorFault == Crash \/ LeaseLost

Next ==
    \/ AgentStep
    \/ Ec2Step
    \/ WorkStep
    \/ RcStep
    \/ RpStep
    \/ OperatorFault

Spec == RecoveryInit /\ [][Next]_vars

\* What goes on by itself: heartbeats, an evacuation, time, the node group, an
\* operation in progress.
Background ==
    \/ \E n \in Node : Heartbeat(n) \/ HeartbeatExpire(n)
    \/ \E n \in Spot : Preserve(n) \/ Deadline(n)
    \/ \E n \in Spot, s \in Sandbox :
          CkStart(n, s) \/ CkWrite(n, s) \/ CkDone(n, s) \/ CkFail(n, s)
    \/ \E n \in Standby : StandbyJoins(n)
    \/ \E s \in Sandbox : WorkCall(s) \/ WorkDone(s)

\* A pass goes on to its end, and reconcile_once takes up sessions and recovery
\* hosts in turn.  Nothing makes EC2 reclaim or terminate a host, a client ask
\* for something, or a fault happen.
Fairness ==
    /\ WF_vars(Background)
    /\ WF_vars(pass.pc # "idle" /\ (RcStep \/ RpStep))
    /\ SF_vars(\E n \in Spot : RcRead(n))
    /\ SF_vars(\E n \in Standby : RpRead(n))

FairSpec == Spec /\ Fairness

-----------------------------------------------------------------------------
(* Properties. *)

\* Types; a recovery is of a Spot host and a return of a standby, leases are
\* held by a handoff only, and jobs exist only while guests are started.
TypeOK ==
    /\ RecoveryTypeOK
    /\ pass.pc \in RecoveryPc => pass.src \in Spot
    /\ pass.pc \in RepatriationPc => pass.src \in Standby
    /\ Held # {} => pass.pc \in RepatriationPc
    /\ job # NoJob => pass.pc \in {"resume", "restore", "release", "terminate"}

\* A record that a recovery pass published again after a client had deleted
\* it: it names the recovery host, and no list of that host's sandboxes has it.
Ghost(s) == rec[s].node \in Standby /\ rec[s].tgt = None

\* A guest runs only where the volume with its directories is attached and
\* mounted, hence on one host at a time: no volume is taken from under a guest
\* by an unmount, a detach, a deletion or a replacement, neither when a host
\* is reclaimed, nor when a handoff is interrupted and done over, nor when a
\* client's request comes in between.  A sandbox recovery brought back from its
\* deletion is not protected: the handoff does not see it.
GuestOnItsVolume ==
    \A n \in Node, s \in Sandbox :
        vm[n][s] = "running" /\ ~Ghost(s) => mnt[n] = Home /\ at[Home] = n

\* A record that says running tells the truth, once its host's evacuation is
\* not what makes it wrong: clients are sent to a guest that is there.
RunningIsTrue ==
    \A s \in Sandbox :
        LET n == rec[s].node IN
        rec[s].state = "running" /\ Up(n) /\ (n \in Spot => evac[n] = "calm")
            => vm[n][s] = "running"

\* A guest is only ever started from a copy that has everything its clients
\* did: recovery, repatriation and the clients' own suspends and resumes
\* never bring a sandbox back to an earlier state.  A sandbox whose directories
\* a client had deleted may come back from an old copy in S3: a recovery pass
\* that read it before the deletion resumes it.
NoRollback ==
    [][\A n \in Node, s \in Sandbox :
         vm[n][s] # "running" /\ vm'[n][s] = "running"
             => Restored(n, s) = "current" \/ snap[s] = "gone"]_vars

\* While a host is up that a sandbox was recovered to, or handed back to, the
\* volume with its directories is not deleted: the volume that a repatriation
\* replaces or discards is never one that a recovered sandbox still needs.
KeepsRecovered ==
    [][\A s \in Sandbox :
         Up(rec[s].tgt) /\ at'[Home] = "deleted" => at[Home] = "deleted"]_vars

\* A record in recovery whose host is gone, and which the next pass can help:
\* there is a standby, the volume was neither deleted nor handed on to a Spot
\* host, and no guest runs from it yet (a mount is refused where sandboxes
\* are).
InTakeover(s) ==
    /\ rec[s].state \in Recoverable
    /\ rec[s].sess \in Spot /\ host[rec[s].sess] = "gone"
    /\ \E n \in Standby : Up(n)
    /\ at[Home] \in Standby \cup {None}
    /\ ~\E n \in Node : mnt[n] = Home /\ Resident(n) # {}

\* The record was untrue of its guest when the handoff marked it: a worker's
\* failed suspend writes "running", a failed delete "failed", over whatever
\* recovery made of the record.
Untrue(s) ==
    \/ /\ rec[s].orig = "running" /\ ~rec[s].saved
       /\ \A n \in Standby : vm[n][s] = "none"
    \/ rec[s].orig # "running" /\ \E n \in Node : vm[n][s] = "running"

\* A record in a handoff that the next pass can finish: the recovery host is
\* there, no guest runs on the Spot host yet, every record was true, and no
\* late checkpoint put another sandbox back into recovery, which comes first.
InHandoff(s) ==
    /\ rec[s].state = "repatriating"
    /\ Up(rec[s].tgt)
    /\ \A q \in Spot : rclaim[q].by # None => Resident(q) = {}
    /\ \A r \in Sandbox : /\ rec[r].state = "repatriating" => ~Untrue(r)
                          /\ rec[r].state \notin Recoverable

\* Once there are no more faults, no sandbox stays between two hosts for ever
\* when a later pass could take it on: recovery and handoff are picked up
\* wherever a crash, an error or a lost lease interrupted them.
NoneLeftBetween ==
    []<>(\A s \in Sandbox : ~InTakeover(s) /\ ~InHandoff(s))
=============================================================================
