------------------------- MODULE OperatorLifecycle -------------------------
(***************************************************************************)
(* The Firecracker operator's reconcile loop for one sandbox               *)
(* (sandbox-api/operator.py), with the SandboxSession custom resource      *)
(* (crd.py), the DynamoDB record and its lease (db.py), the requests of    *)
(* the API (app.py), and the node-agents of NodeAgent.                     *)
(*                                                                         *)
(* A Worker is one operator replica: its queue holds a sandbox at most     *)
(* once (_queued), so a replica has one reconcile of it in flight.  Each   *)
(* step of a worker is one access to shared state with the local code      *)
(* around it: a read of the resource, a read of the record, the lease, a   *)
(* write with the status it publishes, a request to a node, its reply.     *)
(*                                                                         *)
(* An operation id is a number; the resource's generation changes exactly  *)
(* with it, so one number stands for both.  SandboxLease shows that a live *)
(* holder's lease does not expire; here it expires once its holder died.   *)
(***************************************************************************)
EXTENDS NodeAgent

CONSTANTS
    MaxOp,      \* bound: operations requested of the sandbox
    MaxApiFail, \* bound: failures of the Kubernetes API
    MayDelete   \* whether the run deletes the sandbox

ASSUME LifecycleAssumption ==
    /\ MaxOp \in Nat
    /\ MaxApiFail \in Nat
    /\ MayDelete \in BOOLEAN

VARIABLES
    cr,         \* the custom resource: spec and status
    ops,        \* last operation id given out
    apiFails,   \* failures of the Kubernetes API still allowed
    rec,        \* the DynamoDB record
    holder,     \* the worker that holds the record's lease, or None
    worker      \* per replica: where its reconcile is and what it read

vars == <<nodes, s3, latest, calls, budget, cr, ops, apiFails, rec, holder, worker>>

State == {"creating", "running", "suspending", "suspended", "slept",
          "resuming", "failed", "orphaned", "destroying"}
Target == {"suspended", "slept"}

\* Operation 0 is the empty operationId of a resource made from its record.
\* target: what suspendReason asks for; obs and term: observedOperationId, and
\* whether the condition published with it is a terminal failure.
CR == [alive : BOOLEAN, deleting : BOOLEAN, desired : {"Running", "Suspended"},
       target : Target, op : 0 .. MaxOp, obs : 0 .. MaxOp, term : BOOLEAN,
       phase : State]

\* snap: snapshot_s3 is set.
Rec == [alive : BOOLEAN, state : State, node : Node \cup {None}, snap : BOOLEAN]

NoCR == [alive |-> FALSE, deleting |-> FALSE, desired |-> "Running",
         target |-> "suspended", op |-> 0, obs |-> 0, term |-> FALSE,
         phase |-> "creating"]
NoRec == [alive |-> FALSE, state |-> "creating", node |-> None, snap |-> FALSE]

Job == {"none", "create", "suspend", "recover", "resume", "delete"}

\* Where a reconcile is; at Leased it runs under the sandbox's lease.
Leased == {"work", "mark", "call", "wait"}
PC == {"idle", "record", "drift", "settle", "lease", "unlist"} \cup Leased

\* full: the nodes that turned a create away.
Idle == [pc |-> "idle", job |-> "none", cr |-> NoCR, rec |-> NoRec, full |-> {}]

TypeOK ==
    /\ NodeTypeOK
    /\ cr \in CR
    /\ ops \in 0 .. MaxOp
    /\ apiFails \in 0 .. MaxApiFail
    /\ rec \in Rec
    /\ holder \in Worker \cup {None}
    /\ worker \in [Worker -> [pc : PC, job : Job, cr : CR, rec : Rec,
                              full : SUBSET Node]]

\* app.py create_sandbox has put the record; the resource comes next.
Init ==
    /\ NodeInit
    /\ cr = NoCR
    /\ ops = 0
    /\ apiFails = MaxApiFail
    /\ rec = [NoRec EXCEPT !.alive = TRUE]
    /\ holder = None
    /\ worker = [w \in Worker |-> Idle]

-----------------------------------------------------------------------------
Goto(w, pc) == worker' = [worker EXCEPT ![w].pc = pc]
Done(w) == worker' = [worker EXCEPT ![w] = Idle]

\* release_lease: conditional on the lease id.
Release(w) == holder' = IF holder = w THEN None ELSE holder

\* force_update is an unconditional upsert.
ForceState(state) == rec' = [rec EXCEPT !.alive = TRUE, !.state = state]

ApiFailure == apiFails > 0 /\ apiFails' = apiFails - 1

\* Faulty: the status leaves out the operation it is about.
PublishUnobserved(w, term, phase) ==
    /\ cr' = IF cr.alive THEN [cr EXCEPT !.term = term, !.phase = phase] ELSE cr
    /\ UNCHANGED apiFails

\* _publish: the status of the operation the worker read, and the phase of
\* the record as it is after the worker's write.  A failure is swallowed.
Publish(w, term, phase) ==
    \/ /\ cr' = IF cr.alive
                THEN [cr EXCEPT !.obs = worker[w].cr.op, !.term = term,
                                !.phase = phase]
                ELSE cr
       /\ UNCHANGED apiFails
    \/ ApiFailure /\ UNCHANGED cr

\* Ends a leased reconcile with its status.
Report(w, state, term) ==
    /\ Publish(w, term, state)
    /\ Release(w)
    /\ Done(w)

\* The same after a write of the record's state.
Conclude(w, state, term) ==
    /\ ForceState(state)
    /\ Report(w, state, term)

\* _terminal_operation_failed: an empty operation id never is.
TerminalOperationFailed(c) == c.op # 0 /\ c.obs = c.op /\ c.term

-----------------------------------------------------------------------------
(* Requests. *)

\* The resource is made from the record: create_sandbox's second half, and
\* crd.ensure for a record without a resource.
EnsureCR ==
    /\ rec.alive /\ ~cr.alive
    /\ cr' = [NoCR EXCEPT
                !.alive = TRUE,
                !.desired = IF rec.state \in {"suspended", "slept", "suspending"}
                            THEN "Suspended" ELSE "Running",
                !.target = IF rec.state = "slept" THEN "slept" ELSE "suspended"]
    /\ UNCHANGED <<nodeVars, ops, apiFails, rec, holder, worker>>

\* create_sandbox when Kubernetes refused the resource: the record goes.
CreateRefused ==
    /\ rec = [NoRec EXCEPT !.alive = TRUE] /\ ~cr.alive
    /\ ApiFailure
    /\ rec' = NoRec
    /\ UNCHANGED <<nodeVars, cr, ops, holder, worker>>

\* request_state: a merge patch of the spec under a new operation id.
RequestState(desired, target) ==
    /\ cr.alive
    /\ ops < MaxOp
    /\ ops' = ops + 1
    /\ cr' = [cr EXCEPT !.desired = desired, !.target = target, !.op = ops + 1]
    /\ UNCHANGED <<nodeVars, apiFails, rec, holder, worker>>

\* suspend_sandbox.
ApiSuspend ==
    /\ rec.alive /\ rec.state = "running"
    /\ RequestState("Suspended", "suspended")

\* resume_sandbox; the gateway's wake-up of a slept sandbox is one too.
ApiResume ==
    /\ rec.alive /\ rec.state \in {"suspended", "slept", "orphaned"}
    /\ RequestState("Running", "suspended")

\* _request_idle_suspends: never over a suspend that is already requested.
RequestIdle ==
    /\ rec.alive /\ rec.state = "running"
    /\ cr.desired # "Suspended"
    /\ RequestState("Suspended", "slept")

\* destroy_sandbox.
ApiDelete ==
    /\ MayDelete
    /\ rec.alive /\ cr.alive /\ ~cr.deleting
    /\ cr' = [cr EXCEPT !.deleting = TRUE]
    /\ UNCHANGED <<nodeVars, ops, apiFails, rec, holder, worker>>

Api == EnsureCR \/ CreateRefused \/ ApiSuspend \/ ApiResume \/ RequestIdle \/ ApiDelete

-----------------------------------------------------------------------------
(* A reconcile up to the lease. *)

\* Faulty: only a new operation is worth a reconcile.
FetchUnobserved(w) ==
    /\ worker[w].pc = "idle"
    /\ cr.alive /\ (cr.obs # cr.op \/ cr.deleting)
    /\ worker' = [worker EXCEPT ![w] = [Idle EXCEPT !.pc = "record", !.cr = cr]]
    /\ UNCHANGED <<nodeVars, cr, ops, apiFails, rec, holder>>

\* _worker: the queue delivers the sandbox and the resource is read.
Fetch(w) ==
    /\ worker[w].pc = "idle"
    /\ cr.alive
    /\ worker' = [worker EXCEPT ![w] = [Idle EXCEPT !.pc = "record", !.cr = cr]]
    /\ UNCHANGED <<nodeVars, cr, ops, apiFails, rec, holder>>

\* _ensure_record: the record, or one made from the resource's last status.
Known(w) ==
    IF rec.alive THEN rec
    ELSE [NoRec EXCEPT !.alive = TRUE, !.state = worker[w].cr.phase]

\* Faulty: nobody takes up an interrupted resume.
JobForSettled(c, r) ==
    CASE c.desired = "Running" /\ \/ r.state \in {"suspended", "slept"}
                                  \/ r.state = "orphaned" /\ r.snap
                                                            -> "resume"
      [] c.desired = "Running" /\ \/ r.state \in {"creating", "suspending", "destroying"}
                                  \/ r.state = "failed" /\ c.op # c.obs
                                                            -> "create"
      [] c.desired = "Suspended" /\ r.state = "suspending"  -> "recover"
      [] c.desired = "Suspended" /\ r.state = "running"     -> "suspend"
      [] OTHER                                              -> "none"

\* What reconcile decides to do under the lease.
JobFor(c, r) ==
    CASE c.desired = "Running" /\ \/ r.state \in {"suspended", "slept", "resuming"}
                                  \/ r.state = "orphaned" /\ r.snap
                                                            -> "resume"
      [] c.desired = "Running" /\ \/ r.state \in {"creating", "suspending", "destroying"}
                                  \/ r.state = "failed" /\ c.op # c.obs
                                                            -> "create"
      [] c.desired = "Suspended" /\ r.state = "suspending"  -> "recover"
      [] c.desired = "Suspended" /\ r.state = "running"     -> "suspend"
      [] OTHER                                              -> "none"

\* What it writes without a lease: an orphan without a snapshot has failed, a
\* suspended sandbox whose suspend became an idle one has slept.
StateFor(c, r) ==
    CASE c.desired = "Running" /\ r.state = "orphaned"      -> "failed"
      [] /\ c.desired = "Suspended" /\ c.target = "slept"
         /\ r.state = "suspended"                           -> "slept"
      [] OTHER                                              -> r.state

\* The reconcile goes on with its job, towards a state of the record.
Proceed(w, pc, r, state) ==
    /\ worker' = [worker EXCEPT ![w].pc = pc,
                                ![w].job = JobFor(worker[w].cr, r),
                                ![w].rec = [r EXCEPT !.state = state]]
    /\ UNCHANGED <<cr, apiFails>>

\* reconcile of a resource that is not being deleted.
Reconcile(w) ==
    LET c == worker[w].cr
        r == Known(w)
        job == JobFor(c, r)
        drift == c.desired = "Running" /\ r.state = "running"
    IN
    /\ worker[w].pc = "record"
    /\ ~c.deleting
    /\ rec' = r
    /\ \/ /\ TerminalOperationFailed(c)
          /\ Done(w)
          /\ UNCHANGED <<cr, apiFails>>
       \/ /\ ~TerminalOperationFailed(c)
          /\ \/ drift /\ Proceed(w, "drift", r, r.state)
             \/ job # "none" /\ Proceed(w, "lease", r, r.state)
             \/ /\ ~drift /\ job = "none" /\ StateFor(c, r) # r.state
                /\ Proceed(w, "settle", r, StateFor(c, r))
             \/ /\ ~drift /\ job = "none" /\ StateFor(c, r) = r.state
                /\ Publish(w, FALSE, r.state)
                /\ Done(w)
    /\ UNCHANGED <<nodeVars, ops, holder>>

\* Faulty: a deletion whose record is gone is taken to be finished.
ReconcileDeleteOnce(w) ==
    /\ worker[w].pc = "record"
    /\ worker[w].cr.deleting
    /\ worker' = [worker EXCEPT ![w].pc = IF rec.alive THEN "lease" ELSE "idle",
                                ![w].job = "delete", ![w].rec = rec]
    /\ UNCHANGED <<nodeVars, cr, ops, apiFails, rec, holder>>

\* _reconcile_delete before its lease.
ReconcileDelete(w) ==
    /\ worker[w].pc = "record"
    /\ worker[w].cr.deleting
    /\ worker' = [worker EXCEPT ![w].pc = IF rec.alive THEN "lease" ELSE "unlist",
                                ![w].job = "delete", ![w].rec = rec]
    /\ UNCHANGED <<nodeVars, cr, ops, apiFails, rec, holder>>

\* _reconcile_running_drift: the probe, without a lease.
Drift(w) ==
    LET r == worker[w].rec
        active == r.node # None /\ Registered(r.node) IN
    /\ worker[w].pc = "drift"
    /\ \/ /\ Probe(r.node) = "running" \/ active
          /\ Publish(w, FALSE, r.state)
          /\ Done(w)
       \/ /\ Probe(r.node) # "running" /\ ~active
          /\ worker' = [worker EXCEPT ![w].pc = "settle",
                                      ![w].rec = [r EXCEPT !.state = "orphaned"]]
          /\ UNCHANGED <<cr, apiFails>>
    /\ UNCHANGED <<nodeVars, ops, rec, holder>>

\* The verdict is written, some time after the record and the node were read.
Settle(w) ==
    LET state == worker[w].rec.state IN
    /\ worker[w].pc = "settle"
    /\ ForceState(state)
    /\ Publish(w, FALSE, state)
    /\ Done(w)
    /\ UNCHANGED <<nodeVars, ops, holder>>

\* _lease: refused while another operation holds it, or without a record.
Lease(w) ==
    /\ worker[w].pc = "lease"
    /\ IF rec.alive /\ holder = None
       THEN holder' = w /\ Goto(w, "work")
       ELSE Done(w) /\ UNCHANGED holder
    /\ UNCHANGED <<nodeVars, cr, ops, apiFails, rec>>

-----------------------------------------------------------------------------
(* A reconcile with the lease: "work" reads the record afresh. *)

AtWork(w, job) == worker[w].pc = "work" /\ worker[w].job = job

\* The record is marked and the driver is called with what "work" read.
Engage(w, state) ==
    /\ ForceState(state)
    /\ Publish(w, FALSE, state)
    /\ worker' = [worker EXCEPT ![w].pc = "call", ![w].rec = rec]
    /\ UNCHANGED holder

\* _create up to driver.create.
WorkCreate(w) ==
    /\ AtWork(w, "create")
    /\ IF rec.state = "running"
       THEN Report(w, "running", FALSE) /\ UNCHANGED rec
       ELSE Engage(w, "creating")
    /\ UNCHANGED <<nodeVars, ops>>

\* _recover_suspending.
WorkRecover(w) ==
    LET seen == Probe(rec.node) IN
    /\ AtWork(w, "recover")
    /\ \/ /\ rec.state # "suspending"
          /\ Release(w) /\ Done(w)
          /\ UNCHANGED <<cr, rec, apiFails>>
       \/ /\ rec.state = "suspending" /\ seen = "running"
          /\ ForceState("running")
          /\ Release(w) /\ Done(w)
          /\ UNCHANGED <<cr, apiFails>>
       \/ /\ rec.state = "suspending" /\ seen = "suspended"
          /\ Conclude(w, worker[w].cr.target, FALSE)
       \/ /\ rec.state = "suspending" /\ seen = "unknown"
          /\ Report(w, "suspending", FALSE)
          /\ UNCHANGED rec
    /\ UNCHANGED <<nodeVars, ops>>

\* _suspend gives up an idle suspend when the sandbox was used meanwhile, and
\* asks for Running again unless the resource has changed.
CancelIdle(w) ==
    LET c == worker[w].cr IN
    /\ c.target = "slept"
    /\ \/ /\ cr = c
          /\ ops < MaxOp
          /\ ops' = ops + 1
          /\ cr' = [cr EXCEPT !.desired = "Running", !.target = "suspended",
                              !.op = ops + 1, !.obs = c.op, !.term = FALSE,
                              !.phase = "running"]
          /\ UNCHANGED apiFails
       \/ cr # c /\ Publish(w, FALSE, "running") /\ UNCHANGED ops
       \/ ApiFailure /\ UNCHANGED <<cr, ops>>
    /\ Release(w)
    /\ Done(w)

\* _suspend up to the mark.
WorkSuspend(w) ==
    /\ AtWork(w, "suspend")
    /\ \/ /\ rec.state # "running"
          /\ Release(w) /\ Done(w)
          /\ UNCHANGED <<cr, ops, apiFails>>
       \/ /\ rec.state = "running"
          /\ CancelIdle(w)
       \/ /\ rec.state = "running"
          /\ worker' = [worker EXCEPT ![w].pc = "mark", ![w].rec = rec]
          /\ UNCHANGED <<cr, ops, apiFails, holder>>
    /\ UNCHANGED <<nodeVars, rec>>

\* update_state(suspending, running): a state that is not running any more is
\* an exception, handled like every other failure of a suspend.
Mark(w) ==
    /\ worker[w].pc = "mark"
    /\ IF rec.alive /\ rec.state = "running"
       THEN /\ ForceState("suspending")
            /\ Publish(w, FALSE, "suspending")
            /\ Goto(w, "call")
            /\ UNCHANGED holder
       ELSE Conclude(w, "running", TRUE)
    /\ UNCHANGED <<nodeVars, ops>>

\* _resume up to driver.resume: a resume interrupted after the node did its
\* part is only recorded.
WorkResume(w) ==
    LET probed == rec.state = "resuming" /\ Probe(rec.node) = "running" IN
    /\ AtWork(w, "resume")
    /\ \/ /\ rec.state = "running"
          /\ Report(w, "running", FALSE)
          /\ UNCHANGED rec
       \/ probed /\ Conclude(w, "running", FALSE)
       \/ /\ rec.state \notin {"running", "suspended", "slept", "resuming", "orphaned"}
          /\ Conclude(w, "failed", TRUE)
       \/ /\ rec.state \in {"suspended", "slept", "resuming", "orphaned"}
          /\ ~probed
          /\ Engage(w, "resuming")
    /\ UNCHANGED <<nodeVars, ops>>

\* _reconcile_delete up to destroy_confirmed, which gets the record that was
\* read before the lease.
WorkDelete(w) ==
    /\ AtWork(w, "delete")
    /\ ForceState("destroying")
    /\ Publish(w, FALSE, "destroying")
    /\ Goto(w, "call")
    /\ UNCHANGED <<nodeVars, ops, holder>>

-----------------------------------------------------------------------------
(* The driver. *)

Calling(w, job) == worker[w].pc = "call" /\ worker[w].job = job

\* Faulty: a suspend that raises is taken to have happened.
FailedSuspended(w) ==
    IF worker[w].job = "suspend" THEN Conclude(w, worker[w].cr.target, TRUE)
    ELSE Conclude(w, "failed", worker[w].job # "delete")

\* Faulty: a suspend that raises leaves a state nobody else knows.
FailedUnknown(w) ==
    Conclude(w, IF worker[w].job = "suspend" THEN "unknown" ELSE "failed", TRUE)

\* db.delete after a confirmed destroy: the record goes, with its lease.
Deleted(w) ==
    /\ rec' = NoRec
    /\ holder' = None
    /\ Goto(w, "unlist")
    /\ UNCHANGED <<cr, apiFails>>

\* Faulty: a destroy nobody confirmed is good enough.
FailedDeleted(w) ==
    IF worker[w].job = "delete" THEN Deleted(w)
    ELSE Conclude(w, IF worker[w].job = "suspend" THEN "running" ELSE "failed", TRUE)

\* How each operation ends when its driver call raises.
Failed(w) ==
    CASE worker[w].job \in {"create", "resume"} -> Conclude(w, "failed", TRUE)
      [] worker[w].job = "suspend"              -> Conclude(w, "running", TRUE)
      [] OTHER                                  -> Conclude(w, "failed", FALSE)

Request(w, kind, n) == Send(w, kind, n) /\ Goto(w, "wait")

\* A VM is up on n: the record is running there.
Up(w, n) ==
    /\ rec' = [rec EXCEPT !.alive = TRUE, !.state = "running", !.node = n]
    /\ Report(w, "running", FALSE)

\* Faulty: the placement is written only when the VM is up.
JournalLate(n) == UNCHANGED rec

\* The placement is written before the node is asked for anything.
Journal(n) == rec' = [rec EXCEPT !.alive = TRUE, !.node = n]

\* driver.create: the journaled node while it can be reached, else another.
CallCreate(w) ==
    LET old == rec.node
        keep == old # None /\ Reachable(old) /\ old \notin worker[w].full
        choice == IF keep THEN {old}
                  ELSE {n \in Node \ worker[w].full : Reachable(n)}
    IN
    /\ Calling(w, "create")
    /\ \/ /\ keep /\ Probe(old) = "running"
          /\ Up(w, old)
          /\ UNCHANGED calls
       \/ /\ ~(keep /\ Probe(old) = "running")
          /\ \E n \in choice :
                /\ Journal(n)
                /\ Request(w, "create", n)
          /\ UNCHANGED <<cr, apiFails, holder>>
       \/ /\ choice = {}
          /\ Failed(w)
          /\ UNCHANGED calls
    /\ UNCHANGED <<nodes, s3, latest, budget, ops>>

\* driver.suspend: on the node of the record.
CallSuspend(w) ==
    LET n == worker[w].rec.node IN
    /\ Calling(w, "suspend")
    /\ IF n # None /\ Reachable(n)
       THEN Request(w, "suspend", n) /\ UNCHANGED <<cr, apiFails, rec, holder>>
       ELSE Failed(w) /\ UNCHANGED calls
    /\ UNCHANGED <<nodes, s3, latest, budget, ops>>

\* driver.resume: the node of the record while it can be reached, else another.
CallResume(w) ==
    LET old == worker[w].rec.node
        choice == IF old # None /\ Reachable(old) THEN {old}
                  ELSE {n \in Node : Reachable(n)}
    IN
    /\ Calling(w, "resume")
    /\ IF choice # {}
       THEN /\ \E n \in choice : Request(w, "resume", n)
            /\ UNCHANGED <<cr, apiFails, rec, holder>>
       ELSE Failed(w) /\ UNCHANGED calls
    /\ UNCHANGED <<nodes, s3, latest, budget, ops>>

\* driver.destroy_confirmed: a record without a node has nothing to destroy.
CallDelete(w) ==
    LET n == worker[w].rec.node IN
    /\ Calling(w, "delete")
    /\ \/ n = None /\ Deleted(w) /\ UNCHANGED calls
       \/ /\ n # None /\ Reachable(n)
          /\ Request(w, "destroy", n)
          /\ UNCHANGED <<cr, apiFails, rec, holder>>
       \/ /\ n # None /\ ~Reachable(n)
          /\ Failed(w)
          /\ UNCHANGED calls
    /\ UNCHANGED <<nodes, s3, latest, budget, ops>>

\* remove_finalizer: Kubernetes drops the resource.  A failure is left to the
\* next reconcile, which finds no record.
Unlist(w) ==
    /\ worker[w].pc = "unlist"
    /\ \/ /\ cr' = IF cr.alive /\ cr.deleting THEN NoCR ELSE cr
          /\ UNCHANGED apiFails
       \/ ApiFailure /\ UNCHANGED cr
    /\ Release(w)
    /\ Done(w)
    /\ UNCHANGED <<nodeVars, ops, rec>>

Replies(w, res) == {c \in calls : c.by = w /\ c.step = "done" /\ c.res = res}

\* The driver returns.  create and resume have asked the node once more.
ReceiveOk(w) ==
    \E c \in Replies(w, "ok") :
        /\ calls' = calls \ {c}
        /\ CASE c.kind \in {"create", "resume"} ->
                    IF Probe(c.node) # "unknown" THEN Up(w, c.node) ELSE Failed(w)
             [] c.kind = "suspend" ->
                    IF rec.alive /\ rec.state = "suspending"
                    THEN /\ rec' = [rec EXCEPT !.state = worker[w].cr.target,
                                               !.snap = TRUE]
                         /\ Report(w, worker[w].cr.target, FALSE)
                    ELSE Failed(w)
             [] c.kind = "destroy" -> Deleted(w)
        /\ UNCHANGED <<nodes, s3, latest, budget, ops>>

\* A node without a free vCPU: driver.create goes on to the next one.
ReceiveFull(w) ==
    \E c \in Replies(w, "full") :
        /\ calls' = calls \ {c}
        /\ worker' = [worker EXCEPT ![w].pc = "call", ![w].full = @ \cup {c.node}]
        /\ UNCHANGED <<nodes, s3, latest, budget, cr, ops, apiFails, rec, holder>>

ReceiveError(w) ==
    \E c \in Replies(w, "error") :
        /\ calls' = calls \ {c}
        /\ Failed(w)
        /\ UNCHANGED <<nodes, s3, latest, budget, ops>>

\* The worker gives up on a request: the handler goes on alone.
Timeout(w) ==
    \E c \in calls :
        /\ c.by = w /\ c.step # "done"
        /\ \/ ~Reachable(c.node) /\ UNCHANGED budget
           \/ Spend("timeout")
        /\ calls' = (calls \ {c}) \cup {[c EXCEPT !.by = None]}
        /\ Failed(w)
        /\ UNCHANGED <<nodes, s3, latest, ops>>

-----------------------------------------------------------------------------
\* The replica dies and comes back: what it did so far stays, its lease too.
\* A request it was sending may not have reached the node.
Crash(w) ==
    /\ worker[w].pc # "idle"
    /\ Spend("crash")
    /\ Done(w)
    /\ \E lost \in SUBSET {c \in calls : c.by = w /\ c.step = "queued"} :
          calls' = {c \in calls : c.by # w} \cup
                   {[c EXCEPT !.by = None] :
                       c \in {d \in calls \ lost : d.by = w /\ d.step # "done"}}
    /\ UNCHANGED <<nodes, s3, latest, cr, ops, apiFails, rec, holder>>

\* Faulty: nothing renews the lease of a replica at work.
ExpireLeaseAtWork ==
    /\ holder # None
    /\ holder' = None
    /\ UNCHANGED <<nodeVars, cr, ops, apiFails, rec, worker>>

\* The lease of a dead replica runs out, after OPERATION_LEASE_S (15 minutes):
\* of the requests given up before, only an upload may still be going on.
ExpireLease ==
    /\ holder # None
    /\ worker[holder].pc \notin Leased
    /\ \A c \in calls : c.by = None => c.step = "upload"
    /\ holder' = None
    /\ UNCHANGED <<nodeVars, cr, ops, apiFails, rec, worker>>

Step(w) ==
    \/ Fetch(w)
    \/ Reconcile(w)
    \/ ReconcileDelete(w)
    \/ Drift(w)
    \/ Settle(w)
    \/ Lease(w)
    \/ WorkCreate(w)
    \/ WorkRecover(w)
    \/ WorkSuspend(w)
    \/ Mark(w)
    \/ WorkResume(w)
    \/ WorkDelete(w)
    \/ CallCreate(w)
    \/ CallSuspend(w)
    \/ CallResume(w)
    \/ CallDelete(w)
    \/ ReceiveOk(w)
    \/ ReceiveFull(w)
    \/ ReceiveError(w)
    \/ Unlist(w)

NodeStep == NodeNext /\ UNCHANGED <<cr, ops, apiFails, rec, holder, worker>>

Next ==
    \/ Api
    \/ \E w \in Worker : Step(w) \/ Timeout(w) \/ Crash(w)
    \/ ExpireLease
    \/ NodeStep

Spec == Init /\ [][Next]_vars

\* The resync queues every resource again and again and each replica's
\* workers run (_maintenance_loop, _worker); a node-agent answers or fails;
\* DynamoDB's clock runs.  Nothing makes a client act or a fault happen.
Fairness ==
    /\ \A w \in Worker : WF_vars(Step(w))
    /\ WF_vars(Handler /\ UNCHANGED <<cr, ops, apiFails, rec, holder, worker>>)
    /\ WF_vars(ExpireLease)

FairSpec == Spec /\ Fairness
-----------------------------------------------------------------------------
\* Whoever is past the lease holds it, and the only request anybody waits for
\* is the holder's (crd.tf: "Per-sandbox DynamoDB leases fence lifecycle side
\* effects"; requests given up by a crash or a timeout are the exception).
Fenced ==
    /\ \A w \in Worker : worker[w].pc \in Leased => holder = w
    /\ \A c \in calls : c.by # None => holder = c.by

\* Why Fenced holds: a replica past the lease holds it, an awaited request
\* belongs to a replica that waits, and nobody awaits two.
HolderAtWork == \A w \in Worker : worker[w].pc \in Leased => holder = w

AwaitedWaits ==
    /\ \A c \in calls : c.by # None => worker[c.by].pc = "wait"
    /\ \A c, d \in calls : c.by # None /\ c.by = d.by => c = d

FenceInv == HolderAtWork /\ AwaitedWaits

\* A sandbox never runs twice: whatever two replicas read and when, however
\* often a create or a resume is repeated (op_create, _existing_resume_result).
OneVm == Cardinality(Running) <= 1

\* A guest that runs holds the last write any guest of the sandbox made: no
\* retry restores an older snapshot or boots a blank disk over a newer one.
LatestRuns == \A n \in Running : nodes[n].mem = latest

\* No node has died or been cut off so far.
NodesStay ==
    /\ budget["partition"] = Budget["partition"]
    /\ budget["death"] = Budget["death"]

\* A sandbox recorded as suspended runs nowhere: no request that was given up
\* starts its guest behind the record's back.  A node that is cut off keeps its
\* guest running, and a resume that a node's death drove to another one is
\* forgotten (driver.resume).  "slept" is written without the lease, too.
StoppedWhenSuspended ==
    NodesStay /\ rec.alive /\ rec.state = "suspended" => Running = {}

\* With a single replica a slept sandbox runs nowhere, too.
StoppedWhenAsleep ==
    NodesStay /\ rec.alive /\ rec.state \in Target => Running = {}

\* Once Kubernetes has dropped the resource nothing of it runs on
\* (destroy_confirmed: no finalizer disappears before the node confirmed).
NoVmAfterDelete == latest > 0 /\ ~cr.alive => Running = {}

\* The node of a create in flight is in the record: a replica that crashes
\* now leaves the next one the place to look (driver.create).
Journaled ==
    \A c \in calls : c.kind = "create" /\ c.by # None => rec.alive /\ rec.node = c.node

\* The sandbox as its client sees it.
ClientMode ==
    IF Running # {} THEN "running"
    ELSE IF \E n \in Node : nodes[n].vm = "suspended" \/ nodes[n].disk # 0 THEN "stopped"
    ELSE IF ~cr.alive THEN IF rec.alive THEN "unlisted" ELSE "gone"
    ELSE IF latest = 0 THEN "new" ELSE "erased"

ClientMemory ==
    IF Running = {} THEN latest ELSE nodes[CHOOSE n \in Running : TRUE].mem

Machine == INSTANCE SandboxMachine WITH mode <- ClientMode, memory <- ClientMemory

\* Seen by its client a sandbox boots once, keeps its memory over every
\* suspend and resume, and is gone for good once it is deleted: reconciles,
\* retries, timeouts and crashes do not show.
ImplementsMachine == Machine!Spec

-----------------------------------------------------------------------------
\* A deletion completes whatever fails on the way: the record, the runtime
\* and the resource go (_reconcile_delete is repeated until they have).
DeleteCompletes == cr.deleting ~> ~cr.alive

\* The last operation requested is in the end the one the status is about,
\* though every failed publication is swallowed (_publish).
EventuallyObserved == <>[](cr.alive => cr.obs = cr.op)

\* No operation leaves the sandbox in the middle for good: a transition whose
\* replica died is taken up again (_recover_suspending, _resume, _create).
NoStuckTransition ==
    []<>(rec.alive /\ cr.alive =>
            rec.state \notin {"creating", "suspending", "resuming", "destroying"})

Converged ==
    cr.alive /\ ~cr.deleting =>
        \/ cr.desired = "Running" /\ rec.state = "running"
        \/ cr.desired = "Suspended" /\ rec.state \in Target
        \/ cr.term
        \/ rec.state = "failed"

\* When requests stop, the record reaches what the resource asks for or the
\* operation has failed: the reconcile loop is level-triggered.
Converges == <>[]Converged

-----------------------------------------------------------------------------
(* Statements of the repository that the code does not keep. *)

\* main.py, _s3_upload_sync: the record says suspended if and only if S3 has
\* the snapshot.  Here only the last write has to be there.
DurableWhenSuspended == rec.alive /\ rec.state \in Target => s3 = latest

\* operator.py, _reconcile_running_drift: an old snapshot is never loaded
\* silently in place of a lost running VM.
NoSilentRollback ==
    [][\A n \in Node :
          nodes[n].vm # "running" /\ nodes'[n].vm = "running" /\ nodes'[n].disk # 0
              => nodes'[n].mem = latest]_vars

\* app.py, _ensure_awake: a manually suspended sandbox is not woken by a
\* request.  Once the operator has observed a manual suspend the record is not
\* in slept, the state a request wakes.
ManualNotSlept ==
    cr.alive /\ cr.obs = cr.op /\ cr.desired = "Suspended" /\ cr.target = "suspended"
        => rec.state # "slept"
=============================================================================
