# Verification of the sandbox control plane

TLA+ models of the self-hosted sandbox platform in this repository: a control
plane (`sandbox-api/`, Python, several replicas) that keeps Firecracker microVMs
on metal nodes (`node-agent/`) through suspends, resumes, node losses and
deletions. TLC checks the models on small instances and TLAPS proves theorems
about them for every value of the constants.

## 1. Inventory

| Component | State it keeps | Operations | What is hard about it | What makes it correct |
|---|---|---|---|---|
| Operation lease (`db.py` 274-326, `operator.py` `_LeaseRenewer`) | `lease_id`, `lease_expires` on the sandbox item; a renewer thread per operation | acquire, renew, release, expiry, deletion of the item | host clocks, late or failing renewals, a stalled host, a swallowed release | one operation at a time; nobody loses a lease it renews; every waiter is served; a late thread does no harm |
| Reconcile loop (`operator.py`) | nothing but local variables; works on the resource, the record and the nodes | reconcile, create, suspend, recover, resume, delete, drift | every step acts on something read before; crash between any two steps; several replicas | one VM, with its latest memory; transitions complete; deletion leaves nothing |
| SandboxSession resource (`crd.py`) | spec with `operationId`, status, finalizer | ensure, request_state, patch_status, delete, remove_finalizer | status published by one replica about an operation requested meanwhile; failures swallowed | the last operation is eventually the observed one |
| Records (`db.py`) | the DynamoDB item | put, conditional `update_state`, unconditional `force_update`, delete | `force_update` is an upsert without a condition | no write brings a deleted sandbox back |
| Public API (`app.py`) | none | create, suspend, resume, auto-wake, destroy | check then patch | a request is never lost or turned into another one |
| Driver (`drivers/firecracker.py`) | none | create with a journaled placement, suspend, resume, destroy, probe | a request whose reply is lost goes on; a retry elsewhere | a retry finds what its predecessor did |
| Node-agent (`main.py`) | `_VMS`, the state volume, S3 | op_create, op_suspend, op_resume, op_destroy, restart | per-sandbox lock, handlers nobody waits for, upload after stop | idempotent operations; no snapshot is overwritten by an older one |
| Node snapshots (`main.py` 1381-1560, 1872-2040, 2144-2666) | `vm.mem.base`, `vm.mem`, the inplace marker, `integrity.json`; Firecracker's dirty bitmap | base snapshot, checkpoint, publish, suspend (Full, Diff), fetch, verify, merge, load, promote | every snapshot empties the bitmap, every step may fail after that | files and bitmap together always give the guest's memory |
| vCPU admission (`main.py` 797-967) | reservations per sandbox | reserve, release, adopt | failed boots, callers that gave up, a resume admitted on a hint | never more than the capacity, nothing leaks |
| Spot reclaim (`main.py` 3540-4094) | the evacuation of a host and its checkpoint jobs, the journal on the records | preserve the volume, checkpoint every guest, journal | a deadline; the host ends anywhere in it | no guest that was given up comes back old |
| Spot recovery (`recovery.py` 157-430, 1092-1204) | session phases on the records, claims on standbys, EBS attachments | claim, mark, attach, mount, resume, replenish | long sequences across AWS, DynamoDB and nodes, taken up again after a crash, beside the workers | a volume is mounted once; no sandbox lost, doubled or rolled back |
| Repatriation (`recovery.py` 432-1090) | leases of all sandboxes of a host, claim on the Spot target, two volumes | lease, mark, checkpoint, hand off, resume, delete, terminate | as above, and it deletes volumes and terminates hosts | only what nobody needs is deleted; an interrupted handoff is finished |
| Warm pool (`warm_pool.py`) | the items of its members, the journal of a claim on the record | claim, replenish | crash between claim and use, a resume whose answer is lost, a refill of two leaders | a member is used once; every VM is found again; the pool stays bounded |
| Leader lock (`db.py` 601-645) | owner and expiry | acquire, renew, release | `is_leader` read long after the renewal | maintenance of two leaders does no harm |
| Work queue (`operator.py` 829-904) | queue, `_queued`, `_dirty`, timers | enqueue, worker, resync | an update that arrives while the sandbox is in flight | no update is lost |
| Idle detection (`idle_detection.py`, `autosleep.py`) | activity times, connection counts | touch, connection, decide, forget | activity between the decision and the suspend | an active sandbox is not put to sleep |

How they interact: the API writes records and resource specs; the resync and the
watch put resources into each replica's queue; a worker reads resource and
record, takes the lease, calls the driver, which asks node-agents over HTTP, and
writes record and status. All coordination between replicas is the record, its
lease and the resource. The portal, authentication, observability, the
gateway's byte forwarding, the filesystem demo, Terraform and the benchmark
scripts keep no state of this protocol and are not modelled; the legacy
`reconcile.py` runs only with the operator off.

`PROJECT.json` lists every component with its status and every hazard with the
line where it bites.

## 2. Modules

`SandboxLease` is the lease alone, with time. `rem` is the lease's expiry
relative to now; each host reads a clock that is off by `Offset`. `Stall` is
the point from which a host keeps no deadline (a paused pod, no route to
DynamoDB). The assumption `LeaseBudget` says that the failures a renewer rides
out and the error of two clocks fit into one lease; the code's numbers (900 s,
renewed every 300 s) ride out one failure.
`SandboxLeaseProofs` holds its theorems.

`NodeAgent` is the set of nodes as one sandbox sees them: for each node whether
it can be reached (`link`), the runtime entry (`vm`), the guest's memory and the
snapshot on the state volume; and the copy in S3. Data are versions: a write of
the guest makes its memory the newest version, a snapshot copies the version,
and a resume brings it back, so "rolled back" is a comparison of numbers.
Requests in flight are the set `calls`; a caller that gives up leaves its
request to go on alone (`by = None`).

`OperatorLifecycle` extends it with the resource, the record, the lease as its
holder, and one reconcile per replica. Each action is one access to shared
state with the local code around it:

| Action | Code |
|---|---|
| `Fetch`, `Reconcile`, `ReconcileDelete` | `_worker`, `reconcile`, `_reconcile_delete` up to the lease |
| `Drift`, `Settle` | `_reconcile_running_drift`: the probe, then the unleased write |
| `Lease` | `_lease` |
| `WorkCreate`, `WorkSuspend` + `Mark`, `WorkRecover`, `WorkResume`, `WorkDelete` | `_create`, `_suspend`, `_recover_suspending`, `_resume`, `_reconcile_delete`: the second read of the record and the mark |
| `CallCreate`, `CallSuspend`, `CallResume`, `CallDelete` | the driver up to its POST |
| `ReceiveOk`, `ReceiveFull`, `ReceiveError`, `Timeout` | the driver's return or exception, with the record and status written after it |
| `Unlist` | `remove_finalizer` |
| `EnsureCR`, `CreateRefused`, `ApiSuspend`, `ApiResume`, `RequestIdle`, `ApiDelete` | the API's handlers, `crd.ensure`, `_request_idle_suspends` |
| `Crash`, `ExpireLease` | a replica that dies, and the end of its lease |

`SandboxMachine` is the abstract specification: what a client is promised of
one sandbox, without replicas, nodes, records or leases. It boots once, writes,
stops and continues with the memory it stopped with, and is gone for good.
`OperatorLifecycle!ImplementsMachine` is the refinement: `mode` is mapped from
where a guest runs and where a snapshot is, `memory` from the guest's memory
while it runs and from the newest version otherwise, so that a restore of
anything older is a step the abstract machine does not have.

`OperatorLifecycleProofs` holds the theorems about the loop's fence and journal,
`OneVmProofs` extends it with those about the guest and the refinement.

`StateVolume` is what EC2, the hosts and the volumes are to recovery: instances,
attachments, `DeleteOnTermination` (`keep`), mounts, runtime entries, and for
each sandbox how its snapshot on the volume and its copy in S3 compare with the
guest (`current` or `stale`). `SpotRecovery` extends it with the records, the
claims, the heartbeats, the evacuation of a reclaimed host, the reconcile
workers reduced to their effect on a record in recovery, and the recovery pass.
`SpotRepatriation` extends that with the way back and the whole next-state
relation. `SpotRepatriationProofs` holds the proof of its types and what each
action does to a sandbox, `GuestVolumeProofs` extends it with the theorems about
guests and their volume.

| Action | Code |
|---|---|
| `Detect`, `Preserve`, `CkStart`, `CkWrite`, `CkDone`, `CkFail` | `_evacuate_local`, `_preserve_state_volume`, `_checkpoint_one` between its accesses to the table and to Firecracker |
| `Heartbeat`, `HeartbeatExpire` | `_heartbeat_once`, `list_active_nodes` |
| `WorkStart`, `WorkCall`, `WorkDone` | a worker's suspend, resume or delete: the mark under the lease, the node's answer, the outcome written |
| `RcRead`, `RcLookup`, `RcClaim`, `RcMark`, `RcAttach`, `RcMount` | `reconcile_once`, `_recover_session` in its order |
| `RcStart`, `RcBoot`, `RcDone`, `RcFail`, `RcEnd` | `_resume_one` per sandbox in its thread; `_ensure_standby_capacity` |
| `RpRead`, `RpLease`, `RpEmpty`, `RpDiscard`, `RpTarget`, `RpMark` | `_repatriate_recovery_hosts`, `_repatriate_host`, the first part of `_repatriate_host_locked` |
| `RpSave`, `RpFlag`, `RpNoGuest`, `RpHandoff` | `_checkpoint_for_repatriation`; `assert_held` and the renewed claim |
| `RpUnmount`, `RpDetach`, `RpUnmountReplaced`, `RpDetachReplaced`, `RpAttach`, `RpMount` | the handoff of the two volumes |
| `RpReturn`, `RpBoot`, `RpDone`, `RpBootFails` | the records and `_resume_repatriated` |
| `RpHealth`, `RpRelease`, `RpTerminate` | the health check, the deletion of the replaced volume, the end of the host |
| `Crash`, `LeaseLost` | the operator dies or a request fails; a renewal fails |
| `Deadline`, `Terminate`, `StandbyLost`, `StandbyJoins` | EC2 |

`SnapshotFiles` is one sandbox's memory page by page: the guest (`mem`), the
bitmap (`dirty`), the files (`base`, `diff`, a page of a sparse file being data
or a hole), the inplace marker, and whether the manifest fits (`sealed`). Its
actions are `op_snapshot_base`, `op_checkpoint`, `op_template_publish`,
`op_suspend` (`SuspendFull`, `SuspendDiff`), the fetch from S3 and
`_op_resume_impl` (`Resume`), each with one more action for every failure that
leaves the files or the bitmap changed. `lapse` is not in the code: an action
sets it when it loses track of pages, and the properties are about what happens
until then. `GuestMemory` is what suspend and resume promise, the abstract
specification `SnapshotFiles` implements (`ImplementsGuestMemory`); after a
lapse it promises nothing any more.
`SnapshotFilesProofs` holds its theorems.

`PoolNode` and `WarmPool` are the warm pool with several sandboxes and members
on a node. `PoolNode` has per node and id the runtime entry (`vm`), the member
whose directory it runs in (`from`) and the committed vCPUs (`used`), with the
requests in flight. `WarmPool` adds the leader lock and who believes it leads,
the members' items, the records, and per replica a creation or deletion (`job`)
and a refill thread (`refill`). `lost` is not in the code: an action adds to it
an id whose VM it lets go of.

| Action | Code |
|---|---|
| `Lead`, `LeadFails`, `LockExpires` | `_leadership_loop`, `acquire_leader_lock` |
| `Replenish`, `MakeMember`, `MemberRuns`, `MemberElsewhere`, `MemberWarm`, `MemberFails` | `_replenish_warm_pool`, `replenish` |
| `Create`, `ClaimAgain`, `ClaimMember`, `ClaimJournal` | `_create`, `claim`, `claim_warm_item` up to the resume |
| `ClaimRetries`, `ClaimClear`, `ClaimFinish` | the second attempt after a probe, the fallback, the end of `claim` |
| `Place`, `Booted`, `Elsewhere`, `BootFails` | `driver.create`, `_operation_failed` |
| `Delete`, `DeleteUnplaced`, `Destroyed`, `DestroyFails` | `_reconcile_delete`, `driver._destroy` |
| `AdmitCreate`, `Boot`, `AdmitResume`, `ResumeDone`, `Fails` | `op_create`, `op_resume` under `_with_vcpu_reservation`: admission, then the rest |
| `OpSuspend`, `OpDestroy`, `Timeout`, `Crash` | the handlers; a caller that gives up, a replica that dies |

`WarmPoolProofs` holds the theorems about the pool's types and about who uses a
member; `WarmPoolAccountProofs` extends it with those that count: vCPUs, VMs and
members, and begins with what it needs to know of sums over finite sets.

`MCSandboxLease`, `MCOperatorLifecycle`, `MCSpotRecovery`, `MCSnapshotFiles`
and `MCWarmPool` give the constants for TLC.

Operators whose comment starts with "Faulty" are plausible errors of the code.
They are used by no action: putting one in the place of its correct neighbour
shows that the property it is meant for can fail.

## 3. Runs

| Run | Instance | Question |
|---|---|---|
| `lease` | 3 operations, lease 6, renewal 1, latency 1, one failure, clocks ±1, with fairness | does the lease exclude until a host stalls, and is it always given on |
| `lifecycle_replicas` | 2 replicas, 2 nodes, 2 operations, one crash, one timeout, one failed upload | do replicas, retries and abandoned requests keep one VM with its latest memory |
| `lifecycle_single` | 1 replica, every fault of a request or of Kubernetes once, deletion, with fairness | does the client see the abstract machine, and does the loop converge |
| `lifecycle_nodes` | 1 replica, 3 operations, a node that dies, one that is cut off, an agent that restarts, a crash, deletion | do journal and fence hold, and does nothing that is recorded as suspended or slept run until a node is lost |
| `spot_recovery` | 2 sandboxes, of which clients ask something of one, a reclaimed host, a Spot host to return to, 2 standbys of which one must be ordered, one fault or request, with fairness | does recovery, and the way back, keep the guests on their volume, their memory and their data, and get to an end |
| `snapshot_generations` | 2 pages of 3 values, both diff modes, any number of operations and failures | do the files give the guest its memory back |
| `warm_pool` | 2 replicas, 2 sandboxes, 2 members for a pool of one, 2 nodes with room for one VM and a half, one fault | is a member used once and every VM found again, do vCPUs leak, how far do two leaders overfill |
| `delete_race`, `orphan_rollback`, `recover_suspending`, `idle_race`, `resume_twice` | the smallest instance each needs | violations, see section 5 |

Bounds. Two replicas and two nodes are the smallest numbers at which a stale
reader, a retry elsewhere and a second VM exist. `MaxOp` 2 lets a second
request arrive in the middle of the first one and be followed to its end;
together with the creation that is a full create, suspend, resume cycle. Two are
too few for a sandbox that goes to sleep again after a resume, which is where
`slept` goes wrong (section 4): `lifecycle_nodes` has three. `lifecycle_single`
was also checked with three (850,000 states), liveness included; the run that is
kept is the shorter one.
`MaxVersion` 2 tells the last write from the boot. Three requests in flight are
a live one and two that were given up. Every fault may happen once per run and
in any order; the runs choose which kinds come together. The lease's numbers
are the smallest at which a renewal can fail, come late and meet a fast and a
slow clock, with no slack in `LeaseBudget`'s left side beyond the rounding.

`spot_recovery`: two sandboxes are the least at which one is late, given up or
deleted while the other moves on, and by symmetry the one clients ask something
of is any. The host to return to has a volume of its own, which the handoff
replaces, and the second standby is there for the first one's loss and for
replenishment. `Budget` counts faults and client requests together: with one,
every crash, failed request, lost lease, lost standby, late or failed journal
and every suspend, resume or delete happens at each step of an evacuation, a
recovery and a return. The number of passes is not bounded: after the fault the
next ones run to the end. The safety properties were also checked with both
sandboxes asked and a budget of two (10 million states), with a single standby
and a budget of three (3.5 million) and with one sandbox and a budget of six
(5.9 million); the run that is kept is the one that ends in minutes and includes
liveness.

`snapshot_generations` needs no bound on its operations. Two pages tell a page
that was written from one that was not, three values tell the untouched page,
its value at the last snapshot and the one after.

`warm_pool`: two replicas are two leaders or two creations that want one member;
two members are what two leaders make for a pool of one. The capacity of three
for guests of two makes a node full for a boot while a claimed member, admitted
on a hint of one, still fits. The ids of members are used up, which bounds the
run: a pool that refilled for ever would repeat itself. The one fault comes at
any step; with one sandbox the properties were also checked for two faults
(580,000 states). The instance is symmetric in every set, and only safety
is checked.

Deadlock is checked wherever the sandbox cannot be deleted; after a deletion
the system really stops. `spot_recovery` really stops when the last host is
gone or nothing is left to move, and `snapshot_generations` when a resume's
registration fails after its promotion. `warm_pool` stops when both sandboxes
are deleted and no member is left to make.

Fairness. `lease`: an operation ends because every driver call has a timeout; a
live thread runs; the resync offers a refused operation again; time passes.
`lifecycle_single`: weak fairness of each replica's step, since its workers run
and `_maintenance_loop` queues every resource again and again; of the
node-agents' handlers, which answer or fail; and of the expiry of a dead
replica's lease. No client and no fault is fair. `spot_recovery`: weak fairness
of what goes on by itself (heartbeats, the evacuation's threads, time, the node
group, a worker's operation) and of a pass that has begun; strong fairness of
the beginning of a recovery and of a repatriation, because `reconcile_once`
looks for both each time the loop runs, and a pass of one kind only defers the
other. Nothing makes EC2 reclaim or end a host.

Assumptions of the models, each a limit of what the runs show:

- a request to a node is handled in the order of sending among the requests of
  that sandbox on that node (`_vm_operation_lock` is an RLock without a queue);
- requests a dead or impatient caller leaves behind are over when its lease
  runs out (15 minutes), except an upload;
- an API handler's check and its patch are one step;
- S3 snapshots are on, their default (`SNAPSHOT_TO_S3` with a bucket);
- `_create` boots a VM; the claim of a warm member is in `WarmPool`;
- partial states within one node operation (base, diff, merge) are in
  `SnapshotFiles`, not in `NodeAgent`.

For `SpotRecovery` and `SpotRepatriation`: evacuation, recycling and
replenishment are switched on; one pass at a time, that of the leader; a claim
on a Spot host does not expire during a handoff; EC2 attaches and detaches at
once (an attachment that takes too long is a failed request); a request of an
operator that died happened or never does; agents do not restart during a
session; the Spot host that takes the sandboxes back is not reclaimed itself;
a worker's suspend uploads to S3, a checkpoint does not; drift is left to
`OperatorLifecycle`. A list of sandboxes and the leases taken for it are one
step, because an item that is deleted in between refuses its lease.

For `WarmPool`: all nodes can be reached and their agents do not restart;
requests for one id on a node are handled in the order of sending; the index the
pool is listed by may lag only as "no candidate", and its count is exact; the
lease of a dead replica has run out when the next one begins; a failed creation
is repeated only when the status of its failure was not published (in
`OperatorLifecycle` that is a step of its own); two writes at the end of a claim
are one, since nobody reads the item between them.

For `SnapshotFiles`: `_vm_operation_lock` serialises the operations of one
sandbox, so each is one action; Firecracker is external: a snapshot or a load
it completes empties the bitmap, and a Diff is written into an existing
`vm.mem` without truncating it; `sparse` is used on filesystems that keep holes
page by page (`main.py` 1359-1366); S3 has what the last suspend uploaded.

## 4. Properties

Safety: `Fenced` (only the lease holder is past the lease, and only its request
is awaited), `OneVm`, `LatestRuns`, `StoppedWhenSuspended` and
`StoppedWhenAsleep`, `NoVmAfterDelete`, `Journaled`; for the lease
`ExclusiveUntilStall`, `NeverLost`, `NoKeyOnlyItem`, `NoInterference`; for
recovery `GuestOnItsVolume`, `RunningIsTrue`, `NoRollback`, `KeepsRecovered`;
for snapshots `NextDiffBuilds`, `SuspendedIsWhole`; for the pool `SourceOnce`,
`Accounted`, `Reserved`, `PoolBounded`. Refinement:
`ImplementsMachine`, `ImplementsGuestMemory`. Liveness: `DeleteCompletes`,
`EventuallyObserved`, `NoStuckTransition`, `Converges`, `EventuallyServed`,
`NoneLeftBetween`.

`NoVmAfterDelete` holds with one replica and fails with two (`delete_race`);
`OneVm` holds with two replicas as long as no node dies, and fails when one dies
and a replica crashes during the resume elsewhere (`resume_twice`); with a
partition two VMs are inherent, because nothing fences a node that is cut off.
`StoppedWhenSuspended` is about the state `suspended`, `StoppedWhenAsleep` about
`slept` too, both until a node is lost (`NodesStay`). What they leave out fails,
as TLC found with three operations:

- `reconcile` writes `slept` over a suspended record without the lease and
  without a condition (`operator.py` 293-300). With two replicas, and no fault
  at all, the second one can do so after the first has resumed the sandbox: the
  record says `slept` over `running`, while the guest runs. So `StoppedWhenAsleep`
  is checked and proved for one replica;
- a node dies, the sandbox is resumed elsewhere, the replica crashes before the
  record has the new node, and the retry resumes it a second time on the first
  node's replacement (`resume_twice`). The next suspend stops one of the two and
  records the sandbox as suspended.

`NoStuckTransition` is checked without agent restarts: an agent that restarts
has forgotten a suspended VM, the probe answers "unknown", and a suspend that
was interrupted stays in `suspending`.

`NextDiffBuilds` and `SuspendedIsWhole` hold until a lapse, and TLC shows that
each lapse is needed: without any one of its marks one of the two fails. They
are the ways in which the code loses pages of a guest:

- the base is replaced, by `op_snapshot_base` or `op_checkpoint`, while an older
  `vm.mem` lies there, into which the next sparse diff is written;
- a base snapshot breaks off when the bitmap is already empty; its partial file
  counts as a base (1893-1904);
- a checkpoint fails between its Diff and `os.replace` (1953-1970);
- `op_template_publish` takes a Full of a sandbox that has a base (2001-2035);
- an inplace suspend fails after its snapshot was completed (2256-2267), and the
  next one starts from a clone of the base;
- a first suspend fails between the two copies under `inplace`;
- a resumed inplace image is not promoted (2615-2622); or a merged one loses
  `vm.mem` and not its name (2623-2633: the comment there expects the next
  suspend to fall back to Full, but it does so only without a base);
- the registration fails after the promotion (2658-2666): the VM is stopped and
  the files of its snapshot are gone.

`NoneLeftBetween` says what it expects of a record in a takeover (`InTakeover`)
and in a handoff (`InHandoff`). What it leaves out does stay between two hosts,
as TLC found:

- a recovery or a return that dies after its first resume: the mount is refused
  where sandboxes are (3394-3466), so the others never follow;
- a failed suspend that writes `running`, or a failed delete that writes
  `failed`, over a record in recovery: the handoff then looks for a guest that
  is not there, or unmounts under one that is and is refused;
- a checkpoint that is journaled after its deadline opens its session again when
  the volume has moved on;
- a recovery host that is lost in the middle of a handoff leaves `repatriating`;
- `RcMark` brings a record back that was deleted after the list was read.

The last of these is what `GuestOnItsVolume` and `NoRollback` leave out too. A
recovery pass writes its records without a condition (`force_update`, 299-307
and 1165-1197). A sandbox that slept, was resumed and journaled, and is deleted
by its client after the pass has listed it, is resumed from its old S3 copy:
TLC finds this with a budget of two when the exclusion of deleted directories is
taken out of `NoRollback`. The record it gets may name the recovery host and no
recovery target (`Ghost`). No list by target contains it, so that a return whose
heartbeat is out of date discards the volume of a host that seems empty, and the
sandbox runs off its volume until the host is terminated: TLC finds this with a
budget of four when the exclusion is taken out of `GuestOnItsVolume`.

`Accounted` leaves out the VMs that were let go of (`lost`). TLC shows that each
of the four steps that add to it is needed:

- `ClaimJournal`: a creation that crashed or failed in a boot whose VM came up
  is retried, finds a member in the pool and journals its node over that of the
  boot (`warm_pool.py` 95-103). The first VM stays on a node no record names.
  The comment in `driver.create` (`firecracker.py` 137-141) says that the
  placement is journaled so that a retry does not make a second VM elsewhere;
  that holds for the boot alone, not for the claim that comes before it;
- `ClaimClear`: after a second resume without an answer the journal is cleared
  (153-161) and a VM is booted anywhere, while the resume may still succeed;
- `MemberFails`: a refill that fails deletes the item only (214-224). A member
  that runs goes on running, and its vCPUs stay committed until the agent is
  restarted;
- `Crash` of a refill between the member's creation and its item.

`Reserved` says "all it takes, except for a claimed member": its resume is
admitted on a hint of one vCPU (`main.py` 2429-2436), and when the node is full
by the time the guest's threads are counted, the reservation stays at that. A
claim also ignores the vCPUs and the memory the request asked for, and copies the
member's `snapshot_s3` into the record (105-123), so that a sandbox that is lost
before its own first suspend can be resumed from the blank member.

`KeepsRecovered` is about sandboxes that were given a target, for as long as the
host they were given is up. What it leaves out does lose the only copy of a
sandbox, as TLC found:

- one that was journaled after the pass had given it up has no target until the
  next pass. When the others are deleted on the recovery host in the meantime,
  `_repatriate_recovery_hosts` finds no record with that host as target, and the
  volume with the only copy is deleted (553-588; the comment at 551-552 calls it
  "any now-unused state volume"). Two sandboxes and one request, 28 steps;
- a standby is lost in the middle of a recovery, and a worker's suspend, begun
  before the reclaim, fails late and writes `running` over `attaching`
  (`operator.py` 545-560). The next recovery no longer lists that sandbox, whose
  target is the lost host; when the others have left the new one, the volume is
  deleted (two sandboxes, three faults and requests, 38 steps).

## 5. Disagreements between the code and its own statements

Each is a run with expectation `violation`; `PROJECT.json` quotes the lines.

1. `delete_race`: a replica with a resource read before its deletion puts the
   record again (`_ensure_record`) and boots a VM after the finalizer is gone.
2. `orphan_rollback`: a lost running sandbox becomes `orphaned`, and the next
   reconcile resumes an orphan with an old snapshot, which the comment in
   `_reconcile_running_drift` rules out.
3. `recover_suspending`: a suspend completed by another replica is recorded
   before the upload ended, against "suspended if and only if S3 has it".
4. `idle_race`: a manual suspend during an idle one ends in `slept`, which a
   request wakes.
5. `resume_twice`: `driver.resume` does not journal a new placement.

A suspend whose upload fails leaves a record in `running` without a VM, because
the VMM is stopped before the upload (`main.py` 2276); the comment at `app.py`
815 expects the VM to be running again. `StoppedWhenSuspended` is about what
such a failure may not lead to.

## 6. Proofs

`SandboxLeaseProofs` (assumptions `LeaseAssumption`, the types of the constants,
and `LeaseBudget`, the timing the code's numbers satisfy):

| Theorem | Argument |
|---|---|
| `TypeCorrect` | one step per action; the lease clock never leaves its range |
| `LeaseExclusive`, `LeaseNeverLost` | `HealthyInv`, below |
| `LeaseNoKeyOnlyItem` | the writes of acquire, renew and release are conditional on an attribute only a whole item has |
| `LeaseNoInterference` | a step that changes a held lease is its holder's, stalls or not |

`ExclusiveUntilStall` is not inductive: nothing in it says that the lease of an
operation at work lasts until its next renewal. `LeaseInv` adds that: whoever
works holds the lease and is `Covered`, so that what remains of it pays for
every failure the renewer may still ride out, the wait for the next renewal and
the error of two clocks. Since the renewer's own state decides how much that
is, `RenewerInv` says how a renewer's phase and its operation go together. The
only products in the argument are those of a renewal period and a count of
failures; `FailureStep` and `FailureBound` isolate them, and the rest is linear.

`OperatorLifecycleProofs` (assumptions `NodeAgentAssumption` and
`LifecycleAssumption`: `None` is neither a node nor a replica, and the bounds
are numbers), with every action of the reconcile loop, the API, the nodes and
every fault:

| Theorem | Argument |
|---|---|
| `LifecycleTypeCorrect` | one lemma per kind of step (API, local step of a replica, driver, node) |
| `LifecycleFenced` | `FenceInv`, below |
| `PlacementJournaled` | from the fence |

`Fenced` is not inductive either: it does not say that the request a replica
awaits is the one it sent last. If another request were still awaited when the
lease is given up, it would outlive it. `FenceInv` is `HolderAtWork` (a replica
past the lease holds it) and `AwaitedWaits` (an awaited request belongs to a
replica that waits, and nobody awaits two). The lemmas `LocalStepEffect` and
`DriverStepEffect` reduce the twenty steps of a replica to what they do to the
fence: the others stay where they are, and the replica goes on under its lease
or ends up outside of it with nothing awaited. `Journaled` then holds because a
step that could overwrite the record's node in the middle of a create belongs
to a replica that holds the lease and is not waiting, so nobody awaits anything.
The unleased writes (`Settle`, the put of `_ensure_record`) leave the node of a
live record alone.

`SnapshotFilesProofs` (assumption `SnapshotAssumption`: `Zero` is a value and
`Hole` is none), for any set of pages and of values:

| Theorem | Argument |
|---|---|
| `TypeCorrect` | `FilesInvariant` |
| `FilesInvariant` | `IInv`, below; one lemma per action |
| `DiffBuilds`, `SuspendedWhole` | from `IInv` |
| `KeepsTheGuest` | the initial states and, under `IInv`, each action is a step of `GuestMemory` or a stutter |

No part of `IInv` is inductive alone. That a suspend leaves a whole snapshot
needs `NextDiffBuilds` before it: the pages the diff leaves out must be in the
files. That the next diff builds on what a resume promotes needs
`SuspendedIsWhole` before it. And that a resume loads memory at all, rather than
a hole (`TypeOK`), needs it too: what is marked as whole is whole. So `IInv` is
the conjunction of the three, and it is the run's properties that are inductive
together, without any further clause. The refinement follows: the only step
that could change the guest's memory other than by a write is a load, and under
`SuspendedIsWhole` it loads what was there.

`SpotRepatriationProofs` (assumption `StateVolumeAssumption`: Spot hosts and
standbys are different hosts, none of them is named like a state, `None` is none
of them and no state of a volume, the host that is reclaimed is a Spot host, and
the budget is a number) proves `SpotTypeCorrect`, the type correctness of the
whole recovery, with one lemma for each action and `StepType` over them all. The
types alone are not inductive: a step uses what its pass read some steps before,
so `TypeOK` also says what each stage of a pass stands on (`Stage`): a recovery
works for a Spot host, a return for a standby, leases are held only in a return,
and jobs exist only where one is resuming, restoring or ending. `StageAtGiveUp`,
`StageAtFinish`, `StageOfRecovery` and `StageOfReturn` are the ways in which a
pass moves on. The lemmas about record updates exist because the provers do not
see through nested `EXCEPT`. The second half of the module proves `VolumeInv`,
which is about hosts, mounts and passes only (a mounted volume is attached, a
pass works with the host it chose, a handoff never replaces the volume it moves),
and states for each action what it does to one sandbox and what it leaves alone.

`GuestVolumeProofs` (the same assumption) proves the safety of recovery:

| Theorem | Argument |
|---|---|
| `GuestsOnTheirVolume`: `GuestOnItsVolume` | `GuestsInv`: `VolumeInv` and `SandboxInv` of every sandbox |
| `RunningStaysTrue`: `RunningIsTrue` | `GuestsInv`: `TruthInv` of every sandbox |
| `RecoveredAreKept`: `KeepsRecovered` | `KeptInv`, on top of `GuestsInv` |
| `NeverRolledBack`: `NoRollback` | `CopyInv` of every sandbox, on top of both |

- `GuestOnItsVolume` is lost not where a guest starts but where a volume is
  unmounted under one, and what prevents that is spread over everybody's state.
  `SandboxInv` has it in eleven parts. A handoff has in its view every sandbox
  whose target is its host, and keeps the lease of each (`LeaseInv`, `ViewInv`);
  once they are marked, no worker begins anything on them, and after the last
  check none is still at work, even when a lease is lost from then on
  (`MarkedInv`). A job resumes what its pass marked, where the pass mounted the
  volume (`JobInv`). A sandbox that a recovery has has left the first host for
  good: no guest runs there, and no request of a worker can start one
  (`ParkedInv`, with `StillInv` for the worker that stops or starts one there
  during the reclaim). One that was recovered is on its target, with the volume,
  or still waits (`HomeInv`). The rest says where a record and a worker may be
  at all (`PlaceInv`, `EndedInv`) and what a record that was brought back after
  its deletion can do (`GhostInv`).
- `RunningIsTrue` also needs the outcomes that are still to be written: of a job
  that has an answer, and of a worker that comes too late with one about another
  host than the record's (`RunsInv`, `WorkerInv`); that a record which is said to
  run has no worker about to stop it there (`BusyInv`); and that the state a
  handoff noted to write back later is about a guest nobody has touched since
  (`OrigInv`, `WayInv`).
- `KeepsRecovered` relates the deletion of a volume to claims made passes before.
  `ClaimInv`: a claim is never taken back, a claimed host stays in the registry
  while it lives, and so a recovery finds the host it claimed before instead of
  claiming a second one: at most one live standby has a claim. `TakenInv`: a
  target on a standby has that claim, a target on a Spot host has the volume.
  `KeepInv`: from the reclaim on the volume outlives its hosts. A pass that
  deletes the volume has no record with its own host as target; a live target
  would be another live standby with a claim, or a Spot host with the volume, and
  neither exists.
- `NoRollback` looks at one moment, the start of a guest, but what it starts from
  was written long before, by others. `CopyInv` follows the copies: the snapshot
  on the volume, the one in S3, and the guest that is ahead of both. An agent has
  an entry of a sandbox only where the volume is (`EntryInv`), on a host that
  lives and was claimed, so that no host that joins later finds one
  (`PlacedInv`); an entry that is suspended has its snapshot (`LeftInv`). Whoever
  is going to start a guest then has the latest copy: a worker, because a record
  that says `suspended` is true, and so is the one its suspend is about to write
  (`AsleepInv`); a recovery, because the checkpoint was written before the
  reclaim ended, or the guest is already up where the record says (`FreshInv`); a
  handoff, because it saved what ran before it moved the volume (`SavedInv`), or
  noted it as suspended and nobody touched it since (`NotedInv`). `Started` lists
  these three, and `ResumeRestores`, `RecoveryRestores` and `HandoffRestores` are
  the cases of the theorem. Most steps leave a sandbox alone: that is `Calm` for
  its copies and `Onward` for the pass, and `CalmCopies` disposes of them at
  once; the others have a lemma each.

The steps on one sandbox leave the others alone (`OneSandbox`); the steps of a
host or of a pass are reduced to what they do to hosts, registry, pass, volume
and target (`RegistryStep`, `PassStep`, `HomeStep` and the like), and the
invariants are preserved shape by shape. TLC checked the invariants before they
were proved, with one sandbox and a budget of four (1.5 million states) and with
two and a budget of two.

`WarmPoolProofs` (assumptions `PoolNodeAssumption`: sandboxes and members are
finite and different ids, `None` is neither a node nor a member, a guest has a
vCPU; and `WarmPoolAssumption`: `None` is no replica or sandbox, there are
finitely many replicas, the pool's size is a number) proves `PoolTypeCorrect` and `SourceHandedOverOnce`, for any number
of replicas, nodes and faults. `SourceOnce` speaks of VMs and directories only,
and nothing in a single step keeps it; `PoolInv` is why it holds, in three
layers that are preserved one on the strength of the other:

- `Control`, over the control state: a creation works under its lease alone
  (`JobInv`), a refill makes one member (`RefillInv`), and a member that a record
  or a creation names stays claimed (`GivenInv`) and is named by one sandbox
  (`OneGiven`). Requests and VMs do not enter, so that no handler can disturb it.
- `Custody`, over the directories: who uses a member, or may still be restored
  from it by a request that nobody waits for any more, is the one it was given to
  (`OneUser`), on the node of its item (`OnePlace`); a member that was used is
  never warm again (`UsedInv`). Every step is first shown to do to it only what
  `Kept` says: a request continues one or asks for what its sandbox was given.
- `MemberInv` and `QuietInv`, over the members' own VMs: a refill waits for the
  only request there is for its member, and once a member waits to be claimed, or
  is used, none of its VMs runs and none can still come up. This is where a
  refill that gives up matters: its member is deleted, so no one can claim a
  directory whose VM comes up late.

`WarmPoolAccountProofs` (the same assumptions) proves the other three properties
of the pool, so that all of `warm_pool`'s safety is proved:

| Theorem | Argument |
|---|---|
| `VcpusReserved` | `VcpuInv`, over requests and reservations |
| `VmsAccountedFor` | `MadeInvs`, `AnswerInv` and `FoundInv`, on top of `PoolInv` and `VcpuInv` |
| `PoolSizeBounded` | `SizeInv`, on top of `PoolInv` |

- `Reserved` lacks what a handler at work knows: a request that has begun starts
  a VM that does not run yet, has its vCPUs, and is the only one of its id on its
  node (`BegunInv`), since it holds the id's lock.
- `Accounted` speaks of VMs that run; what makes it hold is where one may still
  come up. For a member (`MadeInv`) that is only where its refill waits for it.
  For a sandbox (`Found`) it is only the record's node, and nowhere at all once
  every node a creation tried was full, since the record is written over then.
  That the answer "full" or "destroyed" is worth something is `Last`: the node
  works on one request of an id at a time, and the answer a replica waits for
  comes from the request sent last, so nothing sent before can still start a VM.
  The proof reduces the steps of a creation or deletion to a `Turn`: what they do
  to the requests of the sandbox and to the record. A request that timed out is
  heard by nobody any more, and its sandbox is `lost` only if the code lets go
  of the VM.
- `PoolBounded` counts at the end of a refill what was decided at its beginning.
  `FilledInv` counts the members that refills will still make as if they were
  there; a refill starts by adding no more than one pool (`FilledInv` again), and
  the refills that are not the leader's are as many as there were faults at most
  (`BehindInv`): a replica that refills without the lock had a fault to get there.

These proofs need sums (the vCPUs of a node, the members that all refills will
make) although the provers can use no induction over finite sets.
The module first proves about `SumOver` what is needed of it (a sum is a number,
adding, removing and changing one summand, a bound, a support) by the smallest
counterexample instead: a set of subsets of a finite set that is not empty has a
member without a smaller one in it (`LeastSubset`), and a statement that is false
is false of such a subset.

`OneVmProofs` (the assumptions of `OperatorLifecycleProofs`) proves where the
guest of a sandbox can be. But for the last two, its theorems are about a sandbox
that is not deleted (`~MayDelete`: with a deletion and two replicas a second VM
is possible, run `delete_race`), for any replicas, nodes, operations and budgets
of faults, those of nodes included:

| Theorem | Until | Argument |
|---|---|---|
| `RunsOnce`: `OneVm` | a node dies or is cut off | `Sited` |
| `SuspendedStays`: `StoppedWhenSuspended` | a node dies or is cut off | `Stopped` |
| `SleepsAlone`: `StoppedWhenAsleep`, one replica | a node dies or is cut off | `Asleep` |
| `RunsTheLatest`: `LatestRuns` | that, or an agent restarts | `Remembered` |
| `ImplementsMachineUndeleted`: `ImplementsMachine` | budgets without these three | `Refines` |
| `DeletesWhileNodesStay`: `NoVmAfterDelete`, one replica, with deletions | a node dies or is cut off | `Deletable` |
| `DeletesForGood`: `NoVmAfterDelete`, one replica, with deletions | budgets without these two | `Deletable` |

`OneVm` is far from inductive: a request that a crash or a timeout left behind
may start a guest long after its replica has gone on, or the next has taken over.
`GuestInv` is why that does no harm:

- `Control`, over resource, record and replicas. A reconcile under the lease
  stands on a record that nobody else moves: the node of its suspend or resume
  is the one the record still names (`StageOf`), the awaited request is the last
  one sent (`LastSent`), and only a create is turned away for want of a vCPU.
  What is written without the lease is never a placement (`Placed`).
- `Sited`: a VM, and a request that can start one, is only on the node the record
  names. The record moves to another node only once the old one has turned the
  create away. An answer "full" to the request sent last says that the old node
  has no VM and, because its lock is given in the order of sending, that no
  request there can still start one.
- `Stopped`: while the record says `suspended`, no request that could start a
  guest is queued and none runs. A suspend that answered was sent last, so its
  node has none left before it. One whose replica died leaves the record in
  `suspending` until the lease has run out, and by then none is left either.
- `Remembered`, over memory and snapshots: who runs has the last write, a
  suspended VM's own snapshot is the last write, and a node without a VM has no
  snapshot at all. An agent that restarts forgets a suspended VM whose snapshot
  stays, which is where this ends.
- `Asleep` adds `slept` for a single replica: what it settles is what it read,
  since no other replica moved the record meanwhile.

The steps are reduced first. What a replica does outside the driver is `Local`
(it stays outside, takes the lease, goes on under it or stops), what it does with
the driver is `Driver` (it sends one request, ends, or takes another node), and
a node's step is `NodeShape`: one request advances, a VM comes up only on behalf
of one that was queued, links stay up. The layers are then preserved shape by
shape. The refinement follows from `Remembered` and `Sited` (`Seen`: what the
client sees, read off the only VM): with these a create that starts a guest is
the `Boot`, a resume the `Restore`, and every step of a replica a stutter.

`NoVmAfterDelete` is about a record that is put, deleted and put again, so that
`Control`, where the record stays, does not help. `Deletable` is the invariant
for one replica (`OneReplica`; with two the property fails, run `delete_race`).
`InPlace`: the guest, and every request that can start it or that anybody awaits,
are at the record's node. `Listed`: once the resource is gone, or the record is
gone while the resource remains, the record names no node, and that resource is
being deleted, so that nothing is put for it again. Together they say that what
is left of a removed resource is nothing: no VM, and no request that could still
start one. `Reading` is the only replica's part: what it read is still so, since
nobody else puts or removes a record; in particular a reconcile that read the
resource before its deletion ends before the next one can remove the finalizer.
`InPlace` has to survive the removal of the record, and does because the answer
to the destroy was the last request's of its node (`Quiet`). TLC checked
`Deletable` with every fault but those of nodes (4.5 million states).

Only model-checked: the refinement with a deletion, which holds for
a single replica; and the liveness properties (`DeleteCompletes`,
`EventuallyObserved`, `NoStuckTransition`, `Converges`, `EventuallyServed`,
`NoneLeftBetween`), which the proof system cannot reach.

## 7. Not modelled, and what is left

In the order in which it would be taken up:

1. Two recovery passes at once. A deposed leader goes on for a while (`db.py`
   601-645): in the model of one sandbox `NoRollback` then fails, since it
   claims a second standby and overwrites the target, and a repatriation that
   sees no records on a host terminates it with its guests. A lock with time
   would say how long "a while" may be.
2. The warm pool with nodes that are lost or restart, and with the drift check.
3. `WorkQueue`: `_queued`, `_dirty` and the timers implement the fairness of
   `Fetch`; then convergence with two replicas.
4. API handlers in two steps (check, patch); the idempotency index; the adoption
   of running VMs' vCPUs by an agent that restarts.
5. Proofs: the refinement with a deletion, for a single replica, from
   `Deletable`.

Also noted while reading, and outside of the models: `repatriation_checkpointed`
and `repatriation_original_state` are never cleared, so that a second return of
the same sandbox skips its checkpoint and then finds a running guest;
suspended sandboxes of a reclaimed host are in no session, and without S3 they
stay on a volume nobody mounts; a volume that could not be preserved is not
tried again; `aws s3 sync` compares size and time, and a promoted base has the
older time of the file it was renamed from.

The portal, authentication, observability, the gateway's byte forwarding, the
tap pool, the filesystem demo, Terraform, the benchmarks and the legacy
reconciler are not modelled: they keep no state of these protocols, or run only
instead of the operator.
