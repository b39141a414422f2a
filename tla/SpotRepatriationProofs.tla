------------------------ MODULE SpotRepatriationProofs ------------------------
(***************************************************************************)
(* Spot recovery and repatriation, for every set of sandboxes, Spot hosts  *)
(* and standbys and every fault budget.  First type correctness: each      *)
(* action has a lemma of its own, that it keeps the type of every variable *)
(* it assigns and what TypeOK says of the stage a pass is in.  Then        *)
(* VolumeInv, about the hosts, the volume and the pass, and what each      *)
(* action does to one sandbox, which the proofs about guests rest on.      *)
(***************************************************************************)
EXTENDS SpotRepatriation, FiniteSetTheorems, TLAPS

-----------------------------------------------------------------------------
(* Updates of a record. *)

LEMMA StateIs ==
    ASSUME NEW r \in Record, NEW state \in RecState
    PROVE  LET q == [r EXCEPT !.state = state] IN
           /\ q \in Record
           /\ q.state = state
           /\ q.sess = r.sess /\ q.tgt = r.tgt /\ q.node = r.node
           /\ q.orig = r.orig /\ q.saved = r.saved
    BY DEF Record

LEMMA JournaledIs ==
    ASSUME NEW r \in Record, NEW state \in RecState, NEW n \in Spot
    PROVE  LET q == Journaled(r, state, n) IN
           /\ q \in Record
           /\ q.state = state /\ q.sess = n
           /\ q.tgt = r.tgt /\ q.node = r.node
           /\ q.orig = r.orig /\ q.saved = r.saved
    BY DEF Record, Journaled

LEMMA BoundIs ==
    ASSUME NEW r \in Record, NEW state \in RecState, NEW n \in Place
    PROVE  LET q == Bound(r, state, n) IN
           /\ q \in Record
           /\ q.state = state /\ q.tgt = n
           /\ q.sess = r.sess /\ q.node = r.node
           /\ q.orig = r.orig /\ q.saved = r.saved
    BY DEF Record, Bound

LEMMA PlacedIs ==
    ASSUME NEW r \in Record, NEW n \in Place
    PROVE  LET q == Placed(r, n) IN
           /\ q \in Record
           /\ q.state = "running" /\ q.node = n
           /\ q.sess = r.sess /\ q.tgt = r.tgt
           /\ q.orig = r.orig /\ q.saved = r.saved
    BY DEF Record, RecState, Placed

LEMMA MovingIs ==
    ASSUME NEW r \in Record
    PROVE  LET q == Moving(r) IN
           /\ q \in Record
           /\ q.state = "repatriating"
           /\ q.orig = IF r.orig = "none" THEN r.state ELSE r.orig
           /\ q.sess = r.sess /\ q.tgt = r.tgt /\ q.node = r.node
           /\ q.saved = r.saved
    BY DEF Record, RecState, Moving

LEMMA SavedIs ==
    ASSUME NEW r \in Record
    PROVE  LET q == Saved(r) IN
           /\ q \in Record
           /\ q.state = "repatriating" /\ q.saved
           /\ q.sess = r.sess /\ q.tgt = r.tgt /\ q.node = r.node
           /\ q.orig = r.orig
    BY DEF Record, RecState, Saved

LEMMA BackIs ==
    ASSUME NEW r \in Record, NEW state \in RecState, NEW n \in Place
    PROVE  LET q == Back(r, state, n) IN
           /\ q \in Record
           /\ q.state = state /\ q.node = n /\ q.tgt = n
           /\ q.sess = r.sess /\ q.orig = r.orig /\ q.saved = r.saved
    BY DEF Record, Back

LEMMA NoRecordIs ==
    /\ NoRecord \in Record
    /\ NoRecord.state = "none" /\ NoRecord.sess = None /\ NoRecord.tgt = None
    /\ NoRecord.node = None /\ NoRecord.orig = "none" /\ ~NoRecord.saved
    BY DEF Record, RecState, Place, NoRecord

LEMMA RecordIs ==
    ASSUME NEW r \in Record
    PROVE  /\ r.state \in RecState /\ r.sess \in Spot \cup {None}
           /\ r.tgt \in Place /\ r.node \in Place
           /\ r.orig \in RecState /\ r.saved \in BOOLEAN
    BY DEF Record

LEMMA StatesAre ==
    /\ "checkpointing" \in RecState /\ "checkpointed" \in RecState
    /\ "attaching" \in RecState /\ "recovering" \in RecState
    /\ "recovery_failed" \in RecState /\ "repatriating" \in RecState
    /\ "running" \in RecState /\ "suspending" \in RecState
    /\ "suspended" \in RecState /\ "resuming" \in RecState
    /\ "destroying" \in RecState /\ "failed" \in RecState
    /\ "none" \in RecState
    BY DEF RecState, RECOVERY_STATES

-----------------------------------------------------------------------------
(* Steps of the pass. *)

Pcs == RecoveryPc \cup RepatriationPc

PassIs(pc, src, tgt, view, pend, lost) ==
    /\ pass' \in Pass
    /\ pass'.pc = pc /\ pass'.src = src /\ pass'.tgt = tgt
    /\ pass'.view = view /\ pass'.pend = pend /\ pass'.lost = lost

LEMMA PcsAre ==
    /\ Pcs = RecoveryPc \cup RepatriationPc
    /\ RecoveryPc = {"lookup", "claim", "mark", "attach", "mount", "resume"}
    /\ RepatriationPc =
         {"lease", "empty", "discard", "target", "mark2", "checkpoint",
          "unmount", "detach", "unmount2", "detach2", "attach2", "mount2",
          "restore", "release", "terminate"}
    BY DEF Pcs, RecoveryPc, RepatriationPc

LEMMA PassFields ==
    ASSUME pass \in Pass
    PROVE  /\ pass.pc \in {"idle"} \cup RecoveryPc \cup RepatriationPc
           /\ pass.src \in Place /\ pass.tgt \in Place
           /\ pass.view \in SUBSET Sandbox /\ pass.pend \in SUBSET Sandbox
           /\ pass.lost \in BOOLEAN
    BY DEF Pass

LEMMA IdleIs ==
    /\ Idle \in Pass
    /\ Idle.pc = "idle" /\ Idle.src = None /\ Idle.tgt = None
    /\ Idle.view = {} /\ Idle.pend = {} /\ Idle.lost = FALSE
    BY DEF Pass, Idle, Place

LEMMA GotoIs ==
    ASSUME pass \in Pass, NEW pc \in Pcs, Goto(pc)
    PROVE  PassIs(pc, pass.src, pass.tgt, pass.view, pass.pend, pass.lost)
    BY DEF Pass, Goto, PassIs, Pcs

LEMMA OntoIs ==
    ASSUME pass \in Pass, NEW pc \in Pcs, NEW n \in Place, Onto(n, pc)
    PROVE  PassIs(pc, pass.src, n, pass.view, pass.pend, pass.lost)
    BY DEF Pass, Onto, PassIs, Pcs

LEMMA BeginIs ==
    ASSUME NEW pc \in Pcs, NEW n \in Place, NEW view \in SUBSET Sandbox,
           NEW pend \in SUBSET Sandbox, Begin(pc, n, view, pend)
    PROVE  PassIs(pc, n, None, view, pend, FALSE)
    BY DEF Pass, Begin, PassIs, Pcs, Idle, Place

LEMMA LostIs ==
    ASSUME pass \in Pass, pass' = [pass EXCEPT !.lost = TRUE]
    PROVE  PassIs(pass.pc, pass.src, pass.tgt, pass.view, pass.pend, TRUE)
    BY DEF Pass, PassIs

LEMMA FinishIs ==
    ASSUME Finish
    PROVE  /\ PassIs("idle", None, None, {}, {}, FALSE)
           /\ job' \in [Sandbox -> Job] /\ job' = NoJob
    BY IdleIs DEF Finish, PassIs, NoJob, Job

LEMMA GiveUpIs ==
    ASSUME RecoveryTypeOK, GiveUp
    PROVE  /\ PassIs("idle", None, None, {}, {}, FALSE)
           /\ job' \in [Sandbox -> Job] /\ job' = NoJob
           /\ lease' \in [Sandbox -> {"none", "worker", "pass"}]
           /\ \A s \in Sandbox :
                 lease'[s] = IF lease[s] = "pass" THEN "none" ELSE lease[s]
    BY FinishIs DEF GiveUp, Held, RecoveryTypeOK

-----------------------------------------------------------------------------
(* Operations on volumes and runtimes. *)

LEMMA PublishType ==
    ASSUME RecoveryTypeOK, NEW s \in Sandbox, Publish(s)
    PROVE  snap' \in [Sandbox -> Copy \cup {"gone"}] /\ s3' \in [Sandbox -> Copy]
<1>1. snap \in [Sandbox -> Copy \cup {"gone"}] /\ s3 \in [Sandbox -> Copy]
    BY DEF RecoveryTypeOK, StateVolumeTypeOK
<1> QED
    BY <1>1 DEF Publish, Age, Copy

LEMMA EndType ==
    ASSUME RecoveryTypeOK, NEW n \in Node, End(n)
    PROVE  /\ host' \in [Node -> {"absent", "ordered", "up", "gone"}]
           /\ at' \in [Volume -> Place \cup {"deleted"}]
           /\ mnt' \in [Node -> Volume \cup {None}]
           /\ vm' \in [Node -> [Sandbox -> Runtime]]
    BY DEF End, RecoveryTypeOK, StateVolumeTypeOK, Runtime, Place

LEMMA UnmountType ==
    ASSUME RecoveryTypeOK, NEW n \in Node, Unmount(n)
    PROVE  /\ mnt' \in [Node -> Volume \cup {None}]
           /\ vm' \in [Node -> [Sandbox -> Runtime]]
    BY DEF Unmount, RecoveryTypeOK, StateVolumeTypeOK, Runtime

LEMMA SuspendType ==
    ASSUME RecoveryTypeOK, NEW n \in Node, NEW s \in Sandbox,
           NEW upload \in BOOLEAN, Suspend(n, s, upload)
    PROVE  /\ vm' \in [Node -> [Sandbox -> Runtime]]
           /\ snap' \in [Sandbox -> Copy \cup {"gone"}]
           /\ s3' \in [Sandbox -> Copy]
    BY DEF Suspend, RecoveryTypeOK, StateVolumeTypeOK, Copy, Runtime

LEMMA ResumeType ==
    ASSUME RecoveryTypeOK, NEW n \in Node, NEW s \in Sandbox, Resume(n, s)
    PROVE  vm' \in [Node -> [Sandbox -> Runtime]]
    BY DEF Resume, RecoveryTypeOK, StateVolumeTypeOK, Runtime

LEMMA DestroyType ==
    ASSUME RecoveryTypeOK, NEW n \in Node, NEW s \in Sandbox, Destroy(n, s)
    PROVE  /\ vm' \in [Node -> [Sandbox -> Runtime]]
           /\ snap' \in [Sandbox -> Copy \cup {"gone"}]
    BY DEF Destroy, RecoveryTypeOK, StateVolumeTypeOK, Runtime

\* A heartbeat counts no more sandboxes than there are.
LEMMA BeatType ==
    ASSUME RecoveryTypeOK, NEW n \in Node
    PROVE  Beat(n) \in Item
<1>1. Resident(n) \in SUBSET Sandbox
    BY DEF Resident
<1>2. Cardinality(Resident(n)) \in 0 .. Cardinality(Sandbox)
    BY <1>1, FS_Subset, FS_CardinalityType, StateVolumeAssumption
<1> QED
    BY <1>2 DEF Beat, RecoveryTypeOK, StateVolumeTypeOK, Item

LEMMA UnlistedType ==
    ASSUME NEW item \in Item
    PROVE  [item EXCEPT !.listed = FALSE] \in Item
    BY DEF Item

LEMMA AnsweredType ==
    ASSUME NEW w \in Operation, NEW res \in {"none", "ok", "error"}
    PROVE  [w EXCEPT !.res = res] \in Operation
    BY DEF Operation

\* Where a pass works.
LEMMA PassPlaces ==
    ASSUME TypeOK
    PROVE  /\ pass.pc \in RecoveryPc =>
                 pass.src \in Spot /\ pass.src \in Volume /\ pass.src \in Node
           /\ pass.pc \in RepatriationPc =>
                 /\ pass.src \in Standby /\ pass.src \in Node
                 /\ Session \in Spot \cup {None}
           /\ pass \in Pass /\ pass.src \in Place /\ pass.tgt \in Place
           /\ Up(pass.tgt) => pass.tgt \in Node
           /\ pass.view \in SUBSET Sandbox /\ pass.pend \in SUBSET Sandbox
           /\ Home \in Volume /\ Home \in Node /\ Home # None
    BY PassFields, StateVolumeAssumption
    DEF TypeOK, RecoveryTypeOK, Volume, Node, Place, Session, Up, Home

-----------------------------------------------------------------------------
(* The stage of the pass: what TypeOK says of it besides types. *)

Stage ==
    /\ pass.pc \in RecoveryPc => pass.src \in Spot
    /\ pass.pc \in RepatriationPc => pass.src \in Standby
    /\ Held # {} => pass.pc \in RepatriationPc
    /\ job # NoJob => pass.pc \in {"resume", "restore", "release", "terminate"}

LEMMA StageAtGiveUp ==
    ASSUME TypeOK, GiveUp
    PROVE  Stage'
<1>1. /\ pass'.pc = "idle" /\ job' = NoJob
      /\ \A s \in Sandbox : lease'[s] # "pass"
    BY GiveUpIs DEF TypeOK, PassIs
<1>2. Held' = {}
    BY <1>1 DEF Held
<1> QED
    BY <1>1, <1>2, PcsAre DEF Stage, NoJob

LEMMA StageAtFinish ==
    ASSUME TypeOK, pass.pc \in RecoveryPc, Finish, UNCHANGED lease
    PROVE  Stage'
<1>1. pass'.pc = "idle" /\ job' = NoJob
    BY FinishIs DEF PassIs
<1>2. Held = {}
    BY PcsAre DEF TypeOK
<1>3. Held' = {}
    BY <1>2 DEF Held
<1> QED
    BY <1>1, <1>3, PcsAre DEF Stage, NoJob

LEMMA StageOfRecovery ==
    ASSUME TypeOK, pass.pc \in RecoveryPc, UNCHANGED <<lease, job>>,
           pass'.pc \in RecoveryPc, pass'.src = pass.src,
           pass.pc # "resume" \/ pass'.pc = "resume"
    PROVE  Stage'
<1>1. Held' = {}
    BY PcsAre DEF TypeOK, Held
<1>2. job' # NoJob' => pass'.pc = "resume"
    BY PcsAre DEF TypeOK, NoJob
<1> QED
    BY <1>1, <1>2, PcsAre DEF Stage, TypeOK

LEMMA StageOfReturn ==
    ASSUME TypeOK, pass.pc \in RepatriationPc, UNCHANGED job,
           pass'.pc \in RepatriationPc, pass'.src = pass.src,
           pass.pc \notin {"restore", "release", "terminate"}
               \/ pass'.pc \in {"restore", "release", "terminate"}
    PROVE  Stage'
    BY PcsAre DEF Stage, TypeOK, NoJob

-----------------------------------------------------------------------------
(* The actions. *)

LEMMA JournalType ==
    ASSUME RecoveryTypeOK, NEW s \in Sandbox, NEW state \in RecState,
           NEW n \in Spot, Journal(s, state, n)
    PROVE  rec' \in [Sandbox -> Record] /\ budget' \in 0 .. Budget
<1>1. rec' = rec \/ rec' = [rec EXCEPT ![s] = Journaled(rec[s], state, n)]
    BY DEF Journal
<1>2. Journaled(rec[s], state, n) \in Record
    BY JournaledIs DEF RecoveryTypeOK
<1>3. rec' \in [Sandbox -> Record]
    BY <1>1, <1>2 DEF RecoveryTypeOK
<1>4. budget' \in 0 .. Budget
    BY StateVolumeAssumption
    DEF Journal, RecoveryTypeOK, StateVolumeTypeOK, Spend
<1> QED
    BY <1>3, <1>4

LEMMA HeartbeatType ==
    ASSUME TypeOK, NEW n \in Node, Heartbeat(n)
    PROVE  TypeOK'
<1>0. RecoveryTypeOK
    BY DEF TypeOK
<1>1. hb' \in [Node -> Item]
    BY <1>0, BeatType DEF RecoveryTypeOK, Heartbeat
<1>2. Stage'
    BY <1>0 DEF TypeOK, Stage, Held, Heartbeat, workers, passes
<1> QED
    BY <1>0, <1>1, <1>2
    DEF TypeOK, Stage, RecoveryTypeOK, StateVolumeTypeOK, Heartbeat, ec2,
        agents, reclaim, workers, passes

LEMMA HeartbeatExpireType ==
    ASSUME TypeOK, NEW n \in Node, HeartbeatExpire(n)
    PROVE  TypeOK'
<1>0. RecoveryTypeOK
    BY DEF TypeOK
<1>1. hb' \in [Node -> Item]
    BY <1>0, UnlistedType DEF RecoveryTypeOK, HeartbeatExpire
<1>2. Stage'
    BY <1>0 DEF TypeOK, Stage, Held, HeartbeatExpire, workers, passes
<1> QED
    BY <1>0, <1>1, <1>2
    DEF TypeOK, Stage, RecoveryTypeOK, StateVolumeTypeOK, HeartbeatExpire, ec2,
        agents, reclaim, workers, passes

LEMMA DetectType ==
    ASSUME TypeOK, NEW n \in Spot, Detect(n)
    PROVE  TypeOK'
<1>0. RecoveryTypeOK
    BY DEF TypeOK
<1>1. evac' \in [Spot -> {"calm", "detected", "saving", "over"}]
    BY <1>0 DEF RecoveryTypeOK, Detect
<1>2. ck' \in [Sandbox -> {"none", "listed", "open", "written", "ended"}]
    BY <1>0 DEF RecoveryTypeOK, Detect
<1>3. Stage'
    BY <1>0 DEF TypeOK, Stage, Held, Detect, workers, passes
<1> QED
    BY <1>0, <1>1, <1>2, <1>3
    DEF TypeOK, Stage, RecoveryTypeOK, StateVolumeTypeOK, Detect, ec2, agents,
        registry, workers, passes

LEMMA PreserveType ==
    ASSUME TypeOK, NEW n \in Spot, Preserve(n)
    PROVE  TypeOK'
<1>0. RecoveryTypeOK
    BY DEF TypeOK
<1>1. keep' \in SUBSET Volume
    BY <1>0 DEF RecoveryTypeOK, StateVolumeTypeOK, Preserve, Node, Volume
<1>2. budget' \in 0 .. Budget
    BY <1>0, StateVolumeAssumption
    DEF RecoveryTypeOK, StateVolumeTypeOK, Preserve, Spend
<1>3. rec' \in [Sandbox -> Record]
    <2>1. CASE UNCHANGED rec
        BY <1>0, <2>1 DEF RecoveryTypeOK
    <2>2. CASE rec' = [s \in Sandbox |->
                         IF ck[s] = "listed" /\ rec[s].state # "none"
                         THEN Journaled(rec[s], "recovery_failed", n)
                         ELSE rec[s]]
        BY <1>0, <2>2, JournaledIs, StatesAre DEF RecoveryTypeOK
    <2> QED
        BY <2>1, <2>2 DEF Preserve
<1>4. evac' \in [Spot -> {"calm", "detected", "saving", "over"}]
    BY <1>0 DEF RecoveryTypeOK, Preserve
<1>5. ck' \in [Sandbox -> {"none", "listed", "open", "written", "ended"}]
    BY <1>0 DEF RecoveryTypeOK, Preserve
<1>6. Stage'
    BY <1>0 DEF TypeOK, Stage, Held, Preserve, workers, passes
<1> QED
    BY <1>0, <1>1, <1>2, <1>3, <1>4, <1>5, <1>6
    DEF TypeOK, Stage, RecoveryTypeOK, StateVolumeTypeOK, Preserve, agents,
        registry, workers, passes

LEMMA CkStartType ==
    ASSUME TypeOK, NEW n \in Spot, NEW s \in Sandbox, CkStart(n, s)
    PROVE  TypeOK'
<1>0. RecoveryTypeOK
    BY DEF TypeOK
<1>1. budget' \in 0 .. Budget
    BY <1>0, JournalType, StatesAre DEF CkStart
<1>2. rec' \in [Sandbox -> Record]
    BY <1>0, JournalType, StatesAre DEF CkStart
<1>3. ck' \in [Sandbox -> {"none", "listed", "open", "written", "ended"}]
    BY <1>0 DEF RecoveryTypeOK, CkStart
<1>4. Stage'
    BY <1>0 DEF TypeOK, Stage, Held, CkStart, workers, passes
<1> QED
    BY <1>0, <1>1, <1>2, <1>3, <1>4
    DEF TypeOK, Stage, RecoveryTypeOK, StateVolumeTypeOK, CkStart, ec2, agents,
        registry, workers, passes

LEMMA CkWriteType ==
    ASSUME TypeOK, NEW n \in Spot, NEW s \in Sandbox, CkWrite(n, s)
    PROVE  TypeOK'
<1>0. RecoveryTypeOK
    BY DEF TypeOK
<1>1. vm' \in [Node -> [Sandbox -> Runtime]]
    BY <1>0, SuspendType DEF CkWrite, Node
<1>2. snap' \in [Sandbox -> Copy \cup {"gone"}]
    BY <1>0, SuspendType DEF CkWrite, Node
<1>3. s3' \in [Sandbox -> Copy]
    BY <1>0, SuspendType DEF CkWrite, Node
<1>4. ck' \in [Sandbox -> {"none", "listed", "open", "written", "ended"}]
    BY <1>0 DEF RecoveryTypeOK, CkWrite
<1>5. Stage'
    BY <1>0 DEF TypeOK, Stage, Held, CkWrite, workers, passes
<1> QED
    BY <1>0, <1>1, <1>2, <1>3, <1>4, <1>5
    DEF TypeOK, Stage, RecoveryTypeOK, StateVolumeTypeOK, CkWrite, ec2,
        registry, workers, passes

LEMMA CkDoneType ==
    ASSUME TypeOK, NEW n \in Spot, NEW s \in Sandbox, CkDone(n, s)
    PROVE  TypeOK'
<1>0. RecoveryTypeOK
    BY DEF TypeOK
<1>1. budget' \in 0 .. Budget
    BY <1>0, JournalType, StatesAre DEF CkDone
<1>2. rec' \in [Sandbox -> Record]
    BY <1>0, JournalType, StatesAre DEF CkDone
<1>3. ck' \in [Sandbox -> {"none", "listed", "open", "written", "ended"}]
    BY <1>0 DEF RecoveryTypeOK, CkDone
<1>4. Stage'
    BY <1>0 DEF TypeOK, Stage, Held, CkDone, workers, passes
<1> QED
    BY <1>0, <1>1, <1>2, <1>3, <1>4
    DEF TypeOK, Stage, RecoveryTypeOK, StateVolumeTypeOK, CkDone, ec2, agents,
        registry, workers, passes

LEMMA CkFailType ==
    ASSUME TypeOK, NEW n \in Spot, NEW s \in Sandbox, CkFail(n, s)
    PROVE  TypeOK'
<1>0. RecoveryTypeOK
    BY DEF TypeOK
<1>1. budget' \in 0 .. Budget
    BY <1>0, StateVolumeAssumption
    DEF RecoveryTypeOK, StateVolumeTypeOK, CkFail, Spend
<1>2. rec' \in [Sandbox -> Record]
    BY <1>0, JournaledIs, StatesAre DEF RecoveryTypeOK, CkFail
<1>3. ck' \in [Sandbox -> {"none", "listed", "open", "written", "ended"}]
    BY <1>0 DEF RecoveryTypeOK, CkFail
<1>4. Stage'
    BY <1>0 DEF TypeOK, Stage, Held, CkFail, workers, passes
<1> QED
    BY <1>0, <1>1, <1>2, <1>3, <1>4
    DEF TypeOK, Stage, RecoveryTypeOK, StateVolumeTypeOK, CkFail, ec2, agents,
        registry, workers, passes

LEMMA DeadlineType ==
    ASSUME TypeOK, NEW n \in Spot, Deadline(n)
    PROVE  TypeOK'
<1>0. RecoveryTypeOK
    BY DEF TypeOK
<1>1. past' \in SUBSET Spot
    BY <1>0 DEF RecoveryTypeOK, Deadline
<1>2. Stage'
    BY <1>0 DEF TypeOK, Stage, Held, Deadline, workers, passes
<1> QED
    BY <1>0, <1>1, <1>2
    DEF TypeOK, Stage, RecoveryTypeOK, StateVolumeTypeOK, Deadline, ec2,
        agents, registry, workers, passes

LEMMA TerminateType ==
    ASSUME TypeOK, NEW n \in Spot, Terminate(n)
    PROVE  TypeOK'
<1>0. RecoveryTypeOK
    BY DEF TypeOK
<1>1. host' \in [Node -> {"absent", "ordered", "up", "gone"}]
    BY <1>0, EndType DEF Terminate, Node
<1>2. at' \in [Volume -> Place \cup {"deleted"}]
    BY <1>0, EndType DEF Terminate, Node
<1>3. mnt' \in [Node -> Volume \cup {None}]
    BY <1>0, EndType DEF Terminate, Node
<1>4. vm' \in [Node -> [Sandbox -> Runtime]]
    BY <1>0, EndType DEF Terminate, Node
<1>5. ck' \in [Sandbox -> {"none", "listed", "open", "written", "ended"}]
    BY <1>0 DEF RecoveryTypeOK, Terminate
<1>6. Stage'
    BY <1>0 DEF TypeOK, Stage, Held, Terminate, workers, passes
<1> QED
    BY <1>0, <1>1, <1>2, <1>3, <1>4, <1>5, <1>6
    DEF TypeOK, Stage, RecoveryTypeOK, StateVolumeTypeOK, Terminate, registry,
        workers, passes

LEMMA StandbyLostType ==
    ASSUME TypeOK, NEW n \in Standby, StandbyLost(n)
    PROVE  TypeOK'
<1>0. RecoveryTypeOK
    BY DEF TypeOK
<1>1. host' \in [Node -> {"absent", "ordered", "up", "gone"}]
    BY <1>0, EndType DEF StandbyLost, Node
<1>2. at' \in [Volume -> Place \cup {"deleted"}]
    BY <1>0, EndType DEF StandbyLost, Node
<1>3. mnt' \in [Node -> Volume \cup {None}]
    BY <1>0, EndType DEF StandbyLost, Node
<1>4. vm' \in [Node -> [Sandbox -> Runtime]]
    BY <1>0, EndType DEF StandbyLost, Node
<1>5. budget' \in 0 .. Budget
    BY <1>0, StateVolumeAssumption
    DEF RecoveryTypeOK, StateVolumeTypeOK, StandbyLost, Spend
<1>6. Stage'
    BY <1>0 DEF TypeOK, Stage, Held, StandbyLost, workers, passes
<1> QED
    BY <1>0, <1>1, <1>2, <1>3, <1>4, <1>5, <1>6
    DEF TypeOK, Stage, RecoveryTypeOK, StateVolumeTypeOK, StandbyLost,
        registry, reclaim, workers, passes

LEMMA StandbyJoinsType ==
    ASSUME TypeOK, NEW n \in Standby, StandbyJoins(n)
    PROVE  TypeOK'
<1>0. RecoveryTypeOK
    BY DEF TypeOK
<1>1. host' \in [Node -> {"absent", "ordered", "up", "gone"}]
    BY <1>0 DEF RecoveryTypeOK, StateVolumeTypeOK, StandbyJoins, Node
<1>2. Stage'
    BY <1>0 DEF TypeOK, Stage, Held, StandbyJoins, workers, passes
<1> QED
    BY <1>0, <1>1, <1>2
    DEF TypeOK, Stage, RecoveryTypeOK, StateVolumeTypeOK, StandbyJoins, agents,
        registry, reclaim, workers, passes

LEMMA WorkStartType ==
    ASSUME TypeOK, NEW s \in Sandbox,
           NEW k \in {"suspend", "resume", "delete"}, WorkStart(s, k)
    PROVE  TypeOK'
<1>0. RecoveryTypeOK
    BY DEF TypeOK
<1>1. budget' \in 0 .. Budget
    BY <1>0, StateVolumeAssumption
    DEF RecoveryTypeOK, StateVolumeTypeOK, WorkStart, Spend
<1>2. rec' \in [Sandbox -> Record]
    BY <1>0, StateIs, StatesAre DEF RecoveryTypeOK, WorkStart, Marked
<1>3. lease' \in [Sandbox -> {"none", "worker", "pass"}]
    BY <1>0 DEF RecoveryTypeOK, WorkStart
<1>4. work' \in [Sandbox -> Operation]
    BY <1>0, RecordIs DEF RecoveryTypeOK, WorkStart, ResumeNode, Operation
<1>5. Stage'
    BY <1>0 DEF TypeOK, Stage, Held, WorkStart, RecoveryTypeOK, passes
<1> QED
    BY <1>0, <1>1, <1>2, <1>3, <1>4, <1>5
    DEF TypeOK, Stage, RecoveryTypeOK, StateVolumeTypeOK, WorkStart, ec2,
        agents, registry, reclaim, passes

LEMMA WorkCallType ==
    ASSUME TypeOK, NEW s \in Sandbox, WorkCall(s)
    PROVE  TypeOK'
<1>0. RecoveryTypeOK
    BY DEF TypeOK
<1>1. vm' \in [Node -> [Sandbox -> Runtime]]
    BY <1>0, SuspendType, ResumeType, DestroyType
    DEF RecoveryTypeOK, StateVolumeTypeOK, WorkCall, Suspends, Resumes, Up,
        Node, Operation, Place
<1>2. snap' \in [Sandbox -> Copy \cup {"gone"}]
    BY <1>0, SuspendType, ResumeType, DestroyType
    DEF RecoveryTypeOK, StateVolumeTypeOK, WorkCall, Suspends, Resumes, Up,
        Node, Operation, Place
<1>3. s3' \in [Sandbox -> Copy]
    BY <1>0, SuspendType, ResumeType, DestroyType
    DEF RecoveryTypeOK, StateVolumeTypeOK, WorkCall, Suspends, Resumes, Up,
        Node, Operation, Place
<1>4. work' \in [Sandbox -> Operation]
    <2>1. \E res \in {"ok", "error"} :
             work' = [work EXCEPT ![s] = [@ EXCEPT !.res = res]]
        BY DEF WorkCall
    <2>2. \A res \in {"ok", "error"} : [work[s] EXCEPT !.res = res] \in Operation
        BY <1>0, AnsweredType DEF RecoveryTypeOK
    <2> QED
        BY <1>0, <2>1, <2>2 DEF RecoveryTypeOK
<1>5. Stage'
    BY <1>0 DEF TypeOK, Stage, Held, WorkCall, passes
<1> QED
    BY <1>0, <1>1, <1>2, <1>3, <1>4, <1>5
    DEF TypeOK, Stage, RecoveryTypeOK, StateVolumeTypeOK, WorkCall, ec2,
        registry, reclaim, passes

LEMMA WorkDoneType ==
    ASSUME TypeOK, NEW s \in Sandbox, WorkDone(s)
    PROVE  TypeOK'
<1>0. RecoveryTypeOK
    BY DEF TypeOK
<1>1. snap' \in [Sandbox -> Copy \cup {"gone"}]
    BY <1>0, PublishType DEF RecoveryTypeOK, StateVolumeTypeOK, WorkDone
<1>2. s3' \in [Sandbox -> Copy]
    BY <1>0, PublishType DEF RecoveryTypeOK, StateVolumeTypeOK, WorkDone
<1>3. rec' \in [Sandbox -> Record]
    <2>1. \/ rec' = rec
          \/ rec' = [rec EXCEPT ![s].state = "running"]
          \/ rec' = [rec EXCEPT ![s].state = "failed"]
          \/ rec' = [rec EXCEPT ![s].state = "suspended"]
          \/ rec' = [rec EXCEPT ![s] = Placed(rec[s], work[s].at)]
          \/ rec' = [rec EXCEPT ![s] = NoRecord]
        BY DEF WorkDone
    <2>2. work[s].at \in Place
        BY <1>0 DEF RecoveryTypeOK, Operation
    <2>3. Placed(rec[s], work[s].at) \in Record /\ NoRecord \in Record
        BY <1>0, <2>2, PlacedIs, NoRecordIs DEF RecoveryTypeOK
    <2>4. \A state \in RecState : [rec[s] EXCEPT !.state = state] \in Record
        BY <1>0, StateIs DEF RecoveryTypeOK
    <2>5. \A state \in {"running", "failed", "suspended"} :
             [rec EXCEPT ![s].state = state] \in [Sandbox -> Record]
        BY <1>0, <2>4, StatesAre DEF RecoveryTypeOK
    <2> QED
        BY <1>0, <2>1, <2>3, <2>5 DEF RecoveryTypeOK
<1>4. lease' \in [Sandbox -> {"none", "worker", "pass"}]
    BY <1>0 DEF RecoveryTypeOK, WorkDone
<1>5. work' \in [Sandbox -> Operation]
    BY <1>0 DEF RecoveryTypeOK, WorkDone, NoWork, Operation, Place
<1>6. Stage'
    BY <1>0 DEF TypeOK, Stage, Held, WorkDone, RecoveryTypeOK, passes
<1> QED
    BY <1>0, <1>1, <1>2, <1>3, <1>4, <1>5, <1>6
    DEF TypeOK, Stage, RecoveryTypeOK, StateVolumeTypeOK, WorkDone, ec2,
        registry, reclaim, passes

LEMMA RcReadType ==
    ASSUME TypeOK, NEW n \in Spot, RcRead(n)
    PROVE  TypeOK'
<1>0. RecoveryTypeOK
    BY DEF TypeOK
<1>1. pass' \in Pass
    <2>1. ViewOf(n) \in SUBSET Sandbox /\ PendOf(n) \in SUBSET Sandbox
        BY DEF ViewOf, PendOf, Group
    <2>2. "lookup" \in Pcs /\ n \in Place
        BY PcsAre DEF Node, Place
    <2>3. Begin("lookup", n, ViewOf(n), PendOf(n))
        BY DEF RcRead
    <2> QED
        BY <2>1, <2>2, <2>3, BeginIs DEF PassIs
<1>2. Stage'
    <2>1. ViewOf(n) \in SUBSET Sandbox /\ PendOf(n) \in SUBSET Sandbox
        BY DEF ViewOf, PendOf, Group
    <2>2. "lookup" \in Pcs /\ n \in Place
        BY PcsAre DEF Node, Place
    <2>3. pass'.pc = "lookup" /\ pass'.src = n
        BY <2>1, <2>2, BeginIs DEF PassIs, RcRead
    <2>4. Held' = {} /\ job' = NoJob
        BY PcsAre DEF TypeOK, Held, RcRead, workers, NoJob
    <2>5. (pass.pc \in RecoveryPc => pass.src \in Spot)'
        BY <2>3
    <2>6. (pass.pc \in RepatriationPc => pass.src \in Standby)'
        BY <2>3, PcsAre
    <2>7. (Held # {} => pass.pc \in RepatriationPc)'
        BY <2>4
    <2>8. (job # NoJob => pass.pc \in {"resume", "restore", "release",
                                      "terminate"})'
        BY <2>4 DEF NoJob
    <2> QED
        BY <2>5, <2>6, <2>7, <2>8 DEF Stage
<1> QED
    BY <1>0, <1>1, <1>2
    DEF TypeOK, Stage, RecoveryTypeOK, StateVolumeTypeOK, RcRead, ec2, agents,
        registry, reclaim, workers

LEMMA RcLookupType ==
    ASSUME TypeOK, RcLookup
    PROVE  TypeOK'
<1>0. RecoveryTypeOK
    BY DEF TypeOK
<1>1. rec' \in [Sandbox -> Record]
    BY <1>0, StateIs, StatesAre DEF RecoveryTypeOK, RcLookup
<1>2. pass' \in Pass
    BY <1>0, GotoIs, OntoIs, FinishIs, PcsAre, PassPlaces
    DEF RcLookup, PassIs, Node, Place
<1>3. job' \in [Sandbox -> Job]
    BY <1>0, FinishIs DEF RecoveryTypeOK, RcLookup, Job
<1>4. Stage'
    BY <1>0, StageAtFinish, StageOfRecovery, GotoIs, OntoIs, PcsAre, PassPlaces
    DEF RcLookup, PassIs, workers, Node, Place
<1> QED
    BY <1>0, <1>1, <1>2, <1>3, <1>4
    DEF TypeOK, Stage, RecoveryTypeOK, StateVolumeTypeOK, RcLookup, ec2,
        agents, registry, reclaim, workers

LEMMA RcClaimType ==
    ASSUME TypeOK, RcClaim
    PROVE  TypeOK'
<1>0. RecoveryTypeOK
    BY DEF TypeOK
<1>1. claim' \in [Standby -> Spot \cup {None}]
    BY <1>0, PassPlaces, PcsAre DEF RecoveryTypeOK, RcClaim
<1>2. pass' \in Pass
    BY <1>0, OntoIs, FinishIs, PcsAre, PassPlaces
    DEF RcClaim, PassIs, Node, Place
<1>3. job' \in [Sandbox -> Job]
    BY <1>0, FinishIs DEF RecoveryTypeOK, RcClaim, Job
<1>4. Stage'
    BY <1>0, StageAtFinish, StageOfRecovery, OntoIs, PcsAre, PassPlaces
    DEF RcClaim, PassIs, workers, Node, Place
<1> QED
    BY <1>0, <1>1, <1>2, <1>3, <1>4
    DEF TypeOK, Stage, RecoveryTypeOK, StateVolumeTypeOK, RcClaim, ec2, agents,
        reclaim, workers

LEMMA RcMarkType ==
    ASSUME TypeOK, RcMark
    PROVE  TypeOK'
<1>0. RecoveryTypeOK
    BY DEF TypeOK
<1>1. rec' \in [Sandbox -> Record]
    BY <1>0, BoundIs, PassPlaces, StatesAre DEF RecoveryTypeOK, RcMark
<1>2. pass' \in Pass
    BY <1>0, GotoIs, PcsAre, PassPlaces DEF RcMark, PassIs
<1>3. Stage'
    BY <1>0, GotoIs, PcsAre, PassPlaces
    DEF TypeOK, Stage, Held, RcMark, PassIs, workers
<1> QED
    BY <1>0, <1>1, <1>2, <1>3
    DEF TypeOK, Stage, RecoveryTypeOK, StateVolumeTypeOK, RcMark, ec2, agents,
        registry, reclaim, workers

LEMMA RcAttachType ==
    ASSUME TypeOK, RcAttach
    PROVE  TypeOK'
<1>0. RecoveryTypeOK
    BY DEF TypeOK
<1>1. at' \in [Volume -> Place \cup {"deleted"}]
    BY <1>0, PassPlaces, PcsAre
    DEF RecoveryTypeOK, StateVolumeTypeOK, RcAttach, Attach, Node, Place, Up
<1>2. keep' \in SUBSET Volume
    BY <1>0, PassPlaces, PcsAre
    DEF RecoveryTypeOK, StateVolumeTypeOK, RcAttach, Attach
<1>3. pass' \in Pass
    BY <1>0, GotoIs, FinishIs, PcsAre, PassPlaces DEF RcAttach, PassIs
<1>4. job' \in [Sandbox -> Job]
    BY <1>0, FinishIs DEF RecoveryTypeOK, RcAttach, Job
<1>5. Stage'
    BY <1>0, StageAtFinish, StageOfRecovery, GotoIs, PcsAre, PassPlaces
    DEF RcAttach, PassIs, workers
<1> QED
    BY <1>0, <1>1, <1>2, <1>3, <1>4, <1>5
    DEF TypeOK, Stage, RecoveryTypeOK, StateVolumeTypeOK, RcAttach, agents,
        registry, reclaim, workers

LEMMA RcMountType ==
    ASSUME TypeOK, RcMount
    PROVE  TypeOK'
<1>0. RecoveryTypeOK
    BY DEF TypeOK
<1>1. mnt' \in [Node -> Volume \cup {None}]
    BY <1>0, PassPlaces, PcsAre
    DEF RecoveryTypeOK, StateVolumeTypeOK, RcMount, Mount
<1>2. pass' \in Pass
    BY <1>0, GotoIs, FinishIs, PcsAre, PassPlaces DEF RcMount, PassIs
<1>3. job' \in [Sandbox -> Job]
    BY <1>0, FinishIs DEF RecoveryTypeOK, RcMount, Job
<1>4. Stage'
    BY <1>0, StageAtFinish, GotoIs, PcsAre, PassPlaces
    DEF RcMount, PassIs, workers, TypeOK, Stage, Held
<1> QED
    BY <1>0, <1>1, <1>2, <1>3, <1>4
    DEF TypeOK, Stage, RecoveryTypeOK, StateVolumeTypeOK, RcMount, ec2,
        registry, reclaim, workers

LEMMA RcStartType ==
    ASSUME TypeOK, NEW s \in Sandbox, RcStart(s)
    PROVE  TypeOK'
<1>0. RecoveryTypeOK
    BY DEF TypeOK
<1>1. rec' \in [Sandbox -> Record]
    BY <1>0, BoundIs, PassPlaces, StatesAre DEF RecoveryTypeOK, RcStart
<1>2. job' \in [Sandbox -> Job]
    BY <1>0 DEF RecoveryTypeOK, RcStart, Job
<1>3. Stage'
    BY <1>0 DEF TypeOK, Stage, Held, RcStart, RecoveryTypeOK, workers
<1> QED
    BY <1>0, <1>1, <1>2, <1>3
    DEF TypeOK, Stage, RecoveryTypeOK, StateVolumeTypeOK, RcStart, ec2, agents,
        registry, reclaim, workers

LEMMA RcBootType ==
    ASSUME TypeOK, NEW s \in Sandbox, RcBoot(s)
    PROVE  TypeOK'
<1>0. RecoveryTypeOK
    BY DEF TypeOK
<1>1. vm' \in [Node -> [Sandbox -> Runtime]]
    BY <1>0, ResumeType, RecordIs
    DEF RecoveryTypeOK, RcBoot, Resumes, Up, Place
<1>2. job' \in [Sandbox -> Job]
    BY <1>0, RecordIs DEF RecoveryTypeOK, RcBoot, Resumes, Up, Place, Job
<1>3. Stage'
    BY <1>0 DEF TypeOK, Stage, Held, RcBoot, RecoveryTypeOK, workers
<1> QED
    BY <1>0, <1>1, <1>2, <1>3
    DEF TypeOK, Stage, RecoveryTypeOK, StateVolumeTypeOK, RcBoot, ec2,
        registry, reclaim, workers

LEMMA RcDoneType ==
    ASSUME TypeOK, NEW s \in Sandbox, RcDone(s)
    PROVE  TypeOK'
<1>0. RecoveryTypeOK
    BY DEF TypeOK
<1>1. snap' \in [Sandbox -> Copy \cup {"gone"}]
    BY <1>0, PublishType DEF RecoveryTypeOK, StateVolumeTypeOK, RcDone
<1>2. s3' \in [Sandbox -> Copy]
    BY <1>0, PublishType DEF RecoveryTypeOK, StateVolumeTypeOK, RcDone
<1>3. rec' \in [Sandbox -> Record]
    BY <1>0, PlacedIs DEF RecoveryTypeOK, RcDone, Place
<1>4. job' \in [Sandbox -> Job]
    BY <1>0 DEF RecoveryTypeOK, RcDone, Job
<1>5. Stage'
    BY <1>0 DEF TypeOK, Stage, Held, RcDone, RecoveryTypeOK, workers
<1> QED
    BY <1>0, <1>1, <1>2, <1>3, <1>4, <1>5
    DEF TypeOK, Stage, RecoveryTypeOK, StateVolumeTypeOK, RcDone, ec2,
        registry, reclaim, workers

LEMMA RcFailType ==
    ASSUME TypeOK, NEW s \in Sandbox, RcFail(s)
    PROVE  TypeOK'
<1>0. RecoveryTypeOK
    BY DEF TypeOK
<1>1. budget' \in 0 .. Budget
    BY <1>0, StateVolumeAssumption
    DEF RecoveryTypeOK, StateVolumeTypeOK, RcFail, Spend
<1>2. rec' \in [Sandbox -> Record]
    BY <1>0, StateIs, StatesAre DEF RecoveryTypeOK, RcFail
<1>3. job' \in [Sandbox -> Job]
    BY <1>0 DEF RecoveryTypeOK, RcFail, Job
<1>4. Stage'
    BY <1>0 DEF TypeOK, Stage, Held, RcFail, RecoveryTypeOK, workers
<1> QED
    BY <1>0, <1>1, <1>2, <1>3, <1>4
    DEF TypeOK, Stage, RecoveryTypeOK, StateVolumeTypeOK, RcFail, ec2, agents,
        registry, reclaim, workers

LEMMA RcEndType ==
    ASSUME TypeOK, RcEnd
    PROVE  TypeOK'
<1>0. RecoveryTypeOK
    BY DEF TypeOK
<1>1. host' \in [Node -> {"absent", "ordered", "up", "gone"}]
    <2>1. \/ UNCHANGED host
          \/ \E n \in Standby : host' = [host EXCEPT ![n] = "ordered"]
        BY DEF RcEnd
    <2> QED
        BY <1>0, <2>1 DEF RecoveryTypeOK, StateVolumeTypeOK
<1>2. pass' \in Pass
    BY <1>0, FinishIs DEF RcEnd, PassIs
<1>3. job' \in [Sandbox -> Job]
    BY <1>0, FinishIs DEF RecoveryTypeOK, RcEnd, Job
<1>4. Stage'
    BY <1>0, FinishIs, PcsAre, PassPlaces
    DEF TypeOK, Stage, Held, RcEnd, PassIs, RecoveryTypeOK, workers
<1> QED
    BY <1>0, <1>1, <1>2, <1>3, <1>4
    DEF TypeOK, Stage, RecoveryTypeOK, StateVolumeTypeOK, RcEnd, agents,
        registry, reclaim, workers

LEMMA RpReadType ==
    ASSUME TypeOK, NEW n \in Standby, RpRead(n)
    PROVE  TypeOK'
<1>0. RecoveryTypeOK
    BY DEF TypeOK
<1>1. pass' \in Pass
    <2>1. "lease" \in Pcs /\ n \in Place /\ {} \in SUBSET Sandbox
        BY PcsAre DEF Node, Place
    <2>2. Begin("lease", n, {}, {})
        BY DEF RpRead
    <2> QED
        BY <2>1, <2>2, BeginIs DEF PassIs
<1>2. Stage'
    <2>1. pass'.pc = "lease" /\ pass'.src = n
        <3>1. "lease" \in Pcs /\ n \in Place /\ {} \in SUBSET Sandbox
            BY PcsAre DEF Node, Place
        <3> QED
            BY <3>1, BeginIs DEF PassIs, RpRead
    <2>2. job' = NoJob
        BY PcsAre DEF TypeOK, RpRead, NoJob
    <2>3. (pass.pc \in RecoveryPc => pass.src \in Spot)'
        BY <2>1, PcsAre
    <2>4. (pass.pc \in RepatriationPc => pass.src \in Standby)'
        BY <2>1
    <2>5. (Held # {} => pass.pc \in RepatriationPc)'
        BY <2>1, PcsAre
    <2>6. (job # NoJob => pass.pc \in {"resume", "restore", "release",
                                      "terminate"})'
        BY <2>2 DEF NoJob
    <2> QED
        BY <2>3, <2>4, <2>5, <2>6 DEF Stage
<1> QED
    BY <1>0, <1>1, <1>2
    DEF TypeOK, Stage, RecoveryTypeOK, StateVolumeTypeOK, RpRead, ec2, agents,
        registry, reclaim, workers

LEMMA RpLeaseType ==
    ASSUME TypeOK, RpLease
    PROVE  TypeOK'
<1>0. RecoveryTypeOK
    BY DEF TypeOK
<1>1. lease' \in [Sandbox -> {"none", "worker", "pass"}]
    <2>1. \/ GiveUp
          \/ lease' = [s \in Sandbox |-> IF s \in Owned(pass.src)
                                         THEN "pass" ELSE lease[s]]
        BY DEF RpLease
    <2>2. CASE GiveUp
        BY <1>0, <2>2, GiveUpIs
    <2>3. CASE lease' = [s \in Sandbox |-> IF s \in Owned(pass.src)
                                           THEN "pass" ELSE lease[s]]
        BY <1>0, <2>3 DEF RecoveryTypeOK
    <2> QED
        BY <2>1, <2>2, <2>3
<1>2. pass' \in Pass
    <2>1. Owned(pass.src) \in SUBSET Sandbox /\ {} \in SUBSET Sandbox
        BY DEF Owned
    <2>2. CASE GiveUp
        BY <1>0, <2>2, GiveUpIs DEF PassIs
    <2>3. CASE \E pc \in {"empty", "target"} :
                  Begin(pc, pass.src, Owned(pass.src), {})
        <3>1. PICK pc \in {"empty", "target"} :
                  Begin(pc, pass.src, Owned(pass.src), {})
            BY <2>3
        <3>2. pc \in Pcs
            BY PcsAre
        <3> QED
            BY <2>1, <3>1, <3>2, PassPlaces, BeginIs DEF PassIs
    <2> QED
        BY <2>2, <2>3 DEF RpLease
<1>3. job' \in [Sandbox -> Job]
    BY <1>0, GiveUpIs DEF RecoveryTypeOK, RpLease
<1>4. Stage'
    <2>1. Owned(pass.src) \in SUBSET Sandbox /\ {} \in SUBSET Sandbox
        BY DEF Owned
    <2>2. CASE GiveUp
        BY <2>2, StageAtGiveUp
    <2>3. CASE /\ UNCHANGED job
               /\ Begin(IF Owned(pass.src) = {} THEN "empty" ELSE "target",
                        pass.src, Owned(pass.src), {})
        <3>1. PICK pc \in {"empty", "target"} :
                  Begin(pc, pass.src, Owned(pass.src), {})
            BY <2>3
        <3>2. pc \in Pcs /\ pc \in RepatriationPc
            BY PcsAre
        <3>3. pass'.pc = pc /\ pass'.src = pass.src
            BY <2>1, <3>1, <3>2, PassPlaces, BeginIs DEF PassIs
        <3> QED
            BY <2>3, <3>2, <3>3, StageOfReturn, PcsAre DEF RpLease
    <2> QED
        BY <2>2, <2>3 DEF RpLease
<1> QED
    BY <1>0, <1>1, <1>2, <1>3, <1>4
    DEF TypeOK, Stage, RecoveryTypeOK, StateVolumeTypeOK, RpLease, ec2, agents,
        registry, reclaim

LEMMA RpEmptyType ==
    ASSUME TypeOK, RpEmpty
    PROVE  TypeOK'
<1>0. RecoveryTypeOK
    BY DEF TypeOK
<1>1. at' \in [Volume -> Place \cup {"deleted"}]
    BY <1>0 DEF RecoveryTypeOK, StateVolumeTypeOK, RpEmpty
<1>2. lease' \in [Sandbox -> {"none", "worker", "pass"}]
    BY <1>0, GiveUpIs DEF RecoveryTypeOK, RpEmpty
<1>3. rclaim' \in [Spot -> Claim]
    BY <1>0 DEF RecoveryTypeOK, RpEmpty, Unclaimed, Claim
<1>4. pass' \in Pass
    BY <1>0, GotoIs, GiveUpIs, PcsAre, PassPlaces DEF RpEmpty, PassIs
<1>5. job' \in [Sandbox -> Job]
    BY <1>0, GiveUpIs DEF RecoveryTypeOK, RpEmpty
<1>6. Stage'
    BY <1>0, StageAtGiveUp, StageOfReturn, GotoIs, PcsAre, PassPlaces
    DEF RpEmpty, PassIs
<1> QED
    BY <1>0, <1>1, <1>2, <1>3, <1>4, <1>5, <1>6
    DEF TypeOK, Stage, RecoveryTypeOK, StateVolumeTypeOK, RpEmpty, agents,
        reclaim

LEMMA RpDiscardType ==
    ASSUME TypeOK, RpDiscard
    PROVE  TypeOK'
<1>0. RecoveryTypeOK
    BY DEF TypeOK
<1>1. at' \in [Volume -> Place \cup {"deleted"}]
    BY <1>0 DEF RecoveryTypeOK, StateVolumeTypeOK, RpDiscard
<1>2. mnt' \in [Node -> Volume \cup {None}]
    BY <1>0, PassPlaces, PcsAre, UnmountType
    DEF RecoveryTypeOK, StateVolumeTypeOK, RpDiscard
<1>3. vm' \in [Node -> [Sandbox -> Runtime]]
    BY <1>0, PassPlaces, PcsAre, UnmountType
    DEF RecoveryTypeOK, StateVolumeTypeOK, RpDiscard
<1>4. lease' \in [Sandbox -> {"none", "worker", "pass"}]
    BY <1>0, GiveUpIs DEF RecoveryTypeOK, RpDiscard
<1>5. pass' \in Pass
    BY <1>0, GotoIs, GiveUpIs, PcsAre, PassPlaces DEF RpDiscard, PassIs
<1>6. job' \in [Sandbox -> Job]
    BY <1>0, GiveUpIs DEF RecoveryTypeOK, RpDiscard
<1>7. Stage'
    BY <1>0, StageAtGiveUp, StageOfReturn, GotoIs, PcsAre, PassPlaces
    DEF RpDiscard, PassIs
<1> QED
    BY <1>0, <1>1, <1>2, <1>3, <1>4, <1>5, <1>6, <1>7
    DEF TypeOK, Stage, RecoveryTypeOK, StateVolumeTypeOK, RpDiscard, registry,
        reclaim

LEMMA RpTargetType ==
    ASSUME TypeOK, RpTarget
    PROVE  TypeOK'
<1>0. RecoveryTypeOK
    BY DEF TypeOK
<1>1. lease' \in [Sandbox -> {"none", "worker", "pass"}]
    BY <1>0, GiveUpIs DEF RecoveryTypeOK, RpTarget
<1>2. rclaim' \in [Spot -> Claim]
    <2>1. CASE UNCHANGED rclaim
        BY <1>0, <2>1 DEF RecoveryTypeOK
    <2>2. CASE \E q \in Spot : rclaim' = [rclaim EXCEPT ![q] =
                                 [by |-> Session, vol |-> hb[q].vol]]
        <3>1. Session \in Spot \cup {None}
            BY PassPlaces, PcsAre DEF RpTarget
        <3>2. \A q \in Spot : hb[q].vol \in Volume \cup {None}
            BY <1>0 DEF RecoveryTypeOK, Node, Item
        <3> QED
            BY <1>0, <2>2, <3>1, <3>2 DEF RecoveryTypeOK, Claim
    <2> QED
        BY <2>1, <2>2 DEF RpTarget
<1>3. pass' \in Pass
    BY <1>0, OntoIs, GiveUpIs, PcsAre, PassPlaces
    DEF RpTarget, PassIs, Node, Place
<1>4. job' \in [Sandbox -> Job]
    BY <1>0, GiveUpIs DEF RecoveryTypeOK, RpTarget
<1>5. Stage'
    BY <1>0, OntoIs, GiveUpIs, PcsAre, PassPlaces
    DEF TypeOK, Stage, Held, RpTarget, PassIs, Node, Place, RecoveryTypeOK
<1> QED
    BY <1>0, <1>1, <1>2, <1>3, <1>4, <1>5
    DEF TypeOK, Stage, RecoveryTypeOK, StateVolumeTypeOK, RpTarget, ec2,
        agents, reclaim

LEMMA RpMarkType ==
    ASSUME TypeOK, RpMark
    PROVE  TypeOK'
<1>0. RecoveryTypeOK
    BY DEF TypeOK
<1>1. rec' \in [Sandbox -> Record]
    BY <1>0, MovingIs DEF RecoveryTypeOK, RpMark
<1>2. pass' \in Pass
    BY <1>0, GotoIs, PcsAre, PassPlaces DEF RpMark, PassIs
<1>3. Stage'
    BY <1>0, GotoIs, PcsAre, PassPlaces
    DEF TypeOK, Stage, Held, RpMark, PassIs, workers
<1> QED
    BY <1>0, <1>1, <1>2, <1>3
    DEF TypeOK, Stage, RecoveryTypeOK, StateVolumeTypeOK, RpMark, ec2, agents,
        registry, reclaim, workers

LEMMA RpSaveType ==
    ASSUME TypeOK, NEW s \in Sandbox, RpSave(s)
    PROVE  TypeOK'
<1>0. RecoveryTypeOK
    BY DEF TypeOK
<1>1. vm' \in [Node -> [Sandbox -> Runtime]]
    BY <1>0, SuspendType, PassPlaces, PcsAre DEF RpSave
<1>2. snap' \in [Sandbox -> Copy \cup {"gone"}]
    BY <1>0, SuspendType, PassPlaces, PcsAre DEF RpSave
<1>3. s3' \in [Sandbox -> Copy]
    BY <1>0, SuspendType, PassPlaces, PcsAre DEF RpSave
<1>4. Stage'
    BY <1>0 DEF TypeOK, Stage, Held, RpSave, workers, passes
<1> QED
    BY <1>0, <1>1, <1>2, <1>3, <1>4
    DEF TypeOK, Stage, RecoveryTypeOK, StateVolumeTypeOK, RpSave, ec2,
        registry, reclaim, workers, passes

LEMMA RpFlagType ==
    ASSUME TypeOK, NEW s \in Sandbox, RpFlag(s)
    PROVE  TypeOK'
<1>0. RecoveryTypeOK
    BY DEF TypeOK
<1>1. rec' \in [Sandbox -> Record]
    <2>1. rec' = [rec EXCEPT ![s] = Saved(@)]
        BY DEF RpFlag
    <2>2. \A r \in Record : Saved(r) \in Record
        BY SavedIs
    <2> QED
        BY <1>0, <2>1, <2>2 DEF RecoveryTypeOK
<1>2. Stage'
    BY <1>0 DEF TypeOK, Stage, Held, RpFlag, workers, passes
<1> QED
    BY <1>0, <1>1, <1>2
    DEF TypeOK, Stage, RecoveryTypeOK, StateVolumeTypeOK, RpFlag, ec2, agents,
        registry, reclaim, workers, passes

LEMMA RpNoGuestType ==
    ASSUME TypeOK, RpNoGuest
    PROVE  TypeOK'
<1>0. RecoveryTypeOK
    BY DEF TypeOK
<1>1. lease' \in [Sandbox -> {"none", "worker", "pass"}]
    BY <1>0, GiveUpIs DEF RecoveryTypeOK, RpNoGuest
<1>2. pass' \in Pass
    BY <1>0, GotoIs, GiveUpIs, PcsAre, PassPlaces DEF RpNoGuest, PassIs
<1>3. job' \in [Sandbox -> Job]
    BY <1>0, GiveUpIs DEF RecoveryTypeOK, RpNoGuest
<1>4. Stage'
    BY <1>0, GiveUpIs, PcsAre, PassPlaces
    DEF TypeOK, Stage, Held, RpNoGuest, PassIs, RecoveryTypeOK
<1> QED
    BY <1>0, <1>1, <1>2, <1>3, <1>4
    DEF TypeOK, Stage, RecoveryTypeOK, StateVolumeTypeOK, RpNoGuest, ec2,
        agents, registry, reclaim

LEMMA RpHandoffType ==
    ASSUME TypeOK, RpHandoff
    PROVE  TypeOK'
<1>0. RecoveryTypeOK
    BY DEF TypeOK
<1>1. lease' \in [Sandbox -> {"none", "worker", "pass"}]
    BY <1>0, GiveUpIs DEF RecoveryTypeOK, RpHandoff
<1>2. pass' \in Pass
    BY <1>0, GotoIs, GiveUpIs, PcsAre, PassPlaces DEF RpHandoff, PassIs
<1>3. job' \in [Sandbox -> Job]
    BY <1>0, GiveUpIs DEF RecoveryTypeOK, RpHandoff
<1>4. Stage'
    BY <1>0, StageAtGiveUp, StageOfReturn, GotoIs, PcsAre, PassPlaces
    DEF RpHandoff, PassIs
<1> QED
    BY <1>0, <1>1, <1>2, <1>3, <1>4
    DEF TypeOK, Stage, RecoveryTypeOK, StateVolumeTypeOK, RpHandoff, ec2,
        agents, registry, reclaim

LEMMA RpUnmountType ==
    ASSUME TypeOK, RpUnmount
    PROVE  TypeOK'
<1>0. RecoveryTypeOK
    BY DEF TypeOK
<1>1. mnt' \in [Node -> Volume \cup {None}]
    BY <1>0, PassPlaces, PcsAre, UnmountType
    DEF RecoveryTypeOK, StateVolumeTypeOK, RpUnmount, Quiesce, Unmounts
<1>2. vm' \in [Node -> [Sandbox -> Runtime]]
    BY <1>0, PassPlaces, PcsAre, UnmountType
    DEF RecoveryTypeOK, StateVolumeTypeOK, RpUnmount, Quiesce, Unmounts
<1>3. lease' \in [Sandbox -> {"none", "worker", "pass"}]
    BY <1>0, GiveUpIs DEF RecoveryTypeOK, RpUnmount, Quiesce
<1>4. pass' \in Pass
    BY <1>0, GotoIs, GiveUpIs, PcsAre, PassPlaces
    DEF RpUnmount, Quiesce, PassIs
<1>5. job' \in [Sandbox -> Job]
    BY <1>0, GiveUpIs DEF RecoveryTypeOK, RpUnmount, Quiesce
<1>6. Stage'
    BY <1>0, StageAtGiveUp, StageOfReturn, GotoIs, PcsAre, PassPlaces
    DEF RpUnmount, Quiesce, PassIs
<1> QED
    BY <1>0, <1>1, <1>2, <1>3, <1>4, <1>5, <1>6
    DEF TypeOK, Stage, RecoveryTypeOK, StateVolumeTypeOK, RpUnmount, Quiesce,
        ec2, registry, reclaim

LEMMA RpDetachType ==
    ASSUME TypeOK, RpDetach
    PROVE  TypeOK'
<1>0. RecoveryTypeOK
    BY DEF TypeOK
<1>1. at' \in [Volume -> Place \cup {"deleted"}]
    BY <1>0
    DEF RecoveryTypeOK, StateVolumeTypeOK, RpDetach, Release, Detach, Place
<1>2. pass' \in Pass
    BY <1>0, GotoIs, PcsAre, PassPlaces DEF RpDetach, Release, PassIs
<1>3. Stage'
    BY <1>0, GotoIs, PcsAre, PassPlaces
    DEF TypeOK, Stage, Held, RpDetach, Release, PassIs, workers
<1> QED
    BY <1>0, <1>1, <1>2, <1>3
    DEF TypeOK, Stage, RecoveryTypeOK, StateVolumeTypeOK, RpDetach, Release,
        agents, registry, reclaim, workers

LEMMA RpUnmountReplacedType ==
    ASSUME TypeOK, RpUnmountReplaced
    PROVE  TypeOK'
<1>0. RecoveryTypeOK
    BY DEF TypeOK
<1>1. mnt' \in [Node -> Volume \cup {None}]
    BY <1>0, PassPlaces, PcsAre, UnmountType
    DEF RecoveryTypeOK, StateVolumeTypeOK, RpUnmountReplaced, Quiesce, Unmounts
<1>2. vm' \in [Node -> [Sandbox -> Runtime]]
    BY <1>0, PassPlaces, PcsAre, UnmountType
    DEF RecoveryTypeOK, StateVolumeTypeOK, RpUnmountReplaced, Quiesce, Unmounts
<1>3. lease' \in [Sandbox -> {"none", "worker", "pass"}]
    BY <1>0, GiveUpIs DEF RecoveryTypeOK, RpUnmountReplaced, Quiesce
<1>4. pass' \in Pass
    BY <1>0, GotoIs, GiveUpIs, PcsAre, PassPlaces
    DEF RpUnmountReplaced, Quiesce, PassIs
<1>5. job' \in [Sandbox -> Job]
    BY <1>0, GiveUpIs DEF RecoveryTypeOK, RpUnmountReplaced, Quiesce
<1>6. Stage'
    BY <1>0, StageAtGiveUp, StageOfReturn, GotoIs, PcsAre, PassPlaces
    DEF RpUnmountReplaced, Quiesce, PassIs
<1> QED
    BY <1>0, <1>1, <1>2, <1>3, <1>4, <1>5, <1>6
    DEF TypeOK, Stage, RecoveryTypeOK, StateVolumeTypeOK, RpUnmountReplaced,
        Quiesce, ec2, registry, reclaim

LEMMA RpDetachReplacedType ==
    ASSUME TypeOK, RpDetachReplaced
    PROVE  TypeOK'
<1>0. RecoveryTypeOK
    BY DEF TypeOK
<1>1. at' \in [Volume -> Place \cup {"deleted"}]
    BY <1>0
    DEF RecoveryTypeOK, StateVolumeTypeOK, RpDetachReplaced, Release, Detach,
        Place
<1>2. pass' \in Pass
    BY <1>0, GotoIs, PcsAre, PassPlaces DEF RpDetachReplaced, Release, PassIs
<1>3. Stage'
    BY <1>0, GotoIs, PcsAre, PassPlaces
    DEF TypeOK, Stage, Held, RpDetachReplaced, Release, PassIs, workers
<1> QED
    BY <1>0, <1>1, <1>2, <1>3
    DEF TypeOK, Stage, RecoveryTypeOK, StateVolumeTypeOK, RpDetachReplaced,
        Release, agents, registry, reclaim, workers

LEMMA RpAttachType ==
    ASSUME TypeOK, RpAttach
    PROVE  TypeOK'
<1>0. RecoveryTypeOK
    BY DEF TypeOK
<1>1. at' \in [Volume -> Place \cup {"deleted"}]
    BY <1>0, PassPlaces, PcsAre
    DEF RecoveryTypeOK, StateVolumeTypeOK, RpAttach, Attach, Moved, Place
<1>2. keep' \in SUBSET Volume
    BY <1>0, PassPlaces, PcsAre
    DEF RecoveryTypeOK, StateVolumeTypeOK, RpAttach, Attach, Moved
<1>3. lease' \in [Sandbox -> {"none", "worker", "pass"}]
    BY <1>0, GiveUpIs DEF RecoveryTypeOK, RpAttach
<1>4. pass' \in Pass
    BY <1>0, GotoIs, GiveUpIs, PcsAre, PassPlaces DEF RpAttach, PassIs
<1>5. job' \in [Sandbox -> Job]
    BY <1>0, GiveUpIs DEF RecoveryTypeOK, RpAttach
<1>6. Stage'
    BY <1>0, StageAtGiveUp, StageOfReturn, GotoIs, PcsAre, PassPlaces
    DEF RpAttach, PassIs
<1> QED
    BY <1>0, <1>1, <1>2, <1>3, <1>4, <1>5, <1>6
    DEF TypeOK, Stage, RecoveryTypeOK, StateVolumeTypeOK, RpAttach, agents,
        registry, reclaim

LEMMA RpMountType ==
    ASSUME TypeOK, RpMount
    PROVE  TypeOK'
<1>0. RecoveryTypeOK
    BY DEF TypeOK
<1>1. mnt' \in [Node -> Volume \cup {None}]
    BY <1>0, PassPlaces, PcsAre
    DEF RecoveryTypeOK, StateVolumeTypeOK, RpMount, Mount, Moved
<1>2. lease' \in [Sandbox -> {"none", "worker", "pass"}]
    BY <1>0, GiveUpIs DEF RecoveryTypeOK, RpMount
<1>3. pass' \in Pass
    BY <1>0, GotoIs, GiveUpIs, PcsAre, PassPlaces DEF RpMount, PassIs
<1>4. job' \in [Sandbox -> Job]
    BY <1>0, GiveUpIs DEF RecoveryTypeOK, RpMount, Job
<1>5. Stage'
    BY <1>0, StageAtGiveUp, GotoIs, PcsAre, PassPlaces
    DEF RpMount, PassIs, TypeOK, Stage, Held
<1> QED
    BY <1>0, <1>1, <1>2, <1>3, <1>4, <1>5
    DEF TypeOK, Stage, RecoveryTypeOK, StateVolumeTypeOK, RpMount, ec2,
        registry, reclaim

LEMMA RpReturnType ==
    ASSUME TypeOK, NEW s \in Sandbox, RpReturn(s)
    PROVE  TypeOK'
<1>0. RecoveryTypeOK
    BY DEF TypeOK
<1>1. rec' \in [Sandbox -> Record]
    BY <1>0, BackIs, PassPlaces, RecordIs DEF RecoveryTypeOK, RpReturn
<1>2. job' \in [Sandbox -> Job]
    BY <1>0 DEF RecoveryTypeOK, RpReturn, Job
<1>3. Stage'
    BY <1>0 DEF TypeOK, Stage, Held, RpReturn, RecoveryTypeOK, workers
<1> QED
    BY <1>0, <1>1, <1>2, <1>3
    DEF TypeOK, Stage, RecoveryTypeOK, StateVolumeTypeOK, RpReturn, ec2,
        agents, registry, reclaim, workers

LEMMA RpBootType ==
    ASSUME TypeOK, NEW s \in Sandbox, RpBoot(s)
    PROVE  TypeOK'
<1>0. RecoveryTypeOK
    BY DEF TypeOK
<1>1. vm' \in [Node -> [Sandbox -> Runtime]]
    BY <1>0, ResumeType, PassPlaces DEF RpBoot, Resumes
<1>2. job' \in [Sandbox -> Job]
    BY <1>0, PassPlaces DEF RecoveryTypeOK, RpBoot, Resumes, Job
<1>3. Stage'
    BY <1>0 DEF TypeOK, Stage, Held, RpBoot, RecoveryTypeOK, workers
<1> QED
    BY <1>0, <1>1, <1>2, <1>3
    DEF TypeOK, Stage, RecoveryTypeOK, StateVolumeTypeOK, RpBoot, ec2,
        registry, reclaim, workers

LEMMA RpBootFailsType ==
    ASSUME TypeOK, NEW s \in Sandbox, RpBootFails(s)
    PROVE  TypeOK'
<1>0. RecoveryTypeOK
    BY DEF TypeOK
<1>1. budget' \in 0 .. Budget
    BY <1>0, StateVolumeAssumption
    DEF RecoveryTypeOK, StateVolumeTypeOK, RpBootFails, Spend
<1>2. job' \in [Sandbox -> Job]
    BY <1>0 DEF RecoveryTypeOK, RpBootFails, Job
<1>3. Stage'
    BY <1>0 DEF TypeOK, Stage, Held, RpBootFails, RecoveryTypeOK, workers
<1> QED
    BY <1>0, <1>1, <1>2, <1>3
    DEF TypeOK, Stage, RecoveryTypeOK, StateVolumeTypeOK, RpBootFails, ec2,
        agents, registry, reclaim, workers

LEMMA RpDoneType ==
    ASSUME TypeOK, NEW s \in Sandbox, RpDone(s)
    PROVE  TypeOK'
<1>0. RecoveryTypeOK
    BY DEF TypeOK
<1>1. snap' \in [Sandbox -> Copy \cup {"gone"}]
    BY <1>0, PublishType DEF RecoveryTypeOK, StateVolumeTypeOK, RpDone
<1>2. s3' \in [Sandbox -> Copy]
    BY <1>0, PublishType DEF RecoveryTypeOK, StateVolumeTypeOK, RpDone
<1>3. rec' \in [Sandbox -> Record]
    BY <1>0, BackIs, PassPlaces, StatesAre DEF RecoveryTypeOK, RpDone
<1>4. job' \in [Sandbox -> Job]
    BY <1>0 DEF RecoveryTypeOK, RpDone, Job
<1>5. Stage'
    BY <1>0 DEF TypeOK, Stage, Held, RpDone, RecoveryTypeOK, workers
<1> QED
    BY <1>0, <1>1, <1>2, <1>3, <1>4, <1>5
    DEF TypeOK, Stage, RecoveryTypeOK, StateVolumeTypeOK, RpDone, ec2,
        registry, reclaim, workers

LEMMA RpHealthType ==
    ASSUME TypeOK, RpHealth
    PROVE  TypeOK'
<1>0. RecoveryTypeOK
    BY DEF TypeOK
<1>1. at' \in [Volume -> Place \cup {"deleted"}]
    <2>1. UNCHANGED at \/ Delete(Replaced)
        BY DEF RpHealth
    <2> QED
        BY <1>0, <2>1 DEF RecoveryTypeOK, StateVolumeTypeOK, Delete
<1>2. lease' \in [Sandbox -> {"none", "worker", "pass"}]
    BY <1>0, GiveUpIs DEF RecoveryTypeOK, RpHealth
<1>3. pass' \in Pass
    BY <1>0, GotoIs, GiveUpIs, PcsAre, PassPlaces DEF RpHealth, PassIs
<1>4. job' \in [Sandbox -> Job]
    BY <1>0, GiveUpIs DEF RecoveryTypeOK, RpHealth
<1>5. Stage'
    BY <1>0, StageAtGiveUp, StageOfReturn, GotoIs, PcsAre, PassPlaces
    DEF RpHealth, PassIs
<1> QED
    BY <1>0, <1>1, <1>2, <1>3, <1>4, <1>5
    DEF TypeOK, Stage, RecoveryTypeOK, StateVolumeTypeOK, RpHealth, agents,
        registry, reclaim

LEMMA RpReleaseType ==
    ASSUME TypeOK, RpRelease
    PROVE  TypeOK'
<1>0. RecoveryTypeOK
    BY DEF TypeOK
<1>1. rclaim' \in [Spot -> Claim]
    BY <1>0 DEF RecoveryTypeOK, RpRelease, Unclaimed, Claim
<1>2. pass' \in Pass
    BY <1>0, GotoIs, PcsAre, PassPlaces DEF RpRelease, PassIs
<1>3. Stage'
    BY <1>0, GotoIs, PcsAre, PassPlaces
    DEF TypeOK, Stage, Held, RpRelease, PassIs, workers
<1> QED
    BY <1>0, <1>1, <1>2, <1>3
    DEF TypeOK, Stage, RecoveryTypeOK, StateVolumeTypeOK, RpRelease, ec2,
        agents, reclaim, workers

LEMMA RpTerminateType ==
    ASSUME TypeOK, RpTerminate
    PROVE  TypeOK'
<1>0. RecoveryTypeOK
    BY DEF TypeOK
<1>1. host' \in [Node -> {"absent", "ordered", "up", "gone"}]
    BY <1>0, EndType, PassPlaces, PcsAre
    DEF RecoveryTypeOK, StateVolumeTypeOK, RpTerminate
<1>2. at' \in [Volume -> Place \cup {"deleted"}]
    BY <1>0, EndType, PassPlaces, PcsAre
    DEF RecoveryTypeOK, StateVolumeTypeOK, RpTerminate
<1>3. mnt' \in [Node -> Volume \cup {None}]
    BY <1>0, EndType, PassPlaces, PcsAre
    DEF RecoveryTypeOK, StateVolumeTypeOK, RpTerminate
<1>4. vm' \in [Node -> [Sandbox -> Runtime]]
    BY <1>0, EndType, PassPlaces, PcsAre
    DEF RecoveryTypeOK, StateVolumeTypeOK, RpTerminate
<1>5. lease' \in [Sandbox -> {"none", "worker", "pass"}]
    BY <1>0, GiveUpIs DEF RecoveryTypeOK, RpTerminate
<1>6. pass' \in Pass
    BY <1>0, GotoIs, GiveUpIs, PcsAre, PassPlaces DEF RpTerminate, PassIs
<1>7. job' \in [Sandbox -> Job]
    BY <1>0, GiveUpIs DEF RecoveryTypeOK, RpTerminate
<1>8. Stage'
    BY <1>0, GiveUpIs, PcsAre, PassPlaces
    DEF TypeOK, Stage, Held, RpTerminate, PassIs, RecoveryTypeOK
<1> QED
    BY <1>0, <1>1, <1>2, <1>3, <1>4, <1>5, <1>6, <1>7, <1>8
    DEF TypeOK, Stage, RecoveryTypeOK, StateVolumeTypeOK, RpTerminate,
        registry, reclaim

LEMMA CrashType ==
    ASSUME TypeOK, Crash
    PROVE  TypeOK'
<1>0. RecoveryTypeOK
    BY DEF TypeOK
<1>1. budget' \in 0 .. Budget
    BY <1>0, StateVolumeAssumption
    DEF RecoveryTypeOK, StateVolumeTypeOK, Crash, Spend
<1>2. lease' \in [Sandbox -> {"none", "worker", "pass"}]
    BY <1>0 DEF RecoveryTypeOK, Crash
<1>3. pass' \in Pass
    BY <1>0, FinishIs DEF Crash, PassIs
<1>4. job' \in [Sandbox -> Job]
    BY <1>0, FinishIs DEF RecoveryTypeOK, Crash, Job
<1>5. Stage'
    BY <1>0, FinishIs, PcsAre, PassPlaces
    DEF TypeOK, Stage, Held, Crash, PassIs, RecoveryTypeOK
<1> QED
    BY <1>0, <1>1, <1>2, <1>3, <1>4, <1>5
    DEF TypeOK, Stage, RecoveryTypeOK, StateVolumeTypeOK, Crash, ec2, agents,
        registry, reclaim

LEMMA LeaseLostType ==
    ASSUME TypeOK, LeaseLost
    PROVE  TypeOK'
<1>0. RecoveryTypeOK
    BY DEF TypeOK
<1>1. budget' \in 0 .. Budget
    BY <1>0, StateVolumeAssumption
    DEF RecoveryTypeOK, StateVolumeTypeOK, LeaseLost, Spend
<1>2. lease' \in [Sandbox -> {"none", "worker", "pass"}]
    BY <1>0 DEF RecoveryTypeOK, LeaseLost
<1>3. pass' \in Pass
    BY <1>0, LostIs, PassPlaces DEF LeaseLost, PassIs
<1>4. Stage'
    BY <1>0, LostIs, PcsAre, PassPlaces
    DEF TypeOK, Stage, Held, LeaseLost, PassIs, RecoveryTypeOK
<1> QED
    BY <1>0, <1>1, <1>2, <1>3, <1>4
    DEF TypeOK, Stage, RecoveryTypeOK, StateVolumeTypeOK, LeaseLost, ec2,
        agents, registry, reclaim

-----------------------------------------------------------------------------
LEMMA InitType ==
    ASSUME RecoveryInit
    PROVE  TypeOK
<1>0. StateVolumeInit
    BY DEF RecoveryInit
<1>1. StateVolumeTypeOK
    <2>1. /\ vm \in [Node -> [Sandbox -> Runtime]]
          /\ snap \in [Sandbox -> Copy] /\ s3 \in [Sandbox -> Copy]
        BY <1>0 DEF StateVolumeInit, Runtime, Copy
    <2>2. /\ host \in [Node -> {"absent", "ordered", "up", "gone"}]
          /\ at \in [Volume -> Place \cup {"deleted"}]
          /\ keep \in SUBSET Volume /\ mnt \in [Node -> Volume \cup {None}]
          /\ budget \in 0 .. Budget
        BY <1>0, StateVolumeAssumption
        DEF StateVolumeInit, Node, Volume, Place
    <2> QED
        BY <2>1, <2>2 DEF StateVolumeTypeOK
<1>2. rec \in [Sandbox -> Record]
    <2>1. \A s \in Sandbox : vm[Source][s] \in RecState /\ Source \in Place
        BY <1>1, StateVolumeAssumption
        DEF StateVolumeTypeOK, Runtime, RecState, Node, Place, RECOVERY_STATES
    <2>2. \A s \in Sandbox :
             [NoRecord EXCEPT !.state = vm[Source][s], !.node = Source] \in Record
        BY <2>1, NoRecordIs DEF Record
    <2> QED
        BY <2>2 DEF RecoveryInit
<1>3. hb \in [Node -> Item]
    <2>1. \A n \in Node : Cardinality(Resident(n)) \in 0 .. Cardinality(Sandbox)
        <3> SUFFICES ASSUME NEW n \in Node
                     PROVE  Cardinality(Resident(n)) \in 0 .. Cardinality(Sandbox)
            OBVIOUS
        <3>1. Resident(n) \in SUBSET Sandbox
            BY DEF Resident
        <3> QED
            BY <3>1, FS_Subset, FS_CardinalityType, StateVolumeAssumption
    <2> QED
        BY <1>1, <2>1 DEF RecoveryInit, Item, StateVolumeTypeOK
<1>4. pass \in Pass /\ job \in [Sandbox -> Job]
    BY IdleIs DEF RecoveryInit, NoJob, Job
<1>5. work \in [Sandbox -> Operation]
    BY DEF RecoveryInit, NoWork, Operation, Place
<1>6. RecoveryTypeOK
    BY <1>1, <1>2, <1>3, <1>4, <1>5
    DEF RecoveryInit, RecoveryTypeOK, Unclaimed, Claim
<1>7. Stage
    BY IdleIs, PcsAre DEF RecoveryInit, Stage, Held, NoJob
<1> QED
    BY <1>6, <1>7 DEF TypeOK, Stage

LEMMA StepType ==
    ASSUME TypeOK, [Next]_vars
    PROVE  TypeOK'
<1>1. CASE AgentStep
    BY <1>1, HeartbeatType, HeartbeatExpireType, DetectType, PreserveType,
        CkStartType, CkWriteType, CkDoneType, CkFailType
    DEF AgentStep
<1>2. CASE Ec2Step
    BY <1>2, DeadlineType, TerminateType, StandbyLostType, StandbyJoinsType
    DEF Ec2Step
<1>3. CASE WorkStep
    BY <1>3, WorkStartType, WorkCallType, WorkDoneType DEF WorkStep
<1>4. CASE RcStep
    BY <1>4, RcReadType, RcLookupType, RcClaimType, RcMarkType, RcAttachType,
        RcMountType, RcStartType, RcBootType, RcDoneType, RcFailType, RcEndType
    DEF RcStep
<1>5. CASE RpStep
    BY <1>5, RpReadType, RpLeaseType, RpEmptyType, RpDiscardType, RpTargetType,
        RpMarkType, RpSaveType, RpFlagType, RpNoGuestType, RpHandoffType,
        RpUnmountType, RpDetachType, RpUnmountReplacedType,
        RpDetachReplacedType, RpAttachType, RpMountType, RpReturnType,
        RpBootType, RpBootFailsType, RpDoneType, RpHealthType, RpReleaseType,
        RpTerminateType
    DEF RpStep
<1>6. CASE OperatorFault
    BY <1>6, CrashType, LeaseLostType DEF OperatorFault
<1>7. CASE UNCHANGED vars
    BY <1>7
    DEF TypeOK, Held, RecoveryTypeOK, StateVolumeTypeOK, vars, recoveryVars
<1> QED
    BY <1>1, <1>2, <1>3, <1>4, <1>5, <1>6, <1>7 DEF Next

\* Whatever is interrupted, in whatever order hosts end and requests come in:
\* a recovery works for a Spot host and a return for a standby, no lease is
\* held by the leader's pass unless a return is under way, and no guest is
\* being started outside the stages that start guests.
THEOREM SpotTypeCorrect == Spec => []TypeOK
<1>1. RecoveryInit => TypeOK
    BY InitType
<1>2. TypeOK /\ [Next]_vars => TypeOK'
    BY StepType
<1> QED
    BY <1>1, <1>2, PTL DEF Spec

-----------------------------------------------------------------------------
(* What the proofs about guests need of the hosts, the volume and the pass. *)

\* Records of a sandbox that is at home somewhere, and requests that rely on it.
Active == {"running", "suspending", "suspended", "resuming"}
Working(s) == work[s].kind \in {"suspend", "resume"}

\* The handoff proper: from the last check to the last guest resumed.
Handing ==
    {"unmount", "detach", "unmount2", "detach2", "attach2", "mount2", "restore"}

-----------------------------------------------------------------------------
(* Hosts, volumes and the pass. *)

\* The volume is mounted at most where it is attached, and on its first host
\* for as long as that lives.
MountedInv ==
    /\ \A n \in Node : mnt[n] = Home => at[Home] = n
    /\ Up(Source) => mnt[Source] = Home /\ at[Home] = Source

\* Only the first host is ever reclaimed; its registry item names the volume,
\* also as the one a handoff onto it would replace.  No checkpoint is due before
\* the agent saw the notice.
SourceInv ==
    /\ hb[Source].vol = Home
    /\ rclaim[Source].by # None => rclaim[Source].vol = Home
    /\ \A n \in Spot : evac[n] # "calm" => n = Source
    /\ past \subseteq {Source}
    /\ evac[Source] = "calm" => \A s \in Sandbox : ck[s] = "none"
    /\ \A s \in Sandbox : rec[s].sess \in {Source, None}

\* A recovery is of the first host, to a standby that has the volume mounted
\* while guests are resumed.
RecoveryPassInv ==
    /\ pass.pc \in RecoveryPc => pass.src = Source
    /\ pass.pc \in {"mark", "attach", "mount", "resume"} => pass.tgt \in Standby
    /\ pass.pc = "resume" => mnt[pass.tgt] = Home

\* A handoff keeps its claim of a Spot host with another volume than the one
\* that moves; the volume is detached only once it is unmounted.
HandoffPassInv ==
    /\ pass.pc \in RepatriationPc => Session # None
    /\ pass.pc \in {"mark2", "checkpoint", "release"} \cup Handing =>
          pass.tgt \in Spot
    /\ pass.pc \in Handing \cup {"release"} =>
          Replaced # Home /\ rclaim[pass.tgt].by = Session
    /\ pass.pc = "detach" =>
          mnt[pass.src] # Home /\ at[Home] \notin Node \ {pass.src}
    /\ pass.pc = "restore" => mnt[pass.tgt] = Home

VolumeInv == MountedInv /\ SourceInv /\ RecoveryPassInv /\ HandoffPassInv

LEMMA PlacesAre ==
    /\ Node = Spot \cup Standby /\ Volume = Spot /\ Place = Node \cup {None}
    /\ None \notin Node /\ "deleted" \notin Node /\ None # "deleted"
    /\ "none" \notin Node /\ "todo" \notin Node /\ "asked" \notin Node
    /\ "ended" \notin Node /\ "failed" \notin Node
    /\ Spot \cap Standby = {} /\ Source \in Spot /\ Source \in Node
    /\ Home = Source /\ Home # None /\ Home \in Volume
    BY StateVolumeAssumption DEF Node, Volume, Place, Home

LEMMA HandingIs ==
    /\ Handing = {"unmount", "detach", "unmount2", "detach2", "attach2",
                  "mount2", "restore"}
    /\ Handing \subseteq RepatriationPc
    /\ Active = {"running", "suspending", "suspended", "resuming"}
    BY PcsAre DEF Handing, Active

\* Only a heartbeat, a reclaim notice or a record is written.
LEMMA VolumeStays ==
    ASSUME VolumeInv, UNCHANGED <<host, at, mnt, claim, rclaim, pass>>,
           hb'[Source].vol = Home, past' \subseteq {Source},
           \A n \in Spot : evac'[n] # "calm" => n = Source,
           evac'[Source] = "calm" => evac[Source] = "calm" /\ UNCHANGED ck,
           \A s \in Sandbox : rec'[s].sess \in {Source, None}
    PROVE  VolumeInv'
    BY DEF VolumeInv, MountedInv, SourceInv, RecoveryPassInv, HandoffPassInv,
           Up, Replaced, Session

\* The pass ends, with the jobs and the leases it had.
Ends ==
    /\ pass'.pc = "idle"
    /\ \A s \in Sandbox :
          /\ job'[s] = "none"
          /\ lease'[s] = IF lease[s] = "pass" THEN "none" ELSE lease[s]

LEMMA VolumeAtEnd ==
    ASSUME VolumeInv, UNCHANGED <<hb, evac, past, rec, ck>>, Ends,
           MountedInv', rclaim'[Source] = rclaim[Source]
    PROVE  VolumeInv'
    BY PcsAre, HandingIs
    DEF VolumeInv, SourceInv, RecoveryPassInv, HandoffPassInv, Ends

LEMMA GiveUpEnds ==
    ASSUME RecoveryTypeOK, GiveUp
    PROVE  Ends
    BY GiveUpIs DEF Ends, PassIs, NoJob

\* A recovery holds no lease.
LEMMA FinishEnds ==
    ASSUME TypeOK, pass.pc \in RecoveryPc, Finish, UNCHANGED lease
    PROVE  Ends
<1>1. \A s \in Sandbox : lease[s] # "pass"
    BY PcsAre DEF TypeOK, Held
<1> QED
    BY <1>1, FinishIs DEF Ends, PassIs, NoJob

\* The instance of a host ends.
LEMMA EndDoes ==
    ASSUME TypeOK, MountedInv, NEW n \in Node, End(n)
    PROVE  /\ MountedInv'
           /\ \A m \in Node :
                 /\ mnt'[m] = IF m = n THEN None ELSE mnt[m]
                 /\ host'[m] = IF m = n THEN "gone" ELSE host[m]
                 /\ \A s \in Sandbox :
                       vm'[m][s] = IF m = n THEN "none" ELSE vm[m][s]
           /\ at'[Home] \in Node => at'[Home] = at[Home]
<1>1. \A m \in Node :
         /\ mnt'[m] = IF m = n THEN None ELSE mnt[m]
         /\ host'[m] = IF m = n THEN "gone" ELSE host[m]
    BY DEF End, TypeOK, RecoveryTypeOK, StateVolumeTypeOK
<1>2. \A m \in Node, s \in Sandbox :
         vm'[m][s] = IF m = n THEN "none" ELSE vm[m][s]
    BY DEF End, TypeOK, RecoveryTypeOK, StateVolumeTypeOK
<1>3. at'[Home] = IF at[Home] # n THEN at[Home]
                  ELSE IF Home \in keep THEN None ELSE "deleted"
    BY PlacesAre DEF End
<1> QED
    BY <1>1, <1>2, <1>3, PlacesAre DEF MountedInv, Up

\* Suspended guests leave with the volume.
LEMMA UnmountDoes ==
    ASSUME TypeOK, NEW n \in Node, Unmount(n)
    PROVE  \A m \in Node :
              /\ mnt'[m] = IF m = n THEN None ELSE mnt[m]
              /\ \A s \in Sandbox :
                    \/ vm'[m][s] = vm[m][s]
                    \/ m = n /\ vm[m][s] = "suspended" /\ vm'[m][s] = "none"
    BY DEF Unmount, TypeOK, RecoveryTypeOK, StateVolumeTypeOK
-----------------------------------------------------------------------------
(* What the actions on one sandbox do to it. *)

\* Hosts, volumes, claims and the pass stay as they are.
Settled == UNCHANGED <<host, at, mnt, hb, claim, rclaim, evac, past, pass>>

\* Every other sandbox stays as it is.
Same(r) ==
    /\ rec'[r] = rec[r] /\ work'[r] = work[r] /\ lease'[r] = lease[r]
    /\ ck'[r] = ck[r] /\ job'[r] = job[r]
    /\ \A n \in Node : vm'[n][r] = vm[n][r]

Others(s) == \A r \in Sandbox \ {s} : Same(r)

\* What a record is after a write, and what it keeps.
RecIs(s, state, tgt, node) ==
    /\ rec'[s].state = state /\ rec'[s].tgt = tgt /\ rec'[s].node = node
    /\ rec'[s].sess = rec[s].sess /\ rec'[s].orig = rec[s].orig
    /\ rec'[s].saved = rec[s].saved

VmIs(n, s, x) ==
    \A m \in Node, r \in Sandbox :
        vm'[m][r] = IF m = n /\ r = s THEN x ELSE vm[m][r]

LEMMA StateSet ==
    ASSUME RecoveryTypeOK, NEW s \in Sandbox, NEW state \in RecState,
           rec' = [rec EXCEPT ![s].state = state]
    PROVE  /\ RecIs(s, state, rec[s].tgt, rec[s].node)
           /\ \A q \in Sandbox \ {s} : rec'[q] = rec[q]
<1>1. /\ rec'[s] = [rec[s] EXCEPT !.state = state]
      /\ \A q \in Sandbox \ {s} : rec'[q] = rec[q]
    BY DEF RecoveryTypeOK
<1>2. rec[s] \in Record
    BY DEF RecoveryTypeOK
<1>3. RecIs(s, state, rec[s].tgt, rec[s].node)
    BY <1>1, <1>2 DEF RecIs, Record
<1> QED
    BY <1>1, <1>3

LEMMA BoundSet ==
    ASSUME RecoveryTypeOK, NEW s \in Sandbox, NEW state \in RecState,
           NEW n \in Place, rec' = [rec EXCEPT ![s] = Bound(@, state, n)]
    PROVE  /\ RecIs(s, state, n, rec[s].node)
           /\ \A q \in Sandbox \ {s} : rec'[q] = rec[q]
<1>1. /\ rec'[s] = Bound(rec[s], state, n)
      /\ \A q \in Sandbox \ {s} : rec'[q] = rec[q]
    BY DEF RecoveryTypeOK
<1>2. rec[s] \in Record
    BY DEF RecoveryTypeOK
<1>3. RecIs(s, state, n, rec[s].node)
    BY <1>1, <1>2, BoundIs DEF RecIs
<1> QED
    BY <1>1, <1>3

LEMMA PlacedSet ==
    ASSUME RecoveryTypeOK, NEW s \in Sandbox, NEW n \in Place,
           rec' = [rec EXCEPT ![s] = Placed(@, n)]
    PROVE  /\ RecIs(s, "running", rec[s].tgt, n)
           /\ \A q \in Sandbox \ {s} : rec'[q] = rec[q]
<1>1. /\ rec'[s] = Placed(rec[s], n)
      /\ \A q \in Sandbox \ {s} : rec'[q] = rec[q]
    BY DEF RecoveryTypeOK
<1>2. rec[s] \in Record
    BY DEF RecoveryTypeOK
<1>3. RecIs(s, "running", rec[s].tgt, n)
    BY <1>1, <1>2, PlacedIs DEF RecIs
<1> QED
    BY <1>1, <1>3

\* A handoff's checkpoint is flagged.
FlaggedIs(s) ==
    /\ rec'[s].state = "repatriating" /\ rec'[s].saved
    /\ rec'[s].tgt = rec[s].tgt /\ rec'[s].node = rec[s].node
    /\ rec'[s].sess = rec[s].sess /\ rec'[s].orig = rec[s].orig

LEMMA SavedSet ==
    ASSUME RecoveryTypeOK, NEW s \in Sandbox,
           rec' = [rec EXCEPT ![s] = Saved(@)]
    PROVE  FlaggedIs(s) /\ \A q \in Sandbox \ {s} : rec'[q] = rec[q]
<1>1. /\ rec'[s] = Saved(rec[s])
      /\ \A q \in Sandbox \ {s} : rec'[q] = rec[q]
    BY DEF RecoveryTypeOK
<1>2. rec[s] \in Record
    BY DEF RecoveryTypeOK
<1>3. FlaggedIs(s)
    BY <1>1, <1>2, SavedIs DEF FlaggedIs
<1> QED
    BY <1>1, <1>3

LEMMA BackSet ==
    ASSUME RecoveryTypeOK, NEW s \in Sandbox, NEW state \in RecState,
           NEW n \in Place, rec' = [rec EXCEPT ![s] = Back(@, state, n)]
    PROVE  /\ RecIs(s, state, n, n)
           /\ \A q \in Sandbox \ {s} : rec'[q] = rec[q]
<1>1. /\ rec'[s] = Back(rec[s], state, n)
      /\ \A q \in Sandbox \ {s} : rec'[q] = rec[q]
    BY DEF RecoveryTypeOK
<1>2. rec[s] \in Record
    BY DEF RecoveryTypeOK
<1>3. RecIs(s, state, n, n)
    BY <1>1, <1>2, BackIs DEF RecIs
<1> QED
    BY <1>1, <1>3

\* Either nothing is written or the journal entry, and never a new item.
JournalIs(s, state, n) ==
    /\ \/ rec'[s] = rec[s]
       \/ rec[s].state # "none" /\ rec'[s].state = state /\ rec'[s].sess = n
    /\ rec'[s].tgt = rec[s].tgt /\ rec'[s].node = rec[s].node
    /\ rec'[s].orig = rec[s].orig /\ rec'[s].saved = rec[s].saved

LEMMA JournalSet ==
    ASSUME RecoveryTypeOK, NEW s \in Sandbox, NEW state \in RecState,
           NEW n \in Spot,
           \/ rec' = rec
           \/ /\ rec[s].state # "none"
              /\ rec' = [rec EXCEPT ![s] = Journaled(@, state, n)]
    PROVE  JournalIs(s, state, n) /\ \A q \in Sandbox \ {s} : rec'[q] = rec[q]
<1>1. CASE rec' = rec
    BY <1>1 DEF JournalIs
<1>2. CASE /\ rec[s].state # "none"
           /\ rec' = [rec EXCEPT ![s] = Journaled(@, state, n)]
    <2>1. /\ rec'[s] = Journaled(rec[s], state, n)
          /\ \A q \in Sandbox \ {s} : rec'[q] = rec[q]
        BY <1>2 DEF RecoveryTypeOK
    <2>2. rec[s] \in Record
        BY DEF RecoveryTypeOK
    <2> QED
        BY <1>2, <2>1, <2>2, JournaledIs DEF JournalIs
<1> QED
    BY <1>1, <1>2

LEMMA VmSet ==
    ASSUME RecoveryTypeOK, NEW n \in Node, NEW s \in Sandbox, NEW x,
           vm' = [vm EXCEPT ![n][s] = x]
    PROVE  VmIs(n, s, x)
    BY DEF RecoveryTypeOK, StateVolumeTypeOK, VmIs

\* The checkpoint of a sandbox is the first host's, which is up.
LEMMA CkStartDoes ==
    ASSUME TypeOK, VolumeInv, NEW n \in Spot, NEW s \in Sandbox, CkStart(n, s)
    PROVE  /\ Settled /\ Others(s) /\ evac[Source] # "calm"
           /\ UNCHANGED <<vm, work, lease, job>>
           /\ n = Source /\ Up(Source) /\ ck[s] = "listed" /\ ck'[s] = "open"
           /\ JournalIs(s, "checkpointing", Source)
<1>0. RecoveryTypeOK
    BY DEF TypeOK
<1>1. /\ n = Source /\ Up(Source) /\ evac[Source] # "calm"
      /\ ck[s] = "listed" /\ ck'[s] = "open"
      /\ \A r \in Sandbox \ {s} : ck'[r] = ck[r]
    BY <1>0 DEF CkStart, VolumeInv, SourceInv, RecoveryTypeOK
<1>2. UNCHANGED <<vm, work, lease, job>> /\ Settled
    BY DEF CkStart, Settled, ec2, agents, registry, workers, passes
<1>3. \/ rec' = rec
      \/ /\ rec[s].state # "none"
         /\ rec' = [rec EXCEPT ![s] = Journaled(@, "checkpointing", n)]
    BY DEF CkStart, Journal
<1>4. /\ JournalIs(s, "checkpointing", n)
      /\ \A q \in Sandbox \ {s} : rec'[q] = rec[q]
    BY <1>0, <1>3, JournalSet, StatesAre
<1> QED
    BY <1>1, <1>2, <1>4 DEF Others, Same, JournalIs

LEMMA CkWriteDoes ==
    ASSUME TypeOK, VolumeInv, NEW n \in Spot, NEW s \in Sandbox, CkWrite(n, s)
    PROVE  /\ Settled /\ Others(s) /\ evac[Source] # "calm"
           /\ UNCHANGED <<rec, work, lease, job>>
           /\ n = Source /\ Up(Source) /\ ck[s] = "open" /\ ck'[s] = "written"
           /\ vm[Source][s] = "running" /\ VmIs(Source, s, "suspended")
<1>0. RecoveryTypeOK
    BY DEF TypeOK
<1>1. /\ n = Source /\ Up(Source) /\ evac[Source] # "calm"
      /\ ck[s] = "open" /\ ck'[s] = "written"
      /\ \A r \in Sandbox \ {s} : ck'[r] = ck[r]
      /\ vm[Source][s] = "running"
    BY <1>0 DEF CkWrite, VolumeInv, SourceInv, RecoveryTypeOK, Suspends
<1>2. UNCHANGED <<rec, work, lease, job>> /\ Settled
    BY DEF CkWrite, Settled, ec2, registry, workers, passes
<1>3. vm' = [vm EXCEPT ![Source][s] = "suspended"]
    BY <1>1 DEF CkWrite, Suspend
<1>4. VmIs(Source, s, "suspended")
    BY <1>0, <1>3, VmSet, PlacesAre
<1> QED
    BY <1>1, <1>2, <1>4 DEF Others, Same, VmIs

LEMMA CkDoneDoes ==
    ASSUME TypeOK, VolumeInv, NEW n \in Spot, NEW s \in Sandbox, CkDone(n, s)
    PROVE  /\ Settled /\ Others(s) /\ evac[Source] # "calm"
           /\ UNCHANGED <<vm, work, lease, job>>
           /\ n = Source /\ Up(Source) /\ ck[s] = "written" /\ ck'[s] = "ended"
           /\ JournalIs(s, "checkpointed", Source)
<1>0. RecoveryTypeOK
    BY DEF TypeOK
<1>1. /\ n = Source /\ Up(Source) /\ evac[Source] # "calm"
      /\ ck[s] = "written" /\ ck'[s] = "ended"
      /\ \A r \in Sandbox \ {s} : ck'[r] = ck[r]
    BY <1>0 DEF CkDone, VolumeInv, SourceInv, RecoveryTypeOK
<1>2. UNCHANGED <<vm, work, lease, job>> /\ Settled
    BY DEF CkDone, Settled, ec2, agents, registry, workers, passes
<1>3. \/ rec' = rec
      \/ /\ rec[s].state # "none"
         /\ rec' = [rec EXCEPT ![s] = Journaled(@, "checkpointed", n)]
    BY DEF CkDone, Journal
<1>4. /\ JournalIs(s, "checkpointed", n)
      /\ \A q \in Sandbox \ {s} : rec'[q] = rec[q]
    BY <1>0, <1>3, JournalSet, StatesAre
<1> QED
    BY <1>1, <1>2, <1>4 DEF Others, Same, JournalIs

LEMMA CkFailDoes ==
    ASSUME TypeOK, VolumeInv, NEW n \in Spot, NEW s \in Sandbox, CkFail(n, s)
    PROVE  /\ Settled /\ Others(s) /\ evac[Source] # "calm"
           /\ UNCHANGED <<vm, work, lease, job>>
           /\ n = Source /\ Up(Source) /\ ck[s] = "open" /\ ck'[s] = "ended"
           /\ JournalIs(s, "recovery_failed", Source)
<1>0. RecoveryTypeOK
    BY DEF TypeOK
<1>1. /\ n = Source /\ Up(Source) /\ evac[Source] # "calm"
      /\ ck[s] = "open" /\ ck'[s] = "ended"
      /\ \A r \in Sandbox \ {s} : ck'[r] = ck[r]
    BY <1>0 DEF CkFail, VolumeInv, SourceInv, RecoveryTypeOK
<1>2. UNCHANGED <<vm, work, lease, job>> /\ Settled
    BY DEF CkFail, Settled, ec2, agents, registry, workers, passes
<1>3. \/ rec' = rec
      \/ /\ rec[s].state # "none"
         /\ rec' = [rec EXCEPT ![s] = Journaled(@, "recovery_failed", n)]
    BY DEF CkFail
<1>4. /\ JournalIs(s, "recovery_failed", n)
      /\ \A q \in Sandbox \ {s} : rec'[q] = rec[q]
    BY <1>0, <1>3, JournalSet, StatesAre
<1> QED
    BY <1>1, <1>2, <1>4 DEF Others, Same, JournalIs

LEMMA WorkStartDoes ==
    ASSUME TypeOK, NEW s \in Sandbox,
           NEW k \in {"suspend", "resume", "delete"}, WorkStart(s, k)
    PROVE  /\ Settled /\ Others(s) /\ UNCHANGED <<vm, ck, job>>
           /\ lease[s] = "none" /\ lease'[s] = "worker"
           /\ MayStart(k, rec[s].state)
           /\ work'[s].kind = k /\ work'[s].res = "none"
           /\ work'[s].at = IF k = "resume" THEN ResumeNode(rec[s])
                            ELSE rec[s].node
           /\ k = "resume" => Up(ResumeNode(rec[s]))
           /\ RecIs(s, Marked(k), rec[s].tgt, rec[s].node)
<1>0. RecoveryTypeOK
    BY DEF TypeOK
<1>1. /\ lease[s] = "none" /\ lease'[s] = "worker"
      /\ MayStart(k, rec[s].state)
      /\ \A r \in Sandbox \ {s} : lease'[r] = lease[r] /\ work'[r] = work[r]
      /\ work'[s] = [kind |-> k, res |-> "none",
                     at |-> IF k = "resume" THEN ResumeNode(rec[s])
                            ELSE rec[s].node]
      /\ k = "resume" => Up(ResumeNode(rec[s]))
    BY <1>0 DEF WorkStart, RecoveryTypeOK
<1>2. UNCHANGED <<vm, ck, job>> /\ Settled
    BY DEF WorkStart, Settled, ec2, agents, registry, reclaim, passes
<1>3. rec' = [rec EXCEPT ![s].state = Marked(k)] /\ Marked(k) \in RecState
    BY StatesAre DEF WorkStart, Marked
<1>4. /\ RecIs(s, Marked(k), rec[s].tgt, rec[s].node)
      /\ \A r \in Sandbox \ {s} : rec'[r] = rec[r]
    BY <1>0, <1>3, StateSet
<1> QED
    BY <1>1, <1>2, <1>4 DEF Others, Same

LEMMA WorkCallDoes ==
    ASSUME TypeOK, NEW s \in Sandbox, WorkCall(s)
    PROVE  /\ Settled /\ Others(s) /\ UNCHANGED <<rec, lease, ck, job>>
           /\ work[s].kind # "none" /\ work[s].res = "none"
           /\ work'[s].kind = work[s].kind /\ work'[s].at = work[s].at
           /\ \/ /\ work'[s].res = "ok" /\ Up(work[s].at) /\ work[s].at \in Node
                 /\ \/ /\ work[s].kind = "suspend"
                       /\ vm[work[s].at][s] = "running"
                       /\ VmIs(work[s].at, s, "suspended")
                    \/ work[s].kind = "resume" /\ VmIs(work[s].at, s, "running")
                    \/ work[s].kind = "delete" /\ VmIs(work[s].at, s, "none")
              \/ /\ work'[s].res = "error" /\ UNCHANGED vm
                 /\ work[s].kind = "suspend" => ~Suspends(work[s].at, s)
<1>0. RecoveryTypeOK
    BY DEF TypeOK
<1>1. work[s] \in Operation
    BY <1>0 DEF RecoveryTypeOK
<1>2. work[s].at \in Place
    BY <1>1 DEF Operation
<1>3. \A n \in Place : Up(n) => n \in Node
    BY DEF Up, Place
<1>4. UNCHANGED <<rec, lease, ck, job>> /\ Settled
    BY DEF WorkCall, Settled, ec2, registry, reclaim, passes
<1>5. work[s].kind # "none" /\ work[s].res = "none"
    BY DEF WorkCall
<1>6. CASE /\ work' = [work EXCEPT ![s].res = "error"] /\ UNCHANGED vm
           /\ work[s].kind = "suspend" => ~Suspends(work[s].at, s)
    <2>1. /\ work'[s].kind = work[s].kind /\ work'[s].at = work[s].at
          /\ work'[s].res = "error"
          /\ \A r \in Sandbox \ {s} : work'[r] = work[r]
        BY <1>0, <1>1, <1>6 DEF RecoveryTypeOK, Operation
    <2> QED
        BY <1>4, <1>5, <1>6, <2>1 DEF Others, Same
<1>7. CASE /\ work' = [work EXCEPT ![s].res = "ok"]
           /\ \/ /\ work[s].kind = "suspend" /\ Suspends(work[s].at, s)
                 /\ vm' = [vm EXCEPT ![work[s].at][s] = "suspended"]
              \/ /\ work[s].kind = "resume" /\ Up(work[s].at)
                 /\ vm' = [vm EXCEPT ![work[s].at][s] = "running"]
              \/ /\ work[s].kind = "delete" /\ Up(work[s].at)
                 /\ vm' = [vm EXCEPT ![work[s].at][s] = "none"]
    <2>1. /\ work'[s].kind = work[s].kind /\ work'[s].at = work[s].at
          /\ work'[s].res = "ok"
          /\ \A r \in Sandbox \ {s} : work'[r] = work[r]
        BY <1>0, <1>1, <1>7 DEF RecoveryTypeOK, Operation
    <2>2. Up(work[s].at) /\ work[s].at \in Node
        BY <1>2, <1>3, <1>7 DEF Suspends
    <2>3. \/ /\ work[s].kind = "suspend"
             /\ vm[work[s].at][s] = "running"
             /\ VmIs(work[s].at, s, "suspended")
          \/ work[s].kind = "resume" /\ VmIs(work[s].at, s, "running")
          \/ work[s].kind = "delete" /\ VmIs(work[s].at, s, "none")
        BY <1>0, <1>7, <2>2, VmSet DEF Suspends
    <2> QED
        BY <1>4, <1>5, <2>1, <2>2, <2>3 DEF Others, Same, VmIs
<1> QED
    BY <1>6, <1>7 DEF WorkCall, Suspend, Resume, Destroy, Resumes

LEMMA WorkDoneDoes ==
    ASSUME TypeOK, NEW s \in Sandbox, WorkDone(s)
    PROVE  /\ Settled /\ Others(s) /\ UNCHANGED <<vm, ck, job>>
           /\ work[s].res # "none" /\ lease'[s] = "none"
           /\ work'[s].kind = "none" /\ work'[s].res = "none"
           /\ work'[s].at = None
           /\ \/ /\ work[s].kind = "suspend" /\ work[s].res = "ok"
                 /\ \/ rec' = rec
                    \/ /\ rec[s].state = "suspending"
                       /\ RecIs(s, "suspended", rec[s].tgt, rec[s].node)
              \/ /\ work[s].kind = "resume" /\ work[s].res = "ok"
                 /\ RecIs(s, "running", rec[s].tgt, work[s].at)
              \/ /\ work[s].kind = "delete" /\ work[s].res = "ok"
                 /\ rec'[s] = NoRecord
              \/ /\ work[s].kind = "suspend" /\ work[s].res = "error"
                 /\ RecIs(s, "running", rec[s].tgt, rec[s].node)
              \/ /\ work[s].kind # "suspend" /\ work[s].res = "error"
                 /\ RecIs(s, "failed", rec[s].tgt, rec[s].node)
<1>0. RecoveryTypeOK
    BY DEF TypeOK
<1>1. /\ lease'[s] = "none" /\ work'[s] = NoWork
      /\ \A r \in Sandbox \ {s} : lease'[r] = lease[r] /\ work'[r] = work[r]
    BY <1>0 DEF WorkDone, RecoveryTypeOK
<1>2. UNCHANGED <<vm, ck, job>> /\ Settled
    BY DEF WorkDone, Settled, ec2, registry, reclaim, passes
<1>3. work[s].at \in Place /\ rec[s] \in Record
    BY <1>0 DEF RecoveryTypeOK, Operation
<1>4. /\ work'[s].kind = "none" /\ work'[s].res = "none"
      /\ work'[s].at = None /\ work[s].res # "none"
    BY <1>1 DEF NoWork, WorkDone
<1>5. CASE work[s].kind = "suspend" /\ work[s].res = "ok"
    <2>1. /\ \/ rec' = rec
             \/ /\ rec[s].state = "suspending"
                /\ RecIs(s, "suspended", rec[s].tgt, rec[s].node)
          /\ \A q \in Sandbox \ {s} : rec'[q] = rec[q]
        BY <1>0, <1>5, StateSet, StatesAre DEF WorkDone
    <2> QED
        BY <1>1, <1>2, <1>4, <1>5, <2>1 DEF Others, Same
<1>6. CASE work[s].kind = "resume" /\ work[s].res = "ok"
    <2>1. rec' = [rec EXCEPT ![s] = Placed(@, work[s].at)]
        BY <1>6 DEF WorkDone
    <2>2. /\ RecIs(s, "running", rec[s].tgt, work[s].at)
          /\ \A q \in Sandbox \ {s} : rec'[q] = rec[q]
        BY <1>0, <1>3, <2>1, PlacedSet
    <2> QED
        BY <1>1, <1>2, <1>4, <1>6, <2>2 DEF Others, Same
<1>7. CASE work[s].kind = "delete" /\ work[s].res = "ok"
    <2>1. rec' = [rec EXCEPT ![s] = NoRecord]
        BY <1>7 DEF WorkDone
    <2>2. rec'[s] = NoRecord /\ \A q \in Sandbox \ {s} : rec'[q] = rec[q]
        BY <1>0, <2>1 DEF RecoveryTypeOK
    <2> QED
        BY <1>1, <1>2, <1>4, <1>7, <2>2 DEF Others, Same
<1>8. CASE work[s].res = "error" /\ work[s].kind = "suspend"
    <2>1. rec' = [rec EXCEPT ![s].state = "running"]
        BY <1>8 DEF WorkDone
    <2>2. /\ RecIs(s, "running", rec[s].tgt, rec[s].node)
          /\ \A q \in Sandbox \ {s} : rec'[q] = rec[q]
        BY <1>0, <2>1, StateSet, StatesAre
    <2> QED
        BY <1>1, <1>2, <1>4, <1>8, <2>2 DEF Others, Same
<1>9. CASE work[s].res = "error" /\ work[s].kind # "suspend"
    <2>1. rec' = [rec EXCEPT ![s].state = "failed"]
        BY <1>9 DEF WorkDone
    <2>2. /\ RecIs(s, "failed", rec[s].tgt, rec[s].node)
          /\ \A q \in Sandbox \ {s} : rec'[q] = rec[q]
        BY <1>0, <2>1, StateSet, StatesAre
    <2> QED
        BY <1>1, <1>2, <1>4, <1>9, <2>2 DEF Others, Same
<1> QED
    BY <1>5, <1>6, <1>7, <1>8, <1>9 DEF WorkDone

LEMMA RcStartDoes ==
    ASSUME TypeOK, NEW s \in Sandbox, RcStart(s)
    PROVE  /\ Settled /\ Others(s) /\ UNCHANGED <<vm, work, lease, ck>>
           /\ pass.pc = "resume" /\ job[s] = "todo" /\ job'[s] = "asked"
           /\ RecIs(s, "recovering", pass.tgt, rec[s].node)
<1>0. RecoveryTypeOK
    BY DEF TypeOK
<1>1. /\ pass.pc = "resume" /\ job[s] = "todo" /\ job'[s] = "asked"
      /\ \A r \in Sandbox \ {s} : job'[r] = job[r]
    BY <1>0 DEF RcStart, RecoveryTypeOK
<1>2. UNCHANGED <<vm, work, lease, ck>> /\ Settled
    BY DEF RcStart, Settled, ec2, agents, workers, registry, reclaim
<1>3. rec' = [rec EXCEPT ![s] = Bound(@, "recovering", pass.tgt)]
    BY DEF RcStart
<1>4. pass.tgt \in Place /\ rec[s] \in Record
    BY <1>0, PassPlaces DEF RecoveryTypeOK
<1>5. /\ RecIs(s, "recovering", pass.tgt, rec[s].node)
      /\ \A r \in Sandbox \ {s} : rec'[r] = rec[r]
    BY <1>0, <1>3, <1>4, BoundSet, StatesAre
<1> QED
    BY <1>1, <1>2, <1>5 DEF Others, Same

LEMMA RcBootDoes ==
    ASSUME TypeOK, NEW s \in Sandbox, RcBoot(s)
    PROVE  /\ Settled /\ Others(s) /\ UNCHANGED <<rec, work, lease, ck>>
           /\ pass.pc = "resume" /\ job[s] = "asked" /\ job'[s] = rec[s].tgt
           /\ rec[s].tgt \in Node /\ Up(rec[s].tgt)
           /\ VmIs(rec[s].tgt, s, "running")
<1>0. RecoveryTypeOK
    BY DEF TypeOK
<1>1. /\ pass.pc = "resume" /\ job[s] = "asked" /\ job'[s] = rec[s].tgt
      /\ \A r \in Sandbox \ {s} : job'[r] = job[r]
      /\ vm' = [vm EXCEPT ![rec[s].tgt][s] = "running"]
      /\ Up(rec[s].tgt)
    BY <1>0 DEF RcBoot, RecoveryTypeOK, Resume, Resumes
<1>2. UNCHANGED <<rec, work, lease, ck>> /\ Settled
    BY DEF RcBoot, Settled, ec2, workers, registry, reclaim
<1>3. rec[s].tgt \in Node
    BY <1>0, <1>1 DEF RecoveryTypeOK, Record, Up, Place
<1>4. VmIs(rec[s].tgt, s, "running")
    BY <1>0, <1>1, <1>3, VmSet
<1> QED
    BY <1>1, <1>2, <1>3, <1>4 DEF Others, Same, VmIs

LEMMA RcDoneDoes ==
    ASSUME TypeOK, NEW s \in Sandbox, RcDone(s)
    PROVE  /\ Settled /\ Others(s) /\ UNCHANGED <<vm, work, lease, ck>>
           /\ pass.pc = "resume" /\ job[s] \in Node /\ job'[s] = "ended"
           /\ RecIs(s, "running", rec[s].tgt, job[s])
<1>0. RecoveryTypeOK
    BY DEF TypeOK
<1>1. /\ pass.pc = "resume" /\ job[s] \in Node /\ job'[s] = "ended"
      /\ \A r \in Sandbox \ {s} : job'[r] = job[r]
      /\ rec' = [rec EXCEPT ![s] = Placed(@, job[s])]
    BY <1>0 DEF RcDone, RecoveryTypeOK
<1>2. UNCHANGED <<vm, work, lease, ck>> /\ Settled
    BY DEF RcDone, Settled, ec2, workers, registry, reclaim
<1>3. job[s] \in Place /\ rec[s] \in Record
    BY <1>0, <1>1 DEF RecoveryTypeOK, Place
<1>4. /\ RecIs(s, "running", rec[s].tgt, job[s])
      /\ \A r \in Sandbox \ {s} : rec'[r] = rec[r]
    BY <1>0, <1>1, <1>3, PlacedSet
<1> QED
    BY <1>1, <1>2, <1>4 DEF Others, Same

LEMMA RcFailDoes ==
    ASSUME TypeOK, NEW s \in Sandbox, RcFail(s)
    PROVE  /\ Settled /\ Others(s) /\ UNCHANGED <<vm, work, lease, ck>>
           /\ pass.pc = "resume" /\ job[s] = "asked" /\ job'[s] = "ended"
           /\ RecIs(s, "recovery_failed", rec[s].tgt, rec[s].node)
<1>0. RecoveryTypeOK
    BY DEF TypeOK
<1>1. /\ pass.pc = "resume" /\ job[s] = "asked" /\ job'[s] = "ended"
      /\ \A r \in Sandbox \ {s} : job'[r] = job[r]
      /\ rec' = [rec EXCEPT ![s].state = "recovery_failed"]
    BY <1>0 DEF RcFail, RecoveryTypeOK
<1>2. UNCHANGED <<vm, work, lease, ck>> /\ Settled
    BY DEF RcFail, Settled, ec2, agents, workers, registry, reclaim
<1>3. /\ RecIs(s, "recovery_failed", rec[s].tgt, rec[s].node)
      /\ \A r \in Sandbox \ {s} : rec'[r] = rec[r]
    BY <1>0, <1>1, StateSet, StatesAre
<1> QED
    BY <1>1, <1>2, <1>3 DEF Others, Same

LEMMA RpSaveDoes ==
    ASSUME TypeOK, NEW s \in Sandbox, RpSave(s)
    PROVE  /\ Settled /\ Others(s) /\ UNCHANGED <<rec, work, lease, ck, job>>
           /\ pass.pc = "checkpoint" /\ s \in pass.view
           /\ rec[s].orig = "running"
           /\ pass.src \in Node /\ Up(pass.src)
           /\ VmIs(pass.src, s, "suspended")
<1>0. RecoveryTypeOK
    BY DEF TypeOK
<1>1. /\ pass.pc = "checkpoint" /\ s \in pass.view /\ rec[s].orig = "running"
      /\ Up(pass.src) /\ vm' = [vm EXCEPT ![pass.src][s] = "suspended"]
    BY DEF RpSave, ToCheckpoint, Suspend, Suspends
<1>2. UNCHANGED <<rec, work, lease, ck, job>> /\ Settled
    BY DEF RpSave, Settled, ec2, workers, registry, reclaim, passes
<1>3. pass.src \in Node
    BY <1>1, PassPlaces, PcsAre
<1>4. VmIs(pass.src, s, "suspended")
    BY <1>0, <1>1, <1>3, VmSet
<1> QED
    BY <1>1, <1>2, <1>3, <1>4 DEF Others, Same, VmIs

LEMMA RpFlagDoes ==
    ASSUME TypeOK, NEW s \in Sandbox, RpFlag(s)
    PROVE  /\ Settled /\ Others(s) /\ UNCHANGED <<vm, work, lease, ck, job>>
           /\ pass.pc = "checkpoint" /\ s \in pass.view
           /\ rec[s].orig = "running"
           /\ FlaggedIs(s)
<1>0. RecoveryTypeOK
    BY DEF TypeOK
<1>1. /\ pass.pc = "checkpoint" /\ s \in pass.view /\ rec[s].orig = "running"
      /\ rec' = [rec EXCEPT ![s] = Saved(@)]
    BY DEF RpFlag, ToCheckpoint
<1>2. UNCHANGED <<vm, work, lease, ck, job>> /\ Settled
    BY DEF RpFlag, Settled, ec2, agents, workers, registry, reclaim, passes
<1>3. /\ FlaggedIs(s)
      /\ \A r \in Sandbox \ {s} : rec'[r] = rec[r]
    BY <1>0, <1>1, SavedSet
<1> QED
    BY <1>1, <1>2, <1>3 DEF Others, Same

LEMMA RpReturnDoes ==
    ASSUME TypeOK, NEW s \in Sandbox, RpReturn(s)
    PROVE  /\ Settled /\ Others(s) /\ UNCHANGED <<vm, work, lease, ck>>
           /\ pass.pc = "restore" /\ job[s] = "todo" /\ job'[s] = "ended"
           /\ rec[s].orig # "running"
           /\ RecIs(s, rec[s].orig, pass.tgt, pass.tgt)
<1>0. RecoveryTypeOK
    BY DEF TypeOK
<1>1. /\ pass.pc = "restore" /\ job[s] = "todo" /\ job'[s] = "ended"
      /\ \A r \in Sandbox \ {s} : job'[r] = job[r]
      /\ rec[s].orig # "running"
      /\ rec' = [rec EXCEPT ![s] = Back(@, rec[s].orig, pass.tgt)]
    BY <1>0 DEF RpReturn, RecoveryTypeOK
<1>2. UNCHANGED <<vm, work, lease, ck>> /\ Settled
    BY DEF RpReturn, Settled, ec2, agents, workers, registry, reclaim
<1>3. pass.tgt \in Place /\ rec[s] \in Record /\ rec[s].orig \in RecState
    BY <1>0, PassPlaces, RecordIs DEF RecoveryTypeOK
<1>4. /\ RecIs(s, rec[s].orig, pass.tgt, pass.tgt)
      /\ \A r \in Sandbox \ {s} : rec'[r] = rec[r]
    BY <1>0, <1>1, <1>3, BackSet
<1> QED
    BY <1>1, <1>2, <1>4 DEF Others, Same

LEMMA RpBootDoes ==
    ASSUME TypeOK, NEW s \in Sandbox, RpBoot(s)
    PROVE  /\ Settled /\ Others(s) /\ UNCHANGED <<rec, work, lease, ck>>
           /\ pass.pc = "restore" /\ job[s] = "todo" /\ job'[s] = pass.tgt
           /\ rec[s].orig = "running"
           /\ pass.tgt \in Node /\ Up(pass.tgt) /\ VmIs(pass.tgt, s, "running")
<1>0. RecoveryTypeOK
    BY DEF TypeOK
<1>1. /\ pass.pc = "restore" /\ job[s] = "todo" /\ job'[s] = pass.tgt
      /\ \A r \in Sandbox \ {s} : job'[r] = job[r]
      /\ rec[s].orig = "running" /\ Up(pass.tgt)
      /\ vm' = [vm EXCEPT ![pass.tgt][s] = "running"]
    BY <1>0 DEF RpBoot, RecoveryTypeOK, Resume, Resumes
<1>2. UNCHANGED <<rec, work, lease, ck>> /\ Settled
    BY DEF RpBoot, Settled, ec2, workers, registry, reclaim
<1>3. pass.tgt \in Node
    BY <1>1, PassPlaces
<1>4. VmIs(pass.tgt, s, "running")
    BY <1>0, <1>1, <1>3, VmSet
<1> QED
    BY <1>1, <1>2, <1>3, <1>4 DEF Others, Same, VmIs

LEMMA RpBootFailsDoes ==
    ASSUME TypeOK, NEW s \in Sandbox, RpBootFails(s)
    PROVE  /\ Settled /\ Others(s) /\ UNCHANGED <<vm, rec, work, lease, ck>>
           /\ pass.pc = "restore" /\ job[s] = "todo" /\ job'[s] = "failed"
<1>0. RecoveryTypeOK
    BY DEF TypeOK
<1>1. /\ pass.pc = "restore" /\ job[s] = "todo" /\ job'[s] = "failed"
      /\ \A r \in Sandbox \ {s} : job'[r] = job[r]
    BY <1>0 DEF RpBootFails, RecoveryTypeOK
<1>2. UNCHANGED <<vm, rec, work, lease, ck>> /\ Settled
    BY DEF RpBootFails, Settled, ec2, agents, workers, registry, reclaim
<1> QED
    BY <1>1, <1>2 DEF Others, Same

LEMMA RpDoneDoes ==
    ASSUME TypeOK, NEW s \in Sandbox, RpDone(s)
    PROVE  /\ Settled /\ Others(s) /\ UNCHANGED <<vm, work, lease, ck>>
           /\ pass.pc = "restore" /\ job[s] \in Node /\ job'[s] = "ended"
           /\ RecIs(s, "running", pass.tgt, pass.tgt)
<1>0. RecoveryTypeOK
    BY DEF TypeOK
<1>1. /\ pass.pc = "restore" /\ job[s] \in Node /\ job'[s] = "ended"
      /\ \A r \in Sandbox \ {s} : job'[r] = job[r]
      /\ rec' = [rec EXCEPT ![s] = Back(@, "running", pass.tgt)]
    BY <1>0 DEF RpDone, RecoveryTypeOK
<1>2. UNCHANGED <<vm, work, lease, ck>> /\ Settled
    BY DEF RpDone, Settled, ec2, workers, registry, reclaim
<1>3. pass.tgt \in Place
    BY PassPlaces
<1>4. /\ RecIs(s, "running", pass.tgt, pass.tgt)
      /\ \A r \in Sandbox \ {s} : rec'[r] = rec[r]
    BY <1>0, <1>1, <1>3, BackSet, StatesAre
<1> QED
    BY <1>1, <1>2, <1>4 DEF Others, Same

-----------------------------------------------------------------------------
(* What the other actions do. *)

Kept == \A s \in Sandbox : Same(s)

LEMMA HeartbeatDoes ==
    ASSUME TypeOK, VolumeInv, NEW n \in Node, Heartbeat(n)
    PROVE  Kept /\ UNCHANGED <<host, mnt, pass>> /\ VolumeInv'
<1>1. hb'[Source].vol = Home
    <2>1. \/ hb'[Source] = hb[Source]
          \/ n = Source /\ hb'[Source] = Beat(Source)
        BY PlacesAre DEF Heartbeat, TypeOK, RecoveryTypeOK
    <2>2. Up(n)
        BY DEF Heartbeat
    <2>3. Beat(Source).vol = mnt[Source]
        BY DEF Beat
    <2> QED
        BY <2>1, <2>2, <2>3 DEF VolumeInv, MountedInv, SourceInv
<1>2. /\ UNCHANGED <<host, at, mnt, claim, rclaim, pass, evac, past, rec>>
      /\ UNCHANGED <<work, lease, ck, job, vm>>
    BY DEF Heartbeat, ec2, agents, workers, reclaim, passes
<1>3. VolumeInv'
    BY <1>1, <1>2, VolumeStays DEF VolumeInv, SourceInv
<1> QED
    BY <1>2, <1>3 DEF Kept, Same

LEMMA HeartbeatExpireDoes ==
    ASSUME TypeOK, VolumeInv, NEW n \in Node, HeartbeatExpire(n)
    PROVE  Kept /\ UNCHANGED <<host, mnt, pass>> /\ VolumeInv'
<1>1. hb'[Source].vol = Home
    BY PlacesAre
    DEF HeartbeatExpire, TypeOK, RecoveryTypeOK, VolumeInv, SourceInv
<1>2. /\ UNCHANGED <<host, at, mnt, claim, rclaim, pass, evac, past, rec>>
      /\ UNCHANGED <<work, lease, ck, job, vm>>
    BY DEF HeartbeatExpire, ec2, agents, workers, reclaim, passes
<1>3. VolumeInv'
    BY <1>1, <1>2, VolumeStays DEF VolumeInv, SourceInv
<1> QED
    BY <1>2, <1>3 DEF Kept, Same

LEMMA DeadlineDoes ==
    ASSUME TypeOK, VolumeInv, NEW n \in Spot, Deadline(n)
    PROVE  Kept /\ UNCHANGED <<host, mnt, pass>> /\ VolumeInv'
<1>1. past' \subseteq {Source}
    BY DEF Deadline, VolumeInv, SourceInv
<1>2. /\ UNCHANGED <<host, at, mnt, hb, claim, rclaim, pass, evac, rec>>
      /\ UNCHANGED <<work, lease, ck, job, vm>>
    BY DEF Deadline, ec2, agents, registry, workers, passes
<1>3. VolumeInv'
    BY <1>1, <1>2, VolumeStays DEF VolumeInv, SourceInv
<1> QED
    BY <1>2, <1>3 DEF Kept, Same

LEMMA DetectDoes ==
    ASSUME TypeOK, VolumeInv, NEW n \in Spot, Detect(n)
    PROVE  /\ UNCHANGED <<host, mnt, vm, rec, work, lease, job, pass>>
           /\ Up(Source) /\ VolumeInv'
           /\ \A s \in Sandbox : ck[s] = "none" /\ ck'[s] \in {"none", "listed"}
<1>1. /\ \A m \in Spot : evac'[m] # "calm" => m = Source
      /\ evac'[Source] # "calm"
      /\ Up(Source)
      /\ \A s \in Sandbox : ck[s] = "none" /\ ck'[s] \in {"none", "listed"}
    BY PlacesAre DEF Detect, VolumeInv, SourceInv, TypeOK, RecoveryTypeOK
<1>2. /\ UNCHANGED <<host, at, mnt, hb, claim, rclaim, pass, past>>
      /\ UNCHANGED <<vm, rec, work, lease, job>>
    BY DEF Detect, ec2, agents, registry, workers, passes
<1>3. VolumeInv'
    BY <1>1, <1>2, VolumeStays DEF VolumeInv, SourceInv
<1> QED
    BY <1>1, <1>2, <1>3

\* Sandboxes that are given up before their checkpoint started.
LEMMA PreserveDoes ==
    ASSUME TypeOK, VolumeInv, NEW n \in Spot, Preserve(n)
    PROVE  /\ UNCHANGED <<host, mnt, vm, work, lease, job, pass>>
           /\ Up(Source) /\ VolumeInv'
           /\ \A s \in Sandbox :
                 \/ Same(s)
                 \/ /\ ck[s] = "listed" /\ ck'[s] = "ended"
                    /\ JournalIs(s, "recovery_failed", Source)
<1>0. RecoveryTypeOK /\ n = Source /\ Up(Source)
    BY DEF TypeOK, Preserve, VolumeInv, SourceInv
<1>1. /\ UNCHANGED <<host, at, mnt, hb, claim, rclaim, pass, past>>
      /\ UNCHANGED <<vm, work, lease, job>>
    BY DEF Preserve, agents, registry, workers, passes
<1>2. /\ \A m \in Spot : evac'[m] # "calm" => m = Source
      /\ evac'[Source] # "calm"
    BY <1>0 DEF Preserve, VolumeInv, SourceInv, RecoveryTypeOK
<1>3. \A s \in Sandbox :
         \/ rec'[s] = rec[s] /\ ck'[s] = ck[s]
         \/ /\ ck[s] = "listed" /\ ck'[s] = "ended"
            /\ \/ rec'[s] = rec[s]
               \/ /\ rec[s].state # "none"
                  /\ rec'[s] = Journaled(rec[s], "recovery_failed", Source)
    BY <1>0 DEF Preserve, RecoveryTypeOK
<1>4. ASSUME NEW s \in Sandbox,
             rec'[s] = Journaled(rec[s], "recovery_failed", Source)
      PROVE  /\ rec'[s].state = "recovery_failed" /\ rec'[s].sess = Source
             /\ rec'[s].tgt = rec[s].tgt /\ rec'[s].node = rec[s].node
             /\ rec'[s].orig = rec[s].orig /\ rec'[s].saved = rec[s].saved
    <2>1. rec[s] \in Record
        BY <1>0 DEF RecoveryTypeOK
    <2> QED
        BY <1>4, <2>1, StatesAre, PlacesAre DEF Record, Journaled
<1>5. \A s \in Sandbox :
         \/ rec'[s] = rec[s] /\ ck'[s] = ck[s]
         \/ /\ ck[s] = "listed" /\ ck'[s] = "ended"
            /\ JournalIs(s, "recovery_failed", Source)
    BY <1>3, <1>4 DEF JournalIs
<1>6. \A s \in Sandbox : rec'[s].sess \in {Source, None}
    BY <1>5 DEF JournalIs, VolumeInv, SourceInv
<1>7. VolumeInv'
    BY <1>1, <1>2, <1>6, VolumeStays DEF VolumeInv, SourceInv
<1> QED
    BY <1>0, <1>1, <1>5, <1>7 DEF Same

\* EC2 reclaims the first host: the guests end with it.
LEMMA TerminateDoes ==
    ASSUME TypeOK, VolumeInv, NEW n \in Spot, Terminate(n)
    PROVE  /\ UNCHANGED <<rec, work, lease, job, pass>> /\ VolumeInv'
           /\ Up(Source) /\ ~Up(Source)'
           /\ \A m \in Node :
                 /\ mnt'[m] = IF m = Source THEN None ELSE mnt[m]
                 /\ \A s \in Sandbox :
                       vm'[m][s] = IF m = Source THEN "none" ELSE vm[m][s]
           /\ \A s \in Sandbox :
                 ck'[s] = IF ck[s] = "none" THEN "none" ELSE "ended"
<1>1. n = Source /\ Up(Source) /\ End(Source)
    BY DEF Terminate, VolumeInv, SourceInv
<1>2. UNCHANGED <<rec, work, lease, job, pass, hb, claim, rclaim, evac, past>>
    BY DEF Terminate, registry, workers, passes
<1>3. \A s \in Sandbox : ck'[s] = IF ck[s] = "none" THEN "none" ELSE "ended"
    BY DEF Terminate
<1>4. /\ MountedInv'
      /\ \A m \in Node :
            /\ mnt'[m] = IF m = Source THEN None ELSE mnt[m]
            /\ host'[m] = IF m = Source THEN "gone" ELSE host[m]
            /\ \A s \in Sandbox :
                  vm'[m][s] = IF m = Source THEN "none" ELSE vm[m][s]
      /\ at'[Home] \in Node => at'[Home] = at[Home]
    BY <1>1, EndDoes, PlacesAre DEF VolumeInv
<1>5. pass.pc \in Handing => pass.tgt # Source
    BY PlacesAre, HandingIs
    DEF VolumeInv, SourceInv, HandoffPassInv, Session, Replaced
<1>6. SourceInv' /\ RecoveryPassInv'
    BY <1>2, <1>3, <1>4, PlacesAre DEF VolumeInv, SourceInv, RecoveryPassInv
<1>7. HandoffPassInv'
    BY <1>2, <1>4, <1>5, PlacesAre, HandingIs, PassPlaces
    DEF VolumeInv, HandoffPassInv, Session, Replaced
<1> QED
    BY <1>1, <1>2, <1>3, <1>4, <1>6, <1>7, PlacesAre DEF VolumeInv, Up

LEMMA StandbyLostDoes ==
    ASSUME TypeOK, VolumeInv, NEW n \in Standby, StandbyLost(n)
    PROVE  /\ Kept /\ UNCHANGED <<mnt, pass>> /\ VolumeInv'
           /\ Up(Source)' <=> Up(Source)
           /\ \A m \in Node : host'[m] = IF m = n THEN "gone" ELSE host[m]
<1>1. /\ UNCHANGED <<rec, work, lease, ck, job, pass>>
      /\ UNCHANGED <<hb, claim, rclaim, evac, past>>
    BY DEF StandbyLost, registry, workers, reclaim, passes
<1>2. /\ MountedInv'
      /\ \A m \in Node :
            /\ mnt'[m] = IF m = n THEN None ELSE mnt[m]
            /\ host'[m] = IF m = n THEN "gone" ELSE host[m]
            /\ \A s \in Sandbox :
                  vm'[m][s] = IF m = n THEN "none" ELSE vm[m][s]
      /\ at'[Home] \in Node => at'[Home] = at[Home]
    BY EndDoes, PlacesAre DEF VolumeInv, StandbyLost
<1>3. mnt[n] = None /\ \A s \in Sandbox : vm[n][s] = "none"
    BY DEF StandbyLost, Resident
<1>4. SourceInv' /\ RecoveryPassInv'
    BY <1>1, <1>2, <1>3, PlacesAre DEF VolumeInv, SourceInv, RecoveryPassInv
<1>6. UNCHANGED mnt
    BY <1>3, PlacesAre DEF StandbyLost, End, TypeOK, RecoveryTypeOK,
        StateVolumeTypeOK
<1>5. HandoffPassInv'
    BY <1>1, <1>2, PlacesAre, HandingIs, PassPlaces
    DEF VolumeInv, HandoffPassInv, Session, Replaced
<1> QED
    BY <1>1, <1>2, <1>3, <1>4, <1>5, <1>6, PlacesAre
    DEF VolumeInv, Up, Kept, Same

LEMMA StandbyJoinsDoes ==
    ASSUME TypeOK, VolumeInv, NEW n \in Standby, StandbyJoins(n)
    PROVE  /\ Kept /\ UNCHANGED <<mnt, pass>> /\ VolumeInv'
           /\ \A m \in Node \ {n} : host'[m] = host[m]
           /\ host[n] = "ordered"
           /\ Up(Source)' <=> Up(Source)
<1>1. /\ \A m \in Node \ {n} : host'[m] = host[m]
      /\ host[n] = "ordered" /\ (Up(Source)' <=> Up(Source))
    BY PlacesAre
    DEF StandbyJoins, TypeOK, RecoveryTypeOK, StateVolumeTypeOK, Up
<1>2. /\ UNCHANGED <<at, mnt, hb, claim, rclaim, pass, evac, past, rec>>
      /\ UNCHANGED <<work, lease, ck, job, vm>>
    BY DEF StandbyJoins, agents, registry, workers, reclaim, passes
<1>3. VolumeInv'
    BY <1>1, <1>2 DEF VolumeInv, MountedInv, SourceInv, RecoveryPassInv,
        HandoffPassInv, Session, Replaced
<1> QED
    BY <1>1, <1>2, <1>3 DEF Kept, Same

-----------------------------------------------------------------------------
(* The recovery pass. *)

\* The sandboxes and the hosts' mounts stay as they are.
Still == UNCHANGED <<host, mnt, vm, rec, work, ck>>

LEMMA RcReadDoes ==
    ASSUME TypeOK, VolumeInv, NEW n \in Spot, RcRead(n)
    PROVE  /\ Still /\ UNCHANGED <<lease, job>> /\ VolumeInv'
           /\ pass'.pc = "lookup" /\ pass'.view = ViewOf(Source)
           /\ pass.pc = "idle"
<1>1. n = Source
    BY PlacesAre DEF RcRead, ViewOf, PendOf, Group, VolumeInv, SourceInv
<1>2. PassIs("lookup", Source, None, ViewOf(n), PendOf(n), FALSE)
    <2>1. ViewOf(n) \in SUBSET Sandbox /\ PendOf(n) \in SUBSET Sandbox
        BY DEF ViewOf, PendOf, Group
    <2> QED
        BY <1>1, <2>1, BeginIs, PcsAre, PlacesAre DEF RcRead
<1>3. /\ UNCHANGED <<host, at, mnt, hb, claim, rclaim, evac, past, rec>>
      /\ UNCHANGED <<work, lease, ck, job, vm>>
    BY DEF RcRead, ec2, agents, registry, workers, reclaim
<1>4. VolumeInv'
    BY <1>2, <1>3, PcsAre, HandingIs DEF VolumeInv, MountedInv, SourceInv,
        RecoveryPassInv, HandoffPassInv, Up, PassIs
<1> QED
    BY <1>1, <1>2, <1>3, <1>4 DEF Still, PassIs, RcRead

LEMMA RcLookupDoes ==
    ASSUME TypeOK, VolumeInv, RcLookup
    PROVE  /\ UNCHANGED <<host, mnt, vm, work, ck>> /\ VolumeInv'
           /\ pass.pc = "lookup"
           /\ \/ Ends
              \/ /\ pass'.pc \in {"mark", "claim"} /\ pass'.view = pass.view
                 /\ UNCHANGED <<lease, job>>
           /\ \A s \in Sandbox :
                 rec'[s] = rec[s]
                 \/ RecIs(s, "recovery_failed", rec[s].tgt, rec[s].node)
<1>0. RecoveryTypeOK /\ pass \in Pass /\ pass.pc = "lookup"
    BY PassPlaces DEF TypeOK, RcLookup
<1>1. \A s \in Sandbox :
         \/ rec'[s] = rec[s]
         \/ RecIs(s, "recovery_failed", rec[s].tgt, rec[s].node)
    BY <1>0 DEF RcLookup, RecIs, RecoveryTypeOK, Record
<1>2. /\ UNCHANGED <<host, at, mnt, hb, claim, rclaim, evac, past>>
      /\ UNCHANGED <<work, lease, ck, vm>>
    BY DEF RcLookup, ec2, agents, registry, workers, reclaim
<1>3. CASE Finish
    <2>1. Ends
        BY <1>0, <1>2, <1>3, FinishEnds, PcsAre
    <2> QED
        BY <1>0, <1>1, <1>2, <2>1, PcsAre, HandingIs DEF VolumeInv,
            MountedInv, SourceInv, RecoveryPassInv, HandoffPassInv, Up, RecIs,
            Ends
<1>4. CASE /\ \/ Goto("claim") \/ \E n \in Standby : Onto(n, "mark")
           /\ UNCHANGED job
    <2>1. /\ pass'.view = pass.view /\ pass'.src = pass.src
          /\ \/ pass'.pc = "claim"
             \/ pass'.pc = "mark" /\ pass'.tgt \in Standby
        BY <1>0, <1>4, GotoIs, OntoIs, PcsAre, PlacesAre DEF PassIs
    <2> QED
        BY <1>0, <1>1, <1>2, <1>4, <2>1, PcsAre, HandingIs DEF VolumeInv,
            MountedInv, SourceInv, RecoveryPassInv, HandoffPassInv, Up, RecIs
<1> QED
    BY <1>3, <1>4 DEF RcLookup

LEMMA RcClaimDoes ==
    ASSUME TypeOK, VolumeInv, RcClaim
    PROVE  /\ Still /\ VolumeInv' /\ pass.pc = "claim"
           /\ \/ Ends
              \/ /\ pass'.pc = "mark" /\ pass'.view = pass.view
                 /\ UNCHANGED <<lease, job>>
<1>0. pass \in Pass /\ pass.pc = "claim"
    BY PassPlaces DEF RcClaim
<1>2. /\ UNCHANGED <<host, at, mnt, hb, rclaim, evac, past, rec>>
      /\ UNCHANGED <<work, lease, ck, vm>>
    BY DEF RcClaim, ec2, agents, workers, reclaim
<1>3. CASE Finish
    <2>1. Ends
        BY <1>0, <1>2, <1>3, FinishEnds, PcsAre
    <2> QED
        BY <1>0, <1>2, <2>1, PcsAre, HandingIs DEF VolumeInv, Still,
            MountedInv, SourceInv, RecoveryPassInv, HandoffPassInv, Up, Ends
<1>4. CASE /\ \E n \in Standby : Onto(n, "mark")
           /\ UNCHANGED job
    <2>1. /\ pass'.view = pass.view /\ pass'.src = pass.src
          /\ pass'.pc = "mark" /\ pass'.tgt \in Standby
        BY <1>0, <1>4, OntoIs, PcsAre, PlacesAre DEF PassIs
    <2> QED
        BY <1>0, <1>2, <1>4, <2>1, PcsAre, HandingIs DEF VolumeInv, Still,
            MountedInv, SourceInv, RecoveryPassInv, HandoffPassInv, Up
<1> QED
    BY <1>3, <1>4 DEF RcClaim

LEMMA RcMarkDoes ==
    ASSUME TypeOK, VolumeInv, RcMark
    PROVE  /\ UNCHANGED <<host, mnt, vm, work, lease, ck, job>> /\ VolumeInv'
           /\ pass.pc = "mark" /\ pass'.pc = "attach"
           /\ pass'.view = pass.view /\ pass'.tgt = pass.tgt
           /\ pass.tgt \in Standby
           /\ \A s \in Sandbox :
                 IF s \in pass.view
                 THEN RecIs(s, "attaching", pass.tgt, rec[s].node)
                 ELSE rec'[s] = rec[s]
<1>0. RecoveryTypeOK /\ pass \in Pass /\ pass.pc = "mark" /\ pass.tgt \in Place
    BY PassPlaces DEF TypeOK, RcMark
<1>1. \A s \in Sandbox :
         IF s \in pass.view THEN RecIs(s, "attaching", pass.tgt, rec[s].node)
         ELSE rec'[s] = rec[s]
    <2> SUFFICES ASSUME NEW s \in Sandbox
                 PROVE  IF s \in pass.view
                        THEN RecIs(s, "attaching", pass.tgt, rec[s].node)
                        ELSE rec'[s] = rec[s]
        OBVIOUS
    <2>1. /\ rec[s] \in Record
          /\ s \in pass.view => rec'[s] = Bound(rec[s], "attaching", pass.tgt)
          /\ s \notin pass.view => rec'[s] = rec[s]
        BY <1>0 DEF RcMark, RecoveryTypeOK
    <2>2. CASE rec'[s] = Bound(rec[s], "attaching", pass.tgt)
        BY <1>0, <2>1, <2>2 DEF RecIs, Record, Bound
    <2> QED
        BY <2>1, <2>2
<1>2. /\ UNCHANGED <<host, at, mnt, hb, claim, rclaim, evac, past>>
      /\ UNCHANGED <<work, lease, ck, job, vm>>
    BY DEF RcMark, ec2, agents, registry, workers, reclaim
<1>3. PassIs("attach", pass.src, pass.tgt, pass.view, pass.pend, pass.lost)
    BY <1>0, GotoIs, PcsAre DEF RcMark
<1>4. VolumeInv'
    BY <1>0, <1>1, <1>2, <1>3, PcsAre, HandingIs DEF VolumeInv,
        MountedInv, SourceInv, RecoveryPassInv, HandoffPassInv, Up, RecIs,
        PassIs
<1> QED
    BY <1>0, <1>1, <1>2, <1>3, <1>4 DEF PassIs, VolumeInv, RecoveryPassInv

LEMMA RcAttachDoes ==
    ASSUME TypeOK, VolumeInv, RcAttach
    PROVE  /\ Still /\ VolumeInv' /\ pass.pc = "attach"
           /\ \/ Ends
              \/ /\ pass'.pc = "mount" /\ pass'.view = pass.view
                 /\ pass'.tgt = pass.tgt /\ UNCHANGED <<lease, job>>
<1>0. /\ pass \in Pass /\ pass.pc = "attach" /\ pass.src = Home
      /\ pass.tgt \in Standby
    BY PassPlaces, PlacesAre, PcsAre DEF RcAttach, VolumeInv, RecoveryPassInv
<1>1. at'[Home] = at[Home] \/ (at[Home] = None /\ at'[Home] = pass.tgt)
    BY <1>0, PlacesAre
    DEF RcAttach, Attach, TypeOK, RecoveryTypeOK, StateVolumeTypeOK
<1>2. /\ UNCHANGED <<host, mnt, hb, claim, rclaim, evac, past, rec>>
      /\ UNCHANGED <<work, lease, ck, vm>>
    BY DEF RcAttach, agents, registry, workers, reclaim
<1>3. MountedInv'
    BY <1>1, <1>2, PlacesAre DEF VolumeInv, MountedInv, Up
<1>4. CASE Finish
    <2>1. Ends
        BY <1>0, <1>2, <1>4, FinishEnds, PcsAre
    <2> QED
        BY <1>0, <1>2, <1>3, <2>1, VolumeAtEnd DEF Still
<1>5. CASE Goto("mount") /\ UNCHANGED job
    <2>1. PassIs("mount", pass.src, pass.tgt, pass.view, pass.pend, pass.lost)
        BY <1>0, <1>5, GotoIs, PcsAre
    <2>2. VolumeInv'
        BY <1>0, <1>2, <1>3, <2>1, PcsAre, HandingIs DEF VolumeInv,
            SourceInv, RecoveryPassInv, HandoffPassInv, PassIs
    <2> QED
        BY <1>0, <1>2, <1>5, <2>1, <2>2 DEF Still, PassIs
<1> QED
    BY <1>4, <1>5 DEF RcAttach

\* A host without any sandbox state mounts the volume.
LEMMA RcMountDoes ==
    ASSUME TypeOK, VolumeInv, RcMount
    PROVE  /\ UNCHANGED <<host, vm, rec, work, lease, ck>> /\ VolumeInv'
           /\ pass.pc = "mount"
           /\ \/ Ends /\ UNCHANGED mnt
              \/ /\ pass'.pc = "resume" /\ pass'.view = pass.view
                 /\ pass'.tgt = pass.tgt
                 /\ pass.tgt \in Standby /\ Up(pass.tgt)
                 /\ \A m \in Node :
                       mnt'[m] = IF m = pass.tgt THEN Home ELSE mnt[m]
                 /\ \A s \in Sandbox :
                       job'[s] = IF s \in pass.view THEN "todo" ELSE "none"
<1>0. /\ pass \in Pass /\ pass.pc = "mount" /\ pass.src = Home
      /\ pass.tgt \in Standby
    BY PassPlaces, PlacesAre, PcsAre DEF RcMount, VolumeInv, RecoveryPassInv
<1>1. /\ UNCHANGED <<host, at, hb, claim, rclaim, evac, past, rec>>
      /\ UNCHANGED <<work, lease, ck, vm>>
    BY DEF RcMount, ec2, registry, workers, reclaim
<1>2. CASE Finish /\ UNCHANGED mnt
    <2>1. Ends
        BY <1>0, <1>1, <1>2, FinishEnds, PcsAre
    <2>2. MountedInv'
        BY <1>1, <1>2 DEF VolumeInv, MountedInv, Up
    <2> QED
        BY <1>0, <1>1, <1>2, <2>1, <2>2, VolumeAtEnd
<1>3. CASE /\ Mounts(pass.tgt, pass.src) /\ Mount(pass.tgt, pass.src)
           /\ Goto("resume")
           /\ job' = [s \in Sandbox |->
                        IF s \in pass.view THEN "todo" ELSE "none"]
    <2>1. PassIs("resume", pass.src, pass.tgt, pass.view, pass.pend, pass.lost)
        BY <1>0, <1>3, GotoIs, PcsAre
    <2>2. \A m \in Node : mnt'[m] = IF m = pass.tgt THEN Home ELSE mnt[m]
        BY <1>0, <1>3, PlacesAre
        DEF Mount, TypeOK, RecoveryTypeOK, StateVolumeTypeOK
    <2>3. at[Home] = pass.tgt /\ Up(pass.tgt)
        BY <1>0, <1>3 DEF Mounts
    <2>4. MountedInv'
        BY <1>0, <1>1, <2>2, <2>3, PlacesAre DEF VolumeInv, MountedInv, Up
    <2>5. VolumeInv'
        BY <1>0, <1>1, <2>1, <2>2, <2>4, PcsAre, HandingIs, PlacesAre
        DEF VolumeInv, SourceInv, RecoveryPassInv, HandoffPassInv, PassIs
    <2>6. \A s \in Sandbox : job'[s] = IF s \in pass.view THEN "todo" ELSE "none"
        BY <1>3
    <2> QED
        BY <1>0, <1>1, <2>1, <2>2, <2>3, <2>5, <2>6 DEF PassIs
<1> QED
    BY <1>2, <1>3 DEF RcMount

LEMMA RcEndDoes ==
    ASSUME TypeOK, VolumeInv, RcEnd
    PROVE  /\ UNCHANGED <<mnt, vm, rec, work, ck>> /\ VolumeInv' /\ Ends
           /\ Up(Source)' <=> Up(Source)
           /\ \A m \in Node : host'[m] = host[m] \/ host'[m] = "ordered"
<1>0. pass.pc = "resume" /\ Finish
    BY DEF RcEnd
<1>1. /\ UNCHANGED <<at, mnt, hb, claim, rclaim, evac, past, rec>>
      /\ UNCHANGED <<work, lease, ck, vm>>
    BY DEF RcEnd, agents, registry, workers, reclaim
<1>2. Ends
    BY <1>0, <1>1, FinishEnds, PcsAre
<1>3. /\ \A m \in Node : \/ host'[m] = host[m]
                         \/ m \in Standby /\ host'[m] = "ordered"
    BY PlacesAre DEF RcEnd, TypeOK, RecoveryTypeOK, StateVolumeTypeOK
<1>4. Up(Source)' <=> Up(Source)
    BY <1>3, PlacesAre DEF Up
<1>5. VolumeInv'
    BY <1>1, <1>2, <1>4, VolumeAtEnd DEF VolumeInv, MountedInv
<1> QED
    BY <1>1, <1>2, <1>3, <1>4, <1>5

\* The operator dies; the recovery's leases are none.
LEMMA CrashDoes ==
    ASSUME TypeOK, VolumeInv, Crash
    PROVE  Still /\ VolumeInv' /\ Ends
<1>1. /\ UNCHANGED <<host, at, mnt, hb, claim, rclaim, evac, past, rec>>
      /\ UNCHANGED <<work, ck, vm>>
    BY DEF Crash, ec2, agents, registry, reclaim
<1>2. Ends
    BY FinishIs DEF Crash, Ends, PassIs, NoJob
<1>3. MountedInv'
    BY <1>1 DEF VolumeInv, MountedInv, Up
<1> QED
    BY <1>1, <1>2, <1>3, VolumeAtEnd DEF Still

-----------------------------------------------------------------------------
(* The handoff. *)

LEMMA RpReadDoes ==
    ASSUME TypeOK, VolumeInv, NEW n \in Standby, RpRead(n)
    PROVE  /\ Still /\ UNCHANGED <<lease, job>> /\ VolumeInv'
           /\ pass.pc = "idle" /\ pass'.pc = "lease" /\ pass'.view = {}
           /\ pass'.src = n
           /\ \A s \in Owned(n) : rec[s].state \notin Recoverable
<1>1. PassIs("lease", n, None, {}, {}, FALSE)
    BY BeginIs, PcsAre, PlacesAre DEF RpRead
<1>2. /\ UNCHANGED <<host, at, mnt, hb, claim, rclaim, evac, past, rec>>
      /\ UNCHANGED <<work, lease, ck, job, vm>>
    BY DEF RpRead, ec2, agents, registry, workers, reclaim
<1>3. claim[n] # None
    BY DEF RpRead
<1>4. VolumeInv'
    BY <1>1, <1>2, <1>3, PcsAre, HandingIs DEF VolumeInv, MountedInv,
        SourceInv, RecoveryPassInv, HandoffPassInv, Up, Session, PassIs
<1>5. \A s \in Owned(n) : rec[s].state \notin Recoverable
    BY DEF RpRead, Blocking, Recoverable
<1> QED
    BY <1>1, <1>2, <1>4, <1>5 DEF Still, PassIs, RpRead

LEMMA RpLeaseDoes ==
    ASSUME TypeOK, VolumeInv, RpLease
    PROVE  /\ Still /\ VolumeInv' /\ pass.pc = "lease"
           /\ \/ Ends
              \/ /\ pass'.pc \in {"empty", "target"} /\ pass'.src = pass.src
                 /\ pass'.view = Owned(pass.src) /\ UNCHANGED job
                 /\ pass'.pc = "empty" => Owned(pass.src) = {}
                 /\ \A s \in Owned(pass.src) :
                       lease[s] = "none" /\ lease'[s] = "pass"
                 /\ \A s \in Sandbox \ Owned(pass.src) : lease'[s] = lease[s]
<1>0. /\ pass.pc = "lease" /\ pass.pc \in RepatriationPc /\ RecoveryTypeOK
      /\ pass.src \in Place /\ Owned(pass.src) \in SUBSET Sandbox
    BY PassPlaces, PcsAre DEF RpLease, TypeOK, Owned
<1>1. /\ UNCHANGED <<host, at, mnt, hb, claim, rclaim, evac, past, rec>>
      /\ UNCHANGED <<work, ck, vm>>
    BY DEF RpLease, ec2, agents, registry, reclaim
<1>2. CASE GiveUp
    <2>1. Ends
        BY <1>0, <1>2, GiveUpEnds
    <2>2. MountedInv'
        BY <1>1 DEF VolumeInv, MountedInv, Up
    <2> QED
        BY <1>0, <1>1, <2>1, <2>2, VolumeAtEnd DEF Still
<1>3. CASE ~GiveUp
    <2>1. /\ \A s \in Owned(pass.src) : lease[s] = "none"
          /\ lease' = [s \in Sandbox |->
                         IF s \in Owned(pass.src) THEN "pass" ELSE lease[s]]
          /\ Begin(IF Owned(pass.src) = {} THEN "empty" ELSE "target",
                   pass.src, Owned(pass.src), {})
          /\ UNCHANGED job
        BY <1>3 DEF RpLease
    <2>2. PassIs(IF Owned(pass.src) = {} THEN "empty" ELSE "target",
                 pass.src, None, Owned(pass.src), {}, FALSE)
        BY <1>0, <2>1, BeginIs, PcsAre
    <2>3. /\ pass'.src = pass.src /\ pass'.view = Owned(pass.src)
          /\ pass'.pc \in {"empty", "target"}
          /\ pass'.pc = "empty" => Owned(pass.src) = {}
        BY <2>2 DEF PassIs
    <2>4. VolumeInv'
        BY <1>0, <1>1, <2>3, PcsAre, HandingIs DEF VolumeInv, MountedInv,
            SourceInv, RecoveryPassInv, HandoffPassInv, Up, Session
    <2> QED
        BY <1>0, <1>1, <2>1, <2>3, <2>4 DEF Still
<1> QED
    BY <1>2, <1>3

LEMMA LeaseLostDoes ==
    ASSUME TypeOK, VolumeInv, LeaseLost
    PROVE  /\ Still /\ UNCHANGED job /\ VolumeInv'
           /\ pass.pc \in RepatriationPc
           /\ PassIs(pass.pc, pass.src, pass.tgt, pass.view, pass.pend, TRUE)
           /\ \A s \in Sandbox :
                 lease'[s] = IF lease[s] = "pass" THEN "none" ELSE lease[s]
<1>1. /\ UNCHANGED <<host, at, mnt, hb, claim, rclaim, evac, past, rec>>
      /\ UNCHANGED <<work, ck, job, vm>>
    BY DEF LeaseLost, ec2, agents, registry, reclaim
<1>2. PassIs(pass.pc, pass.src, pass.tgt, pass.view, pass.pend, TRUE)
    BY LostIs, PassPlaces DEF LeaseLost
<1>3. \A s \in Sandbox :
         lease'[s] = IF lease[s] = "pass" THEN "none" ELSE lease[s]
    BY DEF LeaseLost, Held
<1>4. VolumeInv'
    BY <1>1, <1>2 DEF VolumeInv, MountedInv, SourceInv, RecoveryPassInv,
        HandoffPassInv, Up, Session, Replaced, PassIs
<1> QED
    BY <1>1, <1>2, <1>3, <1>4 DEF Still, LeaseLost

LEMMA RpEmptyDoes ==
    ASSUME TypeOK, VolumeInv, RpEmpty
    PROVE  /\ Still /\ VolumeInv' /\ pass.pc = "empty"
           /\ \/ Ends
              \/ /\ PassIs("discard", pass.src, pass.tgt, pass.view, pass.pend,
                           pass.lost)
                 /\ UNCHANGED <<lease, job>>
<1>0. pass.pc = "empty" /\ RecoveryTypeOK /\ pass \in Pass
    BY PassPlaces DEF RpEmpty, TypeOK
<1>1. /\ UNCHANGED <<host, mnt, hb, claim, evac, past, rec>>
      /\ UNCHANGED <<work, ck, vm>>
    BY DEF RpEmpty, agents, reclaim
<1>2. CASE GiveUp /\ UNCHANGED <<at, rclaim>>
    <2>1. Ends
        BY <1>0, <1>2, GiveUpEnds
    <2>2. MountedInv'
        BY <1>1, <1>2 DEF VolumeInv, MountedInv, Up
    <2> QED
        BY <1>0, <1>1, <1>2, <2>1, <2>2, VolumeAtEnd DEF Still
<1>3. CASE ~(GiveUp /\ UNCHANGED <<at, rclaim>>)
    <2> DEFINE mine == {q \in Spot : hb[q].listed /\ rclaim[q].by = Session}
               doomed == {rclaim[q].vol : q \in mine}
    <2>1. /\ \A w \in doomed : at[w] \notin Node
          /\ at' = [w \in Volume |->
                      IF w \in doomed THEN "deleted" ELSE at[w]]
          /\ rclaim' = [q \in Spot |->
                          IF q \in mine THEN Unclaimed ELSE rclaim[q]]
          /\ Goto("discard")
          /\ UNCHANGED <<lease, job>>
        BY <1>3 DEF RpEmpty
    <2>2. PassIs("discard", pass.src, pass.tgt, pass.view, pass.pend, pass.lost)
        BY <1>0, <2>1, GotoIs, PcsAre
    <2>3. at'[Home] = at[Home] \/ at[Home] \notin Node
        BY <2>1, PlacesAre
    <2>4. rclaim'[Source] = rclaim[Source] \/ rclaim'[Source].by = None
        BY <2>1, PlacesAre DEF Unclaimed
    <2>5. MountedInv'
        BY <1>1, <2>3, PlacesAre DEF VolumeInv, MountedInv, Up
    <2>6. VolumeInv'
        BY <1>0, <1>1, <2>2, <2>4, <2>5, PcsAre, HandingIs DEF VolumeInv,
            SourceInv, RecoveryPassInv, HandoffPassInv, Session, PassIs
    <2> QED
        BY <1>0, <1>1, <2>1, <2>2, <2>6 DEF Still
<1> QED
    BY <1>2, <1>3

\* The host's own volume is thrown away, if it still has one.
LEMMA RpDiscardDoes ==
    ASSUME TypeOK, VolumeInv, RpDiscard
    PROVE  /\ UNCHANGED <<host, rec, work, ck>> /\ VolumeInv'
           /\ pass.pc = "discard" /\ pass.src \in Standby
           /\ \A m \in Node :
                 /\ mnt'[m] = mnt[m] \/ m = pass.src
                 /\ \A s \in Sandbox :
                       \/ vm'[m][s] = vm[m][s]
                       \/ vm[m][s] = "suspended" /\ vm'[m][s] = "none"
           /\ \/ UNCHANGED mnt
              \/ RunningOn(pass.src) = {}
           /\ \/ Ends
              \/ /\ PassIs("terminate", pass.src, pass.tgt, pass.view,
                           pass.pend, pass.lost)
                 /\ UNCHANGED <<lease, job>>
<1>0. /\ pass.pc = "discard" /\ RecoveryTypeOK /\ pass \in Pass
      /\ pass.src \in Standby /\ pass.src \in Node
    BY PassPlaces, PcsAre DEF RpDiscard, TypeOK
<1>1. UNCHANGED <<host, hb, claim, rclaim, evac, past, rec, work, ck>>
    BY DEF RpDiscard, registry, reclaim
<1>2. CASE GiveUp /\ UNCHANGED <<at, mnt, vm>>
    <2>1. Ends
        BY <1>0, <1>2, GiveUpEnds
    <2>2. MountedInv'
        BY <1>1, <1>2 DEF VolumeInv, MountedInv, Up
    <2> QED
        BY <1>0, <1>1, <1>2, <2>1, <2>2, VolumeAtEnd
<1>3. CASE ~(GiveUp /\ UNCHANGED <<at, mnt, vm>>)
    <2> DEFINE v == hb[pass.src].vol
               attached == v # None /\ at[v] = pass.src
    <2>1. /\ attached => Unmounts(pass.src, v) /\ Unmount(pass.src)
          /\ ~attached => UNCHANGED <<mnt, vm>>
          /\ at' = IF v # None /\ at[v] \in {pass.src, None}
                   THEN [at EXCEPT ![v] = "deleted"] ELSE at
          /\ Goto("terminate")
          /\ UNCHANGED <<lease, job>>
        BY <1>3 DEF RpDiscard
    <2>2. PassIs("terminate", pass.src, pass.tgt, pass.view, pass.pend, pass.lost)
        BY <1>0, <2>1, GotoIs, PcsAre
    <2>3. CASE attached
        <3>1. RunningOn(pass.src) = {} /\ at'[Home] \in {at[Home], "deleted"}
            BY <1>0, <2>1, <2>3, PlacesAre
            DEF Unmounts, RecoveryTypeOK, StateVolumeTypeOK
        <3>2. \A m \in Node :
                 /\ mnt'[m] = IF m = pass.src THEN None ELSE mnt[m]
                 /\ \A s \in Sandbox :
                       \/ vm'[m][s] = vm[m][s]
                       \/ vm[m][s] = "suspended" /\ vm'[m][s] = "none"
            BY <1>0, <2>1, <2>3, UnmountDoes
        <3>3. at'[Home] = at[Home] \/ at[Home] = pass.src
            BY <1>0, <2>1, <2>3, PlacesAre
            DEF RecoveryTypeOK, StateVolumeTypeOK
        <3>4. MountedInv'
            BY <1>0, <1>1, <3>2, <3>3, PlacesAre DEF VolumeInv, MountedInv, Up
        <3>5. VolumeInv'
            BY <1>0, <1>1, <2>2, <3>4, PcsAre, HandingIs DEF VolumeInv,
                SourceInv, RecoveryPassInv, HandoffPassInv, Session, PassIs
        <3> QED
            BY <1>0, <1>1, <2>1, <2>2, <3>1, <3>2, <3>5
    <2>4. CASE ~attached
        <3>1. at'[Home] = at[Home] \/ at[Home] = None
            BY <1>0, <2>1, <2>4, PlacesAre
            DEF RecoveryTypeOK, StateVolumeTypeOK
        <3>2. MountedInv'
            BY <1>0, <1>1, <2>1, <2>4, <3>1, PlacesAre
            DEF VolumeInv, MountedInv, Up
        <3>3. VolumeInv'
            BY <1>0, <1>1, <2>2, <3>2, PcsAre, HandingIs DEF VolumeInv,
                SourceInv, RecoveryPassInv, HandoffPassInv, Session, PassIs
        <3> QED
            BY <1>0, <1>1, <2>1, <2>2, <2>4, <3>3
    <2> QED
        BY <2>3, <2>4
<1> QED
    BY <1>2, <1>3

LEMMA RpTargetDoes ==
    ASSUME TypeOK, VolumeInv, RpTarget
    PROVE  /\ Still /\ VolumeInv' /\ pass.pc = "target"
           /\ \/ Ends
              \/ /\ pass'.pc = "mark2" /\ pass'.src = pass.src
                 /\ pass'.view = pass.view /\ pass'.lost = pass.lost
                 /\ UNCHANGED <<lease, job>>
<1>0. pass.pc = "target" /\ RecoveryTypeOK /\ pass \in Pass
    BY PassPlaces DEF RpTarget, TypeOK
<1>1. /\ UNCHANGED <<host, at, mnt, hb, claim, evac, past, rec>>
      /\ UNCHANGED <<work, ck, vm>>
    BY DEF RpTarget, ec2, agents, reclaim
<1>2. rclaim'[Source] = rclaim[Source] \/ rclaim'[Source].vol = Home
    <2>1. \/ rclaim' = rclaim
          \/ \E q \in Spot :
                rclaim' = [rclaim EXCEPT ![q] = [by |-> Session,
                                                 vol |-> hb[q].vol]]
        BY DEF RpTarget
    <2> QED
        BY <1>0, <2>1, PlacesAre DEF VolumeInv, SourceInv, RecoveryTypeOK
<1>3. MountedInv'
    BY <1>1 DEF VolumeInv, MountedInv, Up
<1>4. SourceInv'
    BY <1>1, <1>2 DEF VolumeInv, SourceInv
<1>5. CASE GiveUp
    <2>1. Ends
        BY <1>0, <1>5, GiveUpEnds
    <2> QED
        BY <1>0, <1>1, <1>3, <1>4, <2>1, PcsAre, HandingIs
        DEF Still, Ends, VolumeInv, RecoveryPassInv, HandoffPassInv
<1>6. CASE (\E q \in Spot : Onto(q, "mark2")) /\ UNCHANGED <<lease, job>>
    <2>1. PICK q \in Spot : Onto(q, "mark2")
        BY <1>6
    <2>2. PassIs("mark2", pass.src, q, pass.view, pass.pend, pass.lost)
        BY <1>0, <2>1, OntoIs, PcsAre, PlacesAre
    <2>3. VolumeInv'
        BY <1>0, <1>1, <1>3, <1>4, <2>2, PcsAre, HandingIs
        DEF VolumeInv, RecoveryPassInv, HandoffPassInv, Session, PassIs
    <2> QED
        BY <1>0, <1>1, <1>6, <2>2, <2>3 DEF Still, PassIs
<1> QED
    BY <1>5, <1>6 DEF RpTarget

\* What the records were before the first attempt stays written.
LEMMA RpMarkDoes ==
    ASSUME TypeOK, VolumeInv, RpMark
    PROVE  /\ UNCHANGED <<host, mnt, vm, work, lease, ck, job>> /\ VolumeInv'
           /\ pass.pc = "mark2"
           /\ PassIs("checkpoint", pass.src, pass.tgt, pass.view, pass.pend,
                     pass.lost)
           /\ \A s \in Sandbox \ pass.view : rec'[s] = rec[s]
           /\ \A s \in pass.view :
                 /\ rec'[s].state = "repatriating"
                 /\ rec'[s].orig = IF rec[s].orig = "none" THEN rec[s].state
                                   ELSE rec[s].orig
                 /\ rec'[s].sess = rec[s].sess /\ rec'[s].tgt = rec[s].tgt
                 /\ rec'[s].node = rec[s].node /\ rec'[s].saved = rec[s].saved
<1>0. RecoveryTypeOK /\ pass \in Pass /\ pass.pc = "mark2"
      /\ pass.view \in SUBSET Sandbox
    BY PassPlaces DEF TypeOK, RpMark
<1>1. ASSUME NEW s \in pass.view
      PROVE  /\ rec'[s].state = "repatriating"
             /\ rec'[s].orig = IF rec[s].orig = "none" THEN rec[s].state
                               ELSE rec[s].orig
             /\ rec'[s].sess = rec[s].sess /\ rec'[s].tgt = rec[s].tgt
             /\ rec'[s].node = rec[s].node /\ rec'[s].saved = rec[s].saved
    <2>1. rec[s] \in Record /\ rec'[s] = Moving(rec[s])
        BY <1>0 DEF RpMark, RecoveryTypeOK
    <2> QED
        BY <2>1, MovingIs
<1>2. \A s \in Sandbox \ pass.view : rec'[s] = rec[s]
    BY DEF RpMark
<1>3. /\ UNCHANGED <<host, at, mnt, hb, claim, rclaim, evac, past>>
      /\ UNCHANGED <<work, lease, ck, job, vm>>
    BY DEF RpMark, ec2, agents, registry, workers, reclaim
<1>4. PassIs("checkpoint", pass.src, pass.tgt, pass.view, pass.pend, pass.lost)
    BY <1>0, GotoIs, PcsAre DEF RpMark
<1>5. \A s \in Sandbox : rec'[s].sess \in {Source, None}
    BY <1>1, <1>2 DEF VolumeInv, SourceInv
<1>6. VolumeInv'
    BY <1>0, <1>3, <1>4, <1>5, PcsAre, HandingIs DEF VolumeInv, MountedInv,
        SourceInv, RecoveryPassInv, HandoffPassInv, Up, Session, PassIs
<1> QED
    BY <1>0, <1>1, <1>2, <1>3, <1>4, <1>6

LEMMA RpNoGuestDoes ==
    ASSUME TypeOK, VolumeInv, RpNoGuest
    PROVE  Still /\ VolumeInv' /\ Ends
<1>1. /\ UNCHANGED <<host, at, mnt, hb, claim, rclaim, evac, past, rec>>
      /\ UNCHANGED <<work, ck, vm>>
    BY DEF RpNoGuest, ec2, agents, registry, reclaim
<1>2. Ends
    BY GiveUpEnds DEF RpNoGuest, TypeOK
<1>3. MountedInv'
    BY <1>1 DEF VolumeInv, MountedInv, Up
<1> QED
    BY <1>1, <1>2, <1>3, VolumeAtEnd DEF Still

LEMMA RpHandoffDoes ==
    ASSUME TypeOK, VolumeInv, RpHandoff
    PROVE  /\ Still /\ VolumeInv' /\ pass.pc = "checkpoint"
           /\ \/ Ends
              \/ /\ PassIs("unmount", pass.src, pass.tgt, pass.view, pass.pend,
                           pass.lost)
                 /\ ~pass.lost /\ UNCHANGED <<lease, job>>
<1>0. pass.pc = "checkpoint" /\ RecoveryTypeOK /\ pass \in Pass
    BY PassPlaces DEF RpHandoff, TypeOK
<1>1. /\ UNCHANGED <<host, at, mnt, hb, claim, rclaim, evac, past, rec>>
      /\ UNCHANGED <<work, ck, vm>>
    BY DEF RpHandoff, ec2, agents, registry, reclaim
<1>2. MountedInv'
    BY <1>1 DEF VolumeInv, MountedInv, Up
<1>3. CASE GiveUp
    <2>1. Ends
        BY <1>0, <1>3, GiveUpEnds
    <2> QED
        BY <1>0, <1>1, <1>2, <2>1, VolumeAtEnd DEF Still
<1>4. CASE /\ Replaced # Moved /\ StillHeld /\ rclaim[pass.tgt].by = Session
           /\ Goto("unmount") /\ UNCHANGED <<lease, job>>
    <2>1. PassIs("unmount", pass.src, pass.tgt, pass.view, pass.pend, pass.lost)
        BY <1>0, <1>4, GotoIs, PcsAre
    <2>2. VolumeInv'
        BY <1>0, <1>1, <1>2, <1>4, <2>1, PcsAre, HandingIs DEF VolumeInv,
            SourceInv, RecoveryPassInv, HandoffPassInv, Session, Replaced,
            Moved, PassIs
    <2> QED
        BY <1>0, <1>1, <1>4, <2>1, <2>2 DEF Still, StillHeld
<1> QED
    BY <1>3, <1>4 DEF RpHandoff

\* A volume is unmounted under no running guest; the volume that moves only on
\* the host it leaves.
QuiesceIs(n) ==
    /\ \A m \in Node :
          /\ mnt'[m] = mnt[m] \/ (m = n /\ mnt'[m] = None)
          /\ \A s \in Sandbox :
                \/ vm'[m][s] = vm[m][s]
                \/ vm[m][s] = "suspended" /\ vm'[m][s] = "none"
    /\ UNCHANGED mnt \/ RunningOn(n) = {}

LEMMA RpUnmountDoes ==
    ASSUME TypeOK, VolumeInv, RpUnmount
    PROVE  /\ UNCHANGED <<host, rec, work, ck>> /\ VolumeInv'
           /\ pass.pc = "unmount" /\ QuiesceIs(pass.src)
           /\ \/ Ends
              \/ /\ \E pc \in {"detach", "unmount2"} :
                       PassIs(pc, pass.src, pass.tgt, pass.view, pass.pend,
                              pass.lost)
                 /\ UNCHANGED <<lease, job>>
<1>0. /\ pass.pc = "unmount" /\ RecoveryTypeOK /\ pass \in Pass
      /\ pass.src \in Standby /\ pass.src \in Node
    BY PassPlaces, PcsAre DEF RpUnmount, Quiesce, TypeOK
<1>1. UNCHANGED <<host, at, hb, claim, rclaim, evac, past, rec, work, ck>>
    BY DEF RpUnmount, Quiesce, ec2, registry, reclaim
<1>2. CASE /\ at[Home] = pass.src /\ Unmounts(pass.src, Home)
           /\ Unmount(pass.src) /\ Goto("detach") /\ UNCHANGED <<lease, job>>
    <2>1. PassIs("detach", pass.src, pass.tgt, pass.view, pass.pend, pass.lost)
        BY <1>0, <1>2, GotoIs, PcsAre
    <2>2. \A m \in Node :
             /\ mnt'[m] = IF m = pass.src THEN None ELSE mnt[m]
             /\ \A s \in Sandbox :
                   \/ vm'[m][s] = vm[m][s]
                   \/ vm[m][s] = "suspended" /\ vm'[m][s] = "none"
        BY <1>0, <1>2, UnmountDoes
    <2>3. RunningOn(pass.src) = {}
        BY <1>2 DEF Unmounts
    <2>4. MountedInv'
        BY <1>0, <1>1, <1>2, <2>2, PlacesAre DEF VolumeInv, MountedInv, Up
    <2>5. VolumeInv'
        BY <1>0, <1>1, <1>2, <2>1, <2>2, <2>4, PcsAre, HandingIs, PlacesAre
        DEF VolumeInv, SourceInv, RecoveryPassInv, HandoffPassInv, Session,
            Replaced, PassIs
    <2> QED
        BY <1>0, <1>1, <1>2, <2>1, <2>2, <2>3, <2>5 DEF QuiesceIs
<1>3. CASE GiveUp /\ UNCHANGED <<mnt, vm>>
    <2>1. Ends
        BY <1>0, <1>3, GiveUpEnds
    <2>2. MountedInv'
        BY <1>1, <1>3 DEF VolumeInv, MountedInv, Up
    <2> QED
        BY <1>0, <1>1, <1>3, <2>1, <2>2, VolumeAtEnd DEF QuiesceIs
<1>4. CASE Goto("unmount2") /\ UNCHANGED <<mnt, vm, lease, job>>
    <2>1. PassIs("unmount2", pass.src, pass.tgt, pass.view, pass.pend, pass.lost)
        BY <1>0, <1>4, GotoIs, PcsAre
    <2>2. VolumeInv'
        BY <1>0, <1>1, <1>4, <2>1, PcsAre, HandingIs
        DEF VolumeInv, SourceInv, RecoveryPassInv, HandoffPassInv, Session,
            Replaced, PassIs, MountedInv, Up
    <2> QED
        BY <1>0, <1>1, <1>4, <2>1, <2>2 DEF QuiesceIs
<1> QED
    BY <1>2, <1>3, <1>4 DEF RpUnmount, Quiesce, Moved

LEMMA RpUnmountReplacedDoes ==
    ASSUME TypeOK, VolumeInv, RpUnmountReplaced
    PROVE  /\ UNCHANGED <<host, rec, work, ck>> /\ VolumeInv'
           /\ pass.pc = "unmount2" /\ QuiesceIs(pass.tgt)
           /\ mnt[pass.tgt] # Home \/ UNCHANGED mnt
           /\ \/ Ends
              \/ /\ \E pc \in {"detach2", "attach2"} :
                       PassIs(pc, pass.src, pass.tgt, pass.view, pass.pend,
                              pass.lost)
                 /\ UNCHANGED <<lease, job>>
<1>0. /\ pass.pc = "unmount2" /\ RecoveryTypeOK /\ pass \in Pass
      /\ pass.tgt \in Spot /\ pass.tgt \in Node /\ Replaced # Home
      /\ pass.tgt # Source
    BY PassPlaces, PcsAre, HandingIs, PlacesAre
    DEF RpUnmountReplaced, Quiesce, TypeOK, VolumeInv, HandoffPassInv,
        SourceInv, Session, Replaced
<1>1. UNCHANGED <<host, at, hb, claim, rclaim, evac, past, rec, work, ck>>
    BY DEF RpUnmountReplaced, Quiesce, ec2, registry, reclaim
<1>2. CASE /\ Unmounts(pass.tgt, Replaced)
           /\ Unmount(pass.tgt) /\ Goto("detach2") /\ UNCHANGED <<lease, job>>
    <2>1. PassIs("detach2", pass.src, pass.tgt, pass.view, pass.pend, pass.lost)
        BY <1>0, <1>2, GotoIs, PcsAre
    <2>2. \A m \in Node :
             /\ mnt'[m] = IF m = pass.tgt THEN None ELSE mnt[m]
             /\ \A s \in Sandbox :
                   \/ vm'[m][s] = vm[m][s]
                   \/ vm[m][s] = "suspended" /\ vm'[m][s] = "none"
        BY <1>0, <1>2, UnmountDoes
    <2>3. RunningOn(pass.tgt) = {} /\ mnt[pass.tgt] # Home
        BY <1>0, <1>2, PlacesAre DEF Unmounts
    <2>4. MountedInv'
        BY <1>0, <1>1, <1>2, <2>2, PlacesAre DEF VolumeInv, MountedInv, Up
    <2>5. VolumeInv'
        BY <1>0, <1>1, <1>2, <2>1, <2>4, PcsAre, HandingIs, PlacesAre
        DEF VolumeInv, SourceInv, RecoveryPassInv, HandoffPassInv, Session,
            Replaced, PassIs
    <2> QED
        BY <1>0, <1>1, <1>2, <2>1, <2>2, <2>3, <2>5 DEF QuiesceIs
<1>3. CASE GiveUp /\ UNCHANGED <<mnt, vm>>
    <2>1. Ends
        BY <1>0, <1>3, GiveUpEnds
    <2>2. MountedInv'
        BY <1>1, <1>3 DEF VolumeInv, MountedInv, Up
    <2> QED
        BY <1>0, <1>1, <1>3, <2>1, <2>2, VolumeAtEnd DEF QuiesceIs
<1>4. CASE Goto("attach2") /\ UNCHANGED <<mnt, vm, lease, job>>
    <2>1. PassIs("attach2", pass.src, pass.tgt, pass.view, pass.pend, pass.lost)
        BY <1>0, <1>4, GotoIs, PcsAre
    <2>2. VolumeInv'
        BY <1>0, <1>1, <1>4, <2>1, PcsAre, HandingIs
        DEF VolumeInv, SourceInv, RecoveryPassInv, HandoffPassInv, Session,
            Replaced, PassIs, MountedInv, Up
    <2> QED
        BY <1>0, <1>1, <1>4, <2>1, <2>2 DEF QuiesceIs
<1> QED
    BY <1>2, <1>3, <1>4 DEF RpUnmountReplaced, Quiesce

LEMMA RpDetachDoes ==
    ASSUME TypeOK, VolumeInv, RpDetach
    PROVE  /\ Still /\ UNCHANGED <<lease, job>> /\ VolumeInv'
           /\ pass.pc = "detach"
           /\ PassIs("unmount2", pass.src, pass.tgt, pass.view, pass.pend,
                     pass.lost)
<1>0. /\ pass.pc = "detach" /\ RecoveryTypeOK /\ pass \in Pass
      /\ pass.src \in Standby
    BY PassPlaces, PcsAre DEF RpDetach, Release, TypeOK
<1>1. /\ UNCHANGED <<host, mnt, hb, claim, rclaim, evac, past, rec>>
      /\ UNCHANGED <<work, lease, ck, job, vm>>
    BY DEF RpDetach, Release, agents, registry, workers, reclaim
<1>2. PassIs("unmount2", pass.src, pass.tgt, pass.view, pass.pend, pass.lost)
    BY <1>0, GotoIs, PcsAre DEF RpDetach, Release
<1>3. at'[Home] = None
    BY <1>0, PlacesAre
    DEF RpDetach, Release, Detach, Moved, RecoveryTypeOK, StateVolumeTypeOK
<1>4. MountedInv'
    BY <1>0, <1>1, <1>3, PlacesAre
    DEF VolumeInv, MountedInv, HandoffPassInv, Up
<1>5. VolumeInv'
    BY <1>0, <1>1, <1>2, <1>4, PcsAre, HandingIs DEF VolumeInv, SourceInv,
        RecoveryPassInv, HandoffPassInv, Session, Replaced, PassIs
<1> QED
    BY <1>0, <1>1, <1>2, <1>5 DEF Still

LEMMA RpDetachReplacedDoes ==
    ASSUME TypeOK, VolumeInv, RpDetachReplaced
    PROVE  /\ Still /\ UNCHANGED <<lease, job>> /\ VolumeInv'
           /\ pass.pc = "detach2"
           /\ PassIs("attach2", pass.src, pass.tgt, pass.view, pass.pend,
                     pass.lost)
<1>0. /\ pass.pc = "detach2" /\ RecoveryTypeOK /\ pass \in Pass
      /\ Replaced # Home
    BY PassPlaces, HandingIs
    DEF RpDetachReplaced, Release, TypeOK, VolumeInv, HandoffPassInv
<1>1. /\ UNCHANGED <<host, mnt, hb, claim, rclaim, evac, past, rec>>
      /\ UNCHANGED <<work, lease, ck, job, vm>>
    BY DEF RpDetachReplaced, Release, agents, registry, workers, reclaim
<1>2. PassIs("attach2", pass.src, pass.tgt, pass.view, pass.pend, pass.lost)
    BY <1>0, GotoIs, PcsAre DEF RpDetachReplaced, Release
<1>3. at'[Home] = at[Home]
    BY <1>0, PlacesAre
    DEF RpDetachReplaced, Release, Detach, RecoveryTypeOK, StateVolumeTypeOK
<1>4. VolumeInv'
    BY <1>0, <1>1, <1>2, <1>3, PcsAre, HandingIs DEF VolumeInv, MountedInv,
        SourceInv, RecoveryPassInv, HandoffPassInv, Session, Replaced, Up,
        PassIs
<1> QED
    BY <1>0, <1>1, <1>2, <1>4 DEF Still

LEMMA RpAttachDoes ==
    ASSUME TypeOK, VolumeInv, RpAttach
    PROVE  /\ Still /\ VolumeInv' /\ pass.pc = "attach2"
           /\ \/ Ends
              \/ /\ PassIs("mount2", pass.src, pass.tgt, pass.view, pass.pend,
                           pass.lost)
                 /\ UNCHANGED <<lease, job>>
<1>0. pass.pc = "attach2" /\ RecoveryTypeOK /\ pass \in Pass
    BY PassPlaces DEF RpAttach, TypeOK
<1>1. /\ UNCHANGED <<host, mnt, hb, claim, rclaim, evac, past, rec>>
      /\ UNCHANGED <<work, ck, vm>>
    BY DEF RpAttach, agents, registry, reclaim
<1>2. at'[Home] = at[Home] \/ at[Home] = None
    BY DEF RpAttach, Moved
<1>3. MountedInv'
    BY <1>1, <1>2, PlacesAre DEF VolumeInv, MountedInv, Up
<1>4. CASE GiveUp
    <2>1. Ends
        BY <1>0, <1>4, GiveUpEnds
    <2> QED
        BY <1>0, <1>1, <1>3, <2>1, VolumeAtEnd DEF Still
<1>5. CASE Goto("mount2") /\ UNCHANGED <<lease, job>>
    <2>1. PassIs("mount2", pass.src, pass.tgt, pass.view, pass.pend, pass.lost)
        BY <1>0, <1>5, GotoIs, PcsAre
    <2>2. VolumeInv'
        BY <1>0, <1>1, <1>3, <2>1, PcsAre, HandingIs DEF VolumeInv, SourceInv,
            RecoveryPassInv, HandoffPassInv, Session, Replaced, PassIs
    <2> QED
        BY <1>0, <1>1, <1>5, <2>1, <2>2 DEF Still
<1> QED
    BY <1>4, <1>5 DEF RpAttach

LEMMA RpMountDoes ==
    ASSUME TypeOK, VolumeInv, RpMount
    PROVE  /\ UNCHANGED <<host, vm, rec, work, ck>> /\ VolumeInv'
           /\ pass.pc = "mount2"
           /\ \/ Ends /\ UNCHANGED mnt
              \/ /\ PassIs("restore", pass.src, pass.tgt, pass.view, pass.pend,
                           pass.lost)
                 /\ pass.tgt \in Spot
                 /\ UNCHANGED lease
                 /\ \A m \in Node :
                       mnt'[m] = IF m = pass.tgt THEN Home ELSE mnt[m]
                 /\ \A s \in Sandbox :
                       job'[s] = IF s \in pass.view THEN "todo" ELSE "none"
<1>0. /\ pass.pc = "mount2" /\ RecoveryTypeOK /\ pass \in Pass
      /\ pass.tgt \in Spot /\ pass.tgt \in Node
    BY PassPlaces, HandingIs, PlacesAre
    DEF RpMount, TypeOK, VolumeInv, HandoffPassInv
<1>1. UNCHANGED <<host, at, hb, claim, rclaim, evac, past, rec, work, ck, vm>>
    BY DEF RpMount, ec2, registry, reclaim
<1>2. CASE GiveUp /\ UNCHANGED mnt
    <2>1. Ends
        BY <1>0, <1>2, GiveUpEnds
    <2>2. MountedInv'
        BY <1>1, <1>2 DEF VolumeInv, MountedInv, Up
    <2> QED
        BY <1>0, <1>1, <1>2, <2>1, <2>2, VolumeAtEnd
<1>3. CASE /\ Mounts(pass.tgt, Home) /\ Mount(pass.tgt, Home)
           /\ Goto("restore") /\ UNCHANGED lease
           /\ job' = [s \in Sandbox |->
                        IF s \in pass.view THEN "todo" ELSE "none"]
    <2>1. PassIs("restore", pass.src, pass.tgt, pass.view, pass.pend, pass.lost)
        BY <1>0, <1>3, GotoIs, PcsAre
    <2>2. \A m \in Node : mnt'[m] = IF m = pass.tgt THEN Home ELSE mnt[m]
        BY <1>0, <1>3 DEF Mount, RecoveryTypeOK, StateVolumeTypeOK
    <2>3. at[Home] = pass.tgt
        BY <1>3 DEF Mounts
    <2>4. MountedInv'
        BY <1>0, <1>1, <2>2, <2>3, PlacesAre DEF VolumeInv, MountedInv, Up
    <2>5. VolumeInv'
        BY <1>0, <1>1, <2>1, <2>2, <2>4, PcsAre, HandingIs DEF VolumeInv,
            SourceInv, RecoveryPassInv, HandoffPassInv, Session, Replaced,
            PassIs
    <2>6. \A s \in Sandbox : job'[s] = IF s \in pass.view THEN "todo" ELSE "none"
        BY <1>3
    <2> QED
        BY <1>0, <1>1, <1>3, <2>1, <2>2, <2>5, <2>6
<1> QED
    BY <1>2, <1>3 DEF RpMount, Moved

LEMMA RpHealthDoes ==
    ASSUME TypeOK, VolumeInv, RpHealth
    PROVE  /\ Still /\ VolumeInv' /\ pass.pc = "restore"
           /\ \/ Ends
              \/ /\ PassIs("release", pass.src, pass.tgt, pass.view, pass.pend,
                           pass.lost)
                 /\ \A s \in pass.view : job[s] = "ended"
                 /\ UNCHANGED <<lease, job>>
<1>0. /\ pass.pc = "restore" /\ RecoveryTypeOK /\ pass \in Pass
      /\ Replaced # Home
    BY PassPlaces, HandingIs
    DEF RpHealth, TypeOK, VolumeInv, HandoffPassInv
<1>1. /\ UNCHANGED <<host, mnt, hb, claim, rclaim, evac, past, rec>>
      /\ UNCHANGED <<work, ck, vm>>
    BY DEF RpHealth, agents, registry, reclaim
<1>2. CASE GiveUp /\ UNCHANGED at
    <2>1. Ends
        BY <1>0, <1>2, GiveUpEnds
    <2>2. MountedInv'
        BY <1>1, <1>2 DEF VolumeInv, MountedInv, Up
    <2> QED
        BY <1>0, <1>1, <2>1, <2>2, VolumeAtEnd DEF Still
<1>3. CASE /\ Delete(Replaced) /\ Goto("release") /\ UNCHANGED <<lease, job>>
           /\ \A s \in pass.view : job[s] = "ended"
    <2>1. PassIs("release", pass.src, pass.tgt, pass.view, pass.pend, pass.lost)
        BY <1>0, <1>3, GotoIs, PcsAre
    <2>2. at'[Home] = at[Home]
        BY <1>0, <1>3, PlacesAre DEF Delete, RecoveryTypeOK, StateVolumeTypeOK
    <2>3. VolumeInv'
        BY <1>0, <1>1, <2>1, <2>2, PcsAre, HandingIs DEF VolumeInv, SourceInv,
            MountedInv, RecoveryPassInv, HandoffPassInv, Session, Replaced, Up,
            PassIs
    <2> QED
        BY <1>0, <1>1, <1>3, <2>1, <2>3 DEF Still
<1> QED
    BY <1>2, <1>3 DEF RpHealth

LEMMA RpReleaseDoes ==
    ASSUME TypeOK, VolumeInv, RpRelease
    PROVE  /\ Still /\ UNCHANGED <<lease, job>> /\ VolumeInv'
           /\ pass.pc = "release"
           /\ PassIs("terminate", pass.src, pass.tgt, pass.view, pass.pend,
                     pass.lost)
<1>0. pass.pc = "release" /\ RecoveryTypeOK /\ pass \in Pass
    BY PassPlaces DEF RpRelease, TypeOK
<1>1. /\ UNCHANGED <<host, at, mnt, hb, claim, evac, past, rec>>
      /\ UNCHANGED <<work, lease, ck, job, vm>>
    BY DEF RpRelease, ec2, agents, workers, reclaim
<1>2. PassIs("terminate", pass.src, pass.tgt, pass.view, pass.pend, pass.lost)
    BY <1>0, GotoIs, PcsAre DEF RpRelease
<1>3. rclaim'[Source] = rclaim[Source] \/ rclaim'[Source].by = None
    BY <1>0, PlacesAre DEF RpRelease, RecoveryTypeOK, Unclaimed
<1>4. VolumeInv'
    BY <1>0, <1>1, <1>2, <1>3, PcsAre, HandingIs DEF VolumeInv, MountedInv,
        SourceInv, RecoveryPassInv, HandoffPassInv, Session, Up, PassIs
<1> QED
    BY <1>0, <1>1, <1>2, <1>4 DEF Still

\* The recovery host ends, with whatever still ran there.
LEMMA RpTerminateDoes ==
    ASSUME TypeOK, VolumeInv, RpTerminate
    PROVE  /\ UNCHANGED <<rec, work, ck>> /\ VolumeInv' /\ Ends
           /\ pass.pc = "terminate" /\ pass.src \in Standby
           /\ Up(Source)' <=> Up(Source)
           /\ \/ UNCHANGED <<host, mnt, vm>>
              \/ \A m \in Node :
                    /\ mnt'[m] = IF m = pass.src THEN None ELSE mnt[m]
                    /\ host'[m] = IF m = pass.src THEN "gone" ELSE host[m]
                    /\ \A s \in Sandbox :
                          vm'[m][s] = IF m = pass.src THEN "none" ELSE vm[m][s]
<1>0. /\ pass.pc = "terminate" /\ RecoveryTypeOK
      /\ pass.src \in Standby /\ pass.src \in Node
    BY PassPlaces, PcsAre DEF RpTerminate, TypeOK
<1>1. UNCHANGED <<hb, claim, rclaim, evac, past, rec, work, ck>>
    BY DEF RpTerminate, registry, reclaim
<1>2. Ends
    BY <1>0, GiveUpEnds DEF RpTerminate
<1>3. CASE End(pass.src)
    <2>1. /\ MountedInv'
          /\ \A m \in Node :
                /\ mnt'[m] = IF m = pass.src THEN None ELSE mnt[m]
                /\ host'[m] = IF m = pass.src THEN "gone" ELSE host[m]
                /\ \A s \in Sandbox :
                      vm'[m][s] = IF m = pass.src THEN "none" ELSE vm[m][s]
        BY <1>0, <1>3, EndDoes DEF VolumeInv
    <2>2. VolumeInv'
        BY <1>1, <1>2, <2>1, VolumeAtEnd
    <2> QED
        BY <1>0, <1>1, <1>2, <2>1, <2>2, PlacesAre DEF Up
<1>4. CASE UNCHANGED <<host, at, mnt, vm>>
    <2>1. MountedInv'
        BY <1>4 DEF VolumeInv, MountedInv, Up
    <2>2. VolumeInv'
        BY <1>1, <1>2, <2>1, VolumeAtEnd
    <2> QED
        BY <1>0, <1>1, <1>2, <1>4, <2>2 DEF Up
<1> QED
    BY <1>3, <1>4 DEF RpTerminate
====
