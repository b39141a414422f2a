---------------------------- MODULE OneVmProofs ----------------------------
(***************************************************************************)
(* Where the guest of a sandbox can be.  As long as no node is lost and    *)
(* nothing is deleted: OneVm, LatestRuns and StoppedWhenSuspended of       *)
(* OperatorLifecycle, for every set of replicas, nodes and bounds,         *)
(* StoppedWhenAsleep for a single replica, and, without faults of nodes,   *)
(* that the control plane implements SandboxMachine.  With deletions, for  *)
(* a single replica and as long as no node is lost: NoVmAfterDelete.       *)
(***************************************************************************)
EXTENDS OperatorLifecycleProofs, FiniteSetTheorems

\* States of a record that has been placed on a node.
PlacedState == {"running", "suspending", "suspended", "slept", "resuming", "orphaned"}

\* What a reconcile u stands on when the record is r, in a run that deletes
\* nothing.  The settled state is written whatever the record has become; the
\* node of a suspend or a resume is the one the record still names.
StageOf(u, r) ==
    /\ ~u.cr.deleting /\ u.job # "delete" /\ u.pc # "unlist"
    /\ u.pc = "drift" => r.node # None
    /\ u.pc = "settle" => /\ u.rec.state \in {"failed", "slept", "orphaned"}
                          /\ u.rec.state # "failed" => r.node # None
    /\ u.pc = "mark" => u.job = "suspend"
    /\ u.pc \in {"call", "wait"} => u.job \in {"create", "suspend", "resume"}
    /\ u.pc \in {"mark", "call", "wait"} /\ u.job # "create" =>
          r.node # None /\ u.rec.node = r.node
    /\ u.pc \in {"call", "wait"} /\ u.job # "suspend" =>
          r.state \notin {"suspended", "suspending"}
    /\ u.pc \notin {"call", "wait"} \/ u.job # "create" => u.full = {}

\* No deletion is under way, and a reconcile has a resource and a record.
Undeleted ==
    /\ ~cr.deleting
    /\ cr.alive => rec.alive
    /\ ~cr.alive => \A w \in Worker : worker[w].pc = "idle"
    /\ \A c \in calls : c.kind # "destroy"

Placed == rec.state \in PlacedState => rec.node # None

StageInv == \A w \in Worker : StageOf(worker[w], rec)

\* The awaited request is the last one sent, for its replica's operation; only
\* a create is turned away for want of a vCPU.
LastSent ==
    \A c \in calls : c.by # None =>
        /\ c.kind = worker[c.by].job
        /\ c.step = "done" /\ c.res = "full" => c.kind = "create"
        /\ \A d \in calls : d # c => d.id < c.id

\* Faults are only used up.
Spending == \A f \in Fault : budget[f] <= Budget[f]

Control == Undeleted /\ Placed /\ StageInv /\ LastSent /\ Spending

Base == TypeOK /\ FenceInv /\ Control

-----------------------------------------------------------------------------
(* The steps of a reconcile without a request. *)

\* Before the lease, or refused it.
Outside(w) ==
    /\ worker[w].pc \notin Leased /\ worker'[w].pc \notin Leased
    /\ holder' = holder
    /\ rec'.state = rec.state \/ rec'.state \in {"failed", "slept", "orphaned"}
    /\ worker'[w].pc = "settle" /\ worker'[w].rec.state = "slept"
          => rec'.state = "suspended"

Enters(w) ==
    /\ worker[w].pc = "lease" /\ worker'[w].pc = "work"
    /\ holder = None /\ holder' = w
    /\ rec'.state = rec.state

\* On towards the driver.
Goes(w) ==
    /\ worker[w].pc \in {"work", "mark"} /\ worker'[w].pc \in {"mark", "call"}
    /\ holder' = holder
    /\ worker'[w].full = {}
    /\ \/ rec'.state \in {"creating", "resuming", "running"}
       \/ /\ rec'.state = "suspending"
          /\ worker'[w].pc = "call" /\ worker'[w].job = "suspend"

\* Done without the driver; a recovered suspend has found its VM suspended.
Stops(w) ==
    /\ worker[w].pc \in {"work", "mark"} /\ worker'[w].pc = "idle"
    /\ holder' = None
    /\ \/ rec'.state \in {"running", "failed"}
       \/ worker[w].pc = "work" /\ rec'.state = rec.state
       \/ /\ worker[w].pc = "work"
          /\ rec.state = "suspending" /\ Probe(rec.node) = "suspended"

Local(w) ==
    /\ Others(w)
    /\ UNCHANGED nodeVars
    /\ cr'.alive = cr.alive /\ cr'.deleting = cr.deleting
    /\ rec'.alive = rec.alive /\ rec'.node = rec.node
    /\ cr.alive
    /\ Placed'
    /\ StageOf(worker'[w], rec')
    /\ Outside(w) \/ Enters(w) \/ Goes(w) \/ Stops(w)

LEMMA BaseFacts ==
    ASSUME Base
    PROVE  /\ TypeOK /\ FenceInv /\ Control
           /\ rec \in Rec /\ cr \in CR
           /\ worker \in [Worker -> WorkerRec]
           /\ calls \in SUBSET Call
           /\ holder \in Worker \cup {None}
  BY WorkerTyped DEF Base, TypeOK, NodeTypeOK, WorkerRec

LEMMA CallFields ==
    ASSUME calls \in SUBSET Call, NEW c \in calls
    PROVE  c.node # None /\ c.id \in Int
  <1>1. c \in Call
    OBVIOUS
  <1>2. c.node \in Node /\ c.id \in 1 .. MaxCall
    BY <1>1 DEF Call
  <1>3. QED
    BY <1>2, NodeAgentAssumption

LEMMA Active ==
    ASSUME Base, NEW w \in Worker, worker[w].pc # "idle"
    PROVE  cr.alive /\ rec.alive /\ Known(w) = rec
  BY DEF Base, Control, Undeleted, Known

LEMMA Forced ==
    ASSUME rec \in Rec, NEW state, ForceState(state)
    PROVE  rec'.alive /\ rec'.state = state /\ rec'.node = rec.node
  BY DEF ForceState, Rec

LEMMA Published ==
    ASSUME cr \in CR, NEW w, NEW term, NEW phase, Publish(w, term, phase)
    PROVE  cr'.alive = cr.alive /\ cr'.deleting = cr.deleting
  BY DEF Publish, CR

LEMMA Finished ==
    ASSUME TypeOK, NEW w \in Worker, Done(w), NEW r
    PROVE  /\ Others(w) /\ worker'[w].pc = "idle" /\ worker'[w].pc \notin Leased
           /\ StageOf(worker'[w], r)
  <1>1. worker'[w] = Idle
    BY WorkerTyped DEF Done
  <1>2. QED
    BY <1>1, DoneEffect DEF StageOf, Idle, NoCR

\* A reconcile put into a new stage.
LEMMA Moved ==
    ASSUME TypeOK, NEW w \in Worker, NEW u, worker' = [worker EXCEPT ![w] = u]
    PROVE  Others(w) /\ worker'[w] = u
  BY WorkerTyped DEF Others

LEMMA Holding ==
    ASSUME Base, NEW w \in Worker, worker[w].pc \in Leased
    PROVE  holder = w /\ (Release(w) => holder' = None)
  BY DEF Base, FenceInv, HolderAtWork, Release

LEMMA Reported ==
    ASSUME Base, NEW w \in Worker, worker[w].pc \in Leased, NEW state, NEW term,
           Report(w, state, term), NEW r
    PROVE  /\ cr'.alive = cr.alive /\ cr'.deleting = cr.deleting
           /\ holder' = None
           /\ Others(w) /\ worker'[w].pc = "idle"
           /\ StageOf(worker'[w], r)
  BY BaseFacts, Published, Finished, Holding DEF Report

\* A job is never a deletion, and what it says of the record it was chosen for.
LEMMA Jobs ==
    ASSUME NEW c \in CR, NEW r \in Rec
    PROVE  JobFor(c, r) # "delete"
  BY DEF JobFor

\* What a settled state stands on: the record that was read has a node.
LEMMA Settled ==
    ASSUME Placed, rec \in Rec, NEW c \in CR, StateFor(c, rec) # rec.state
    PROVE  /\ StateFor(c, rec) \in {"failed", "slept"}
           /\ rec.node # None
           /\ StateFor(c, rec) = "slept" => rec.state = "suspended"
  BY DEF Placed, PlacedState, StateFor

LEMMA FetchLocal ==
    ASSUME Base, NEW w \in Worker, Fetch(w)
    PROVE  Local(w)
  <1>0. /\ TypeOK /\ rec \in Rec /\ cr \in CR /\ ~cr.deleting /\ Placed
    BY BaseFacts DEF Control, Undeleted
  <1> DEFINE u == [Idle EXCEPT !.pc = "record", !.cr = cr]
  <1>1. worker' = [worker EXCEPT ![w] = u] /\ worker[w].pc = "idle" /\ cr.alive
        /\ UNCHANGED nodeVars /\ cr' = cr /\ rec' = rec /\ holder' = holder
    BY DEF Fetch
  <1>2. u.pc = "record" /\ u.cr = cr /\ u.job = "none" /\ u.full = {}
    BY DEF Idle
  <1> HIDE DEF u
  <1>3. Others(w) /\ worker'[w] = u
    BY <1>0, <1>1, Moved
  <1>4. StageOf(u, rec')
    BY <1>0, <1>2 DEF StageOf
  <1>5. Outside(w)
    BY <1>1, <1>2, <1>3 DEF Outside, Leased
  <1>6. Placed'
    BY <1>0, <1>1 DEF Placed
  <1>7. QED
    BY <1>1, <1>3, <1>4, <1>5, <1>6 DEF Local

LEMMA ReconcileLocal ==
    ASSUME Base, NEW w \in Worker, Reconcile(w)
    PROVE  Local(w)
  <1>0. /\ TypeOK /\ rec \in Rec /\ cr \in CR /\ Placed
        /\ StageOf(worker[w], rec)
        /\ worker[w] \in WorkerRec /\ worker[w].cr \in CR
        /\ worker[w].pc = "record"
    BY BaseFacts, WorkerTyped DEF Control, StageInv, Reconcile
  <1>1. cr.alive /\ Known(w) = rec
    BY <1>0, Active
  <1> DEFINE c == worker[w].cr
  <1>2. rec' = rec /\ UNCHANGED nodeVars /\ holder' = holder
    BY <1>1 DEF Reconcile
  <1>3. Placed'
    BY <1>0, <1>2 DEF Placed
  <1>4. cr'.alive = cr.alive /\ cr'.deleting = cr.deleting
    BY <1>0, <1>1, Published DEF Reconcile, Proceed
  <1>5. \/ Done(w)
        \/ rec.state = "running" /\ Proceed(w, "drift", rec, rec.state)
        \/ Proceed(w, "lease", rec, rec.state)
        \/ /\ StateFor(c, rec) # rec.state
           /\ Proceed(w, "settle", rec, StateFor(c, rec))
    BY <1>1 DEF Reconcile
  <1>6. CASE Done(w)
    BY <1>0, <1>1, <1>2, <1>3, <1>4, <1>6, Finished DEF Local, Outside, Leased
  <1>7. ASSUME NEW pc \in {"drift", "lease", "settle"}, NEW state,
               Proceed(w, pc, rec, state),
               pc = "drift" => rec.node # None,
               pc = "settle" => /\ state \in {"failed", "slept"}
                                /\ rec.node # None
                                /\ state = "slept" => rec.state = "suspended"
        PROVE  Local(w)
    <2> DEFINE job == JobFor(c, rec)
               r == [rec EXCEPT !.state = state]
               u == [worker[w] EXCEPT !.pc = pc, !.job = job, !.rec = r]
    <2>1. worker' = [worker EXCEPT ![w].pc = pc, ![w].job = job, ![w].rec = r]
      BY <1>7 DEF Proceed
    <2>2. job # "delete" /\ r.state = state
      BY <1>0, Jobs DEF Rec
    <2> HIDE DEF job, r
    <2>3. worker' = [worker EXCEPT ![w] = u]
      BY <1>0, <2>1 DEF TypeOK
    <2>4. u.pc = pc /\ u.job = job /\ u.rec = r /\ u.cr = c /\ u.full = worker[w].full
      BY <1>0 DEF WorkerRec
    <2> HIDE DEF u
    <2>5. Others(w) /\ worker'[w] = u
      BY <1>0, <2>3, Moved
    <2>6. StageOf(u, rec)
      BY <1>0, <1>7, <2>2, <2>4 DEF StageOf
    <2>7. Outside(w)
      BY <1>0, <1>2, <1>7, <2>2, <2>4, <2>5 DEF Outside, Leased
    <2>8. QED
      BY <1>1, <1>2, <1>3, <1>4, <2>5, <2>6, <2>7 DEF Local
  <1>8. QED
    BY <1>0, <1>5, <1>6, <1>7, Settled DEF Placed, PlacedState

LEMMA DriftLocal ==
    ASSUME Base, NEW w \in Worker, Drift(w)
    PROVE  Local(w)
  <1>0. /\ TypeOK /\ rec \in Rec /\ cr \in CR /\ Placed
        /\ StageOf(worker[w], rec)
        /\ worker[w] \in WorkerRec
        /\ worker[w].pc = "drift"
    BY BaseFacts, WorkerTyped DEF Control, StageInv, Drift
  <1>1. cr.alive
    BY <1>0, Active
  <1>2. rec' = rec /\ UNCHANGED nodeVars /\ holder' = holder
    BY DEF Drift
  <1>3. Placed'
    BY <1>0, <1>2 DEF Placed
  <1>4. cr'.alive = cr.alive /\ cr'.deleting = cr.deleting
    BY <1>0, Published DEF Drift
  <1> DEFINE lost == [worker[w].rec EXCEPT !.state = "orphaned"]
             u == [worker[w] EXCEPT !.pc = "settle", !.rec = lost]
  <1>5. Done(w) \/ worker' = [worker EXCEPT ![w].pc = "settle", ![w].rec = lost]
    BY DEF Drift
  <1>6. lost.state = "orphaned"
    BY <1>0 DEF WorkerRec, Rec
  <1> HIDE DEF lost
  <1>7. CASE Done(w)
    BY <1>0, <1>1, <1>2, <1>3, <1>4, <1>7, Finished DEF Local, Outside, Leased
  <1>8. CASE worker' = [worker EXCEPT ![w].pc = "settle", ![w].rec = lost]
    <2>1. worker' = [worker EXCEPT ![w] = u]
      BY <1>0, <1>8 DEF TypeOK
    <2>2. /\ u.pc = "settle" /\ u.job = worker[w].job /\ u.rec = lost
          /\ u.cr = worker[w].cr /\ u.full = worker[w].full
      BY <1>0 DEF WorkerRec
    <2> HIDE DEF u
    <2>3. Others(w) /\ worker'[w] = u
      BY <1>0, <2>1, Moved
    <2>4. StageOf(u, rec)
      BY <1>0, <1>6, <2>2 DEF StageOf
    <2>5. Outside(w)
      BY <1>0, <1>2, <1>6, <2>2, <2>3 DEF Outside, Leased
    <2>6. QED
      BY <1>1, <1>2, <1>3, <1>4, <2>3, <2>4, <2>5 DEF Local
  <1>9. QED
    BY <1>5, <1>7, <1>8

LEMMA SettleLocal ==
    ASSUME Base, NEW w \in Worker, Settle(w)
    PROVE  Local(w)
  <1>0. /\ TypeOK /\ rec \in Rec /\ cr \in CR /\ Placed
        /\ StageOf(worker[w], rec)
        /\ worker[w].pc = "settle"
    BY BaseFacts DEF Control, StageInv, Settle
  <1>1. cr.alive /\ rec.alive
    BY <1>0, Active
  <1> DEFINE state == worker[w].rec.state
  <1>2. /\ state \in {"failed", "slept", "orphaned"}
        /\ state # "failed" => rec.node # None
    BY <1>0 DEF StageOf
  <1>3. rec'.alive /\ rec'.state = state /\ rec'.node = rec.node
    BY <1>0, Forced DEF Settle
  <1>4. Placed'
    BY <1>2, <1>3 DEF Placed, PlacedState
  <1>5. cr'.alive = cr.alive /\ cr'.deleting = cr.deleting
    BY <1>0, Published DEF Settle
  <1>6. Others(w) /\ worker'[w].pc = "idle" /\ StageOf(worker'[w], rec')
    BY <1>0, Finished DEF Settle
  <1>7. Outside(w)
    BY <1>0, <1>2, <1>3, <1>6 DEF Settle, Outside, Leased
  <1>8. UNCHANGED nodeVars /\ rec'.alive = rec.alive
    BY <1>0, <1>1 DEF Settle, ForceState, Rec
  <1>9. QED
    BY <1>1, <1>3, <1>4, <1>5, <1>6, <1>7, <1>8 DEF Local

LEMMA LeaseLocal ==
    ASSUME Base, NEW w \in Worker, Lease(w)
    PROVE  Local(w)
  <1>0. /\ TypeOK /\ rec \in Rec /\ cr \in CR /\ Placed
        /\ StageOf(worker[w], rec)
        /\ worker[w] \in WorkerRec
        /\ worker[w].pc = "lease"
    BY BaseFacts, WorkerTyped DEF Control, StageInv, Lease
  <1>1. cr.alive
    BY <1>0, Active
  <1>2. rec' = rec /\ cr' = cr /\ UNCHANGED nodeVars /\ Placed'
    BY <1>0 DEF Lease, Placed
  <1>3. CASE Done(w) /\ holder' = holder
    BY <1>0, <1>1, <1>2, <1>3, Finished DEF Local, Outside, Leased
  <1>4. CASE holder = None /\ holder' = w /\ Goto(w, "work")
    <2> DEFINE u == [worker[w] EXCEPT !.pc = "work"]
    <2>1. worker' = [worker EXCEPT ![w] = u]
      BY <1>0, <1>4 DEF TypeOK, Goto
    <2>2. /\ u.pc = "work" /\ u.job = worker[w].job
          /\ u.cr = worker[w].cr /\ u.full = worker[w].full
      BY <1>0 DEF WorkerRec
    <2> HIDE DEF u
    <2>3. Others(w) /\ worker'[w] = u
      BY <1>0, <2>1, Moved
    <2>4. StageOf(u, rec)
      BY <1>0, <2>2 DEF StageOf
    <2>5. Enters(w)
      BY <1>0, <1>2, <1>4, <2>2, <2>3 DEF Enters
    <2>6. QED
      BY <1>1, <1>2, <2>3, <2>4, <2>5 DEF Local
  <1>5. QED
    BY <1>3, <1>4 DEF Lease

\* What every step at "work" or "mark" starts from.
LEMMA AtTheLease ==
    ASSUME Base, NEW w \in Worker, worker[w].pc \in {"work", "mark"}
    PROVE  /\ TypeOK /\ rec \in Rec /\ cr \in CR /\ Placed
           /\ StageOf(worker[w], rec)
           /\ worker[w] \in WorkerRec
           /\ worker[w].pc \in Leased /\ holder = w
           /\ cr.alive /\ rec.alive /\ rec.alive = TRUE
  <1>1. worker[w].pc \in Leased /\ worker[w].pc # "idle"
    BY DEF Leased
  <1>2. cr.alive /\ rec.alive
    BY <1>1, Active
  <1>3. QED
    BY <1>1, <1>2, BaseFacts, WorkerTyped, Holding DEF Control, StageInv, Rec

\* The record is marked and the driver is called next.
LEMMA Engaged ==
    ASSUME Base, NEW w \in Worker, NEW job \in {"create", "resume"}, AtWork(w, job),
           NEW state \in {"creating", "resuming"}, Engage(w, state),
           job = "resume" => rec.node # None,
           state = "resuming" => job = "resume",
           UNCHANGED nodeVars
    PROVE  Local(w)
  <1>1. worker[w].pc = "work" /\ worker[w].job = job
    BY DEF AtWork
  <1>0. /\ TypeOK /\ rec \in Rec /\ cr \in CR
        /\ StageOf(worker[w], rec)
        /\ worker[w] \in WorkerRec /\ holder = w
        /\ cr.alive /\ rec.alive = TRUE
    BY <1>1, AtTheLease
  <1> DEFINE u == [worker[w] EXCEPT !.pc = "call", !.rec = rec]
  <1>2. worker' = [worker EXCEPT ![w] = u]
    BY <1>0 DEF TypeOK, Engage
  <1>3. /\ u.pc = "call" /\ u.job = job /\ u.rec = rec
        /\ u.cr = worker[w].cr /\ u.full = worker[w].full
    BY <1>0, <1>1 DEF WorkerRec
  <1> HIDE DEF u
  <1>4. Others(w) /\ worker'[w] = u
    BY <1>0, <1>2, Moved
  <1>5. rec'.alive = TRUE /\ rec'.state = state /\ rec'.node = rec.node
    BY <1>0 DEF Engage, ForceState, Rec
  <1>6. cr'.alive = cr.alive /\ cr'.deleting = cr.deleting
    BY <1>0, Published DEF Engage
  <1>7. u.full = {} /\ StageOf(u, rec')
    BY <1>0, <1>1, <1>3, <1>5 DEF StageOf
  <1>8. Goes(w)
    BY <1>1, <1>3, <1>4, <1>5, <1>7 DEF Goes, Engage
  <1>9. Placed'
    BY <1>5 DEF Placed, PlacedState
  <1>10. QED
    BY <1>0, <1>4, <1>5, <1>6, <1>7, <1>8, <1>9 DEF Local

\* A reconcile that leaves with its status, having written a state or not.
LEMMA Reports ==
    ASSUME Base, NEW w \in Worker, worker[w].pc \in {"work", "mark"},
           NEW state, NEW term, Report(w, state, term),
           rec' = rec /\ worker[w].pc = "work", UNCHANGED nodeVars
    PROVE  Local(w)
  <1>0. /\ Placed /\ worker[w].pc \in Leased /\ cr.alive
    BY AtTheLease
  <1>1. /\ cr'.alive = cr.alive /\ cr'.deleting = cr.deleting /\ holder' = None
        /\ Others(w) /\ worker'[w].pc = "idle" /\ StageOf(worker'[w], rec')
    BY <1>0, Reported
  <1>2. Stops(w)
    BY <1>1 DEF Stops
  <1>3. QED
    BY <1>0, <1>1, <1>2 DEF Local, Placed

LEMMA Concludes ==
    ASSUME Base, NEW w \in Worker, worker[w].pc \in {"work", "mark"},
           NEW state \in State, NEW term, Conclude(w, state, term),
           state = "failed" \/ rec.node # None,
           \/ state \in {"running", "failed"}
           \/ /\ worker[w].pc = "work"
              /\ rec.state = "suspending" /\ Probe(rec.node) = "suspended",
           UNCHANGED nodeVars
    PROVE  Local(w)
  <1>0. rec \in Rec /\ worker[w].pc \in Leased /\ cr.alive /\ rec.alive = TRUE
    BY AtTheLease
  <1>1. /\ cr'.alive = cr.alive /\ cr'.deleting = cr.deleting /\ holder' = None
        /\ Others(w) /\ worker'[w].pc = "idle" /\ StageOf(worker'[w], rec')
    BY <1>0, Reported DEF Conclude
  <1>2. rec'.alive = TRUE /\ rec'.state = state /\ rec'.node = rec.node
    BY <1>0 DEF Conclude, ForceState, Rec
  <1>3. Stops(w)
    BY <1>1, <1>2 DEF Stops
  <1>4. Placed'
    BY <1>2 DEF Placed, PlacedState
  <1>5. QED
    BY <1>0, <1>1, <1>2, <1>3, <1>4 DEF Local

LEMMA WorkCreateLocal ==
    ASSUME Base, NEW w \in Worker, WorkCreate(w)
    PROVE  Local(w)
  <1>1. worker[w].pc = "work" /\ AtWork(w, "create") /\ UNCHANGED nodeVars
    BY DEF WorkCreate, AtWork
  <1>2. CASE Report(w, "running", FALSE) /\ UNCHANGED rec
    BY <1>1, <1>2, Reports
  <1>3. CASE Engage(w, "creating")
    BY <1>1, <1>3, Engaged
  <1>4. QED
    BY <1>2, <1>3 DEF WorkCreate

LEMMA WorkResumeLocal ==
    ASSUME Base, NEW w \in Worker, WorkResume(w)
    PROVE  Local(w)
  <1>1. worker[w].pc = "work" /\ AtWork(w, "resume") /\ UNCHANGED nodeVars
    BY DEF WorkResume, AtWork
  <1>2. CASE Report(w, "running", FALSE) /\ UNCHANGED rec
    BY <1>1, <1>2, Reports
  <1>3. CASE Conclude(w, "running", FALSE) /\ rec.state = "resuming"
    <2>1. rec.node # None
      BY <1>1, <1>3, AtTheLease DEF Placed, PlacedState
    <2>2. QED
      BY <1>1, <1>3, <2>1, Concludes, Literals
  <1>4. CASE Conclude(w, "failed", TRUE)
    BY <1>1, <1>4, Concludes, Literals
  <1>5. CASE /\ rec.state \in {"suspended", "slept", "resuming", "orphaned"}
             /\ Engage(w, "resuming")
    <2>1. rec.node # None
      BY <1>1, <1>5, AtTheLease DEF Placed, PlacedState
    <2>2. QED
      BY <1>1, <1>5, <2>1, Engaged
  <1>6. QED
    BY <1>2, <1>3, <1>4, <1>5 DEF WorkResume

LEMMA WorkRecoverLocal ==
    ASSUME Base, NEW w \in Worker, WorkRecover(w)
    PROVE  Local(w)
  <1>1. worker[w].pc = "work" /\ UNCHANGED nodeVars
    BY DEF WorkRecover, AtWork
  <1>0. /\ TypeOK /\ rec \in Rec /\ cr \in CR /\ Placed /\ worker[w].pc \in Leased
        /\ cr.alive /\ rec.alive = TRUE
    BY <1>1, AtTheLease
  <1>2. rec.state = "suspending" => rec.node # None
    BY <1>0 DEF Placed, PlacedState
  <1>3. ASSUME Release(w), Done(w), cr' = cr, NEW s, rec' = rec \/ ForceState(s),
               rec'.state = "running" \/ rec' = rec,
               rec.node # None \/ rec' = rec
        PROVE  Local(w)
    <2>1. /\ Others(w) /\ worker'[w].pc = "idle" /\ StageOf(worker'[w], rec')
          /\ holder' = None
      BY <1>0, <1>3, Finished, Holding
    <2>2. rec'.alive = rec.alive /\ rec'.node = rec.node
      BY <1>0, <1>3 DEF ForceState, Rec
    <2>3. Placed'
      BY <1>0, <1>3, <2>2 DEF Placed
    <2>4. Stops(w)
      BY <1>1, <1>3, <2>1 DEF Stops
    <2>5. QED
      BY <1>0, <1>1, <1>3, <2>1, <2>2, <2>3, <2>4 DEF Local
  <1>4. CASE Release(w) /\ Done(w) /\ UNCHANGED <<cr, rec, apiFails>>
    BY <1>3, <1>4
  <1>5. CASE /\ rec.state = "suspending"
             /\ ForceState("running") /\ Release(w) /\ Done(w)
             /\ UNCHANGED <<cr, apiFails>>
    BY <1>0, <1>2, <1>3, <1>5, Forced
  <1>6. CASE /\ rec.state = "suspending" /\ Probe(rec.node) = "suspended"
             /\ Conclude(w, worker[w].cr.target, FALSE)
    BY <1>0, <1>1, <1>2, <1>6, Concludes, WorkerTyped
  <1>7. CASE Report(w, "suspending", FALSE) /\ UNCHANGED rec
    BY <1>1, <1>7, Reports
  <1>8. QED
    BY <1>4, <1>5, <1>6, <1>7 DEF WorkRecover

LEMMA WorkSuspendLocal ==
    ASSUME Base, NEW w \in Worker, WorkSuspend(w)
    PROVE  Local(w)
  <1>1. worker[w].pc = "work" /\ worker[w].job = "suspend" /\ UNCHANGED nodeVars
        /\ rec' = rec
    BY DEF WorkSuspend, AtWork
  <1>0. /\ TypeOK /\ rec \in Rec /\ cr \in CR /\ Placed /\ worker[w].pc \in Leased
        /\ StageOf(worker[w], rec) /\ worker[w] \in WorkerRec
        /\ cr.alive
    BY <1>1, AtTheLease
  <1>2. Placed'
    BY <1>0, <1>1 DEF Placed
  <1>3. CASE Release(w) /\ Done(w)
    <2>1. /\ Others(w) /\ worker'[w].pc = "idle" /\ StageOf(worker'[w], rec')
          /\ holder' = None
      BY <1>0, <1>3, Finished, Holding
    <2>2. cr'.alive = cr.alive /\ cr'.deleting = cr.deleting
      BY <1>0, Published DEF WorkSuspend, CancelIdle, CR
    <2>3. Stops(w)
      BY <1>1, <2>1 DEF Stops
    <2>4. QED
      BY <1>0, <1>1, <1>2, <2>1, <2>2, <2>3 DEF Local
  <1>4. CASE /\ rec.state = "running"
             /\ worker' = [worker EXCEPT ![w].pc = "mark", ![w].rec = rec]
             /\ UNCHANGED <<cr, ops, apiFails, holder>>
    <2> DEFINE u == [worker[w] EXCEPT !.pc = "mark", !.rec = rec]
    <2>1. worker' = [worker EXCEPT ![w] = u]
      BY <1>0, <1>4 DEF TypeOK
    <2>2. /\ u.pc = "mark" /\ u.job = "suspend" /\ u.rec = rec
          /\ u.cr = worker[w].cr /\ u.full = worker[w].full
      BY <1>0, <1>1 DEF WorkerRec
    <2> HIDE DEF u
    <2>3. Others(w) /\ worker'[w] = u
      BY <1>0, <2>1, Moved
    <2>4. rec.node # None
      BY <1>0, <1>4 DEF Placed, PlacedState
    <2>5. StageOf(u, rec) /\ u.full = {}
      BY <1>0, <1>1, <2>2, <2>4 DEF StageOf
    <2>6. Goes(w)
      BY <1>1, <1>4, <2>2, <2>3, <2>5 DEF Goes
    <2>7. QED
      BY <1>0, <1>1, <1>2, <1>4, <2>3, <2>5, <2>6 DEF Local
  <1>5. QED
    BY <1>3, <1>4 DEF WorkSuspend, CancelIdle

LEMMA MarkLocal ==
    ASSUME Base, NEW w \in Worker, Mark(w)
    PROVE  Local(w)
  <1>1. worker[w].pc = "mark" /\ UNCHANGED nodeVars
    BY DEF Mark
  <1>0. /\ TypeOK /\ rec \in Rec /\ cr \in CR
        /\ StageOf(worker[w], rec) /\ worker[w] \in WorkerRec
        /\ cr.alive /\ rec.alive = TRUE
    BY <1>1, AtTheLease
  <1>2. /\ worker[w].job = "suspend" /\ rec.node # None
        /\ worker[w].rec.node = rec.node /\ worker[w].full = {}
        /\ ~worker[w].cr.deleting
    BY <1>0, <1>1 DEF StageOf
  <1>3. CASE Conclude(w, "running", TRUE)
    BY <1>1, <1>2, <1>3, Concludes, Literals
  <1>4. CASE /\ ForceState("suspending") /\ Publish(w, FALSE, "suspending")
             /\ Goto(w, "call") /\ UNCHANGED holder
    <2> DEFINE u == [worker[w] EXCEPT !.pc = "call"]
    <2>1. worker' = [worker EXCEPT ![w] = u]
      BY <1>0, <1>4 DEF TypeOK, Goto
    <2>2. /\ u.pc = "call" /\ u.job = worker[w].job /\ u.rec = worker[w].rec
          /\ u.cr = worker[w].cr /\ u.full = worker[w].full
      BY <1>0 DEF WorkerRec
    <2> HIDE DEF u
    <2>3. Others(w) /\ worker'[w] = u
      BY <1>0, <2>1, Moved
    <2>4. rec'.alive = TRUE /\ rec'.state = "suspending" /\ rec'.node = rec.node
      BY <1>0, <1>4 DEF ForceState, Rec
    <2>5. StageOf(u, rec')
      BY <1>2, <2>2, <2>4 DEF StageOf
    <2>6. Goes(w)
      BY <1>1, <1>2, <1>4, <2>2, <2>3, <2>4 DEF Goes
    <2>7. Placed' /\ cr'.alive = cr.alive /\ cr'.deleting = cr.deleting
      BY <1>0, <1>2, <1>4, <2>4, Published DEF Placed
    <2>8. QED
      BY <1>0, <1>1, <2>3, <2>4, <2>5, <2>6, <2>7 DEF Local
  <1>5. QED
    BY <1>3, <1>4 DEF Mark

\* Without deletions these are all the steps that send and hear nothing.
LEMMA LocalSteps ==
    ASSUME Base, NEW w \in Worker,
           \/ Fetch(w) \/ Reconcile(w) \/ ReconcileDelete(w) \/ Drift(w)
           \/ Settle(w) \/ Lease(w) \/ WorkCreate(w) \/ WorkRecover(w)
           \/ WorkSuspend(w) \/ Mark(w) \/ WorkResume(w) \/ WorkDelete(w)
           \/ Unlist(w)
    PROVE  Local(w)
  <1>1. StageOf(worker[w], rec)
    BY DEF Base, Control, StageInv
  <1>2. ~(ReconcileDelete(w) \/ WorkDelete(w) \/ Unlist(w))
    BY <1>1 DEF StageOf, ReconcileDelete, WorkDelete, AtWork, Unlist
  <1>3. QED
    BY <1>2, FetchLocal, ReconcileLocal, DriftLocal, SettleLocal, LeaseLocal,
       WorkCreateLocal, WorkRecoverLocal, WorkSuspendLocal, MarkLocal, WorkResumeLocal

-----------------------------------------------------------------------------
(* The steps that send a request or hear of one. *)

\* A request leaves for the record's node, unless that one has turned the
\* create away, cannot be reached or was never chosen.
Sends(w) ==
    /\ worker[w].pc = "call" /\ worker'[w].pc = "wait"
    /\ worker'[w].job = worker[w].job
    /\ holder' = holder
    /\ UNCHANGED <<nodes, s3, latest, budget>>
    /\ rec'.state = rec.state
    /\ \E c \in Call :
          /\ calls' = calls \cup {c}
          /\ c.by = w /\ c.kind = worker[w].job
          /\ c.step = "queued"
          /\ \A d \in calls : d.id < c.id
          /\ \/ rec.node # None /\ ~Reachable(rec.node)
             \/ /\ c.node = rec'.node
                /\ \/ rec'.node = rec.node
                   \/ rec.node = None
                   \/ rec.node \in worker[w].full

\* The operation is over, and nobody hears of its request any more.
Ends(w) ==
    /\ worker[w].pc \in {"call", "wait"} /\ worker'[w].pc = "idle"
    /\ holder' = None
    /\ UNCHANGED <<nodes, s3, latest>>
    /\ budget' = budget \/ Spend("timeout")
    /\ \A e \in calls' :
          /\ e.by = None
          /\ \E d \in calls : /\ d.kind = e.kind /\ d.node = e.node
                              /\ d.step = e.step
    /\ \/ rec'.node = rec.node
       \/ \E c \in calls : c.by # None /\ rec'.node = c.node
    /\ \/ rec'.state \in {"running", "failed"}
       \/ \E c \in calls : /\ c.by # None /\ c.kind = "suspend"
                           /\ c.step = "done" /\ c.res = "ok"

\* The node was full.
Widens(w) ==
    /\ worker[w].pc = "wait" /\ worker'[w].pc = "call"
    /\ worker'[w].job = worker[w].job
    /\ holder' = holder
    /\ UNCHANGED <<nodes, s3, latest, budget, rec>>
    /\ \E c \in calls :
          /\ c.by # None /\ c.step = "done" /\ c.res = "full"
          /\ calls' = calls \ {c}
    /\ \A c \in calls' : c.by = None

Driver(w) ==
    /\ Others(w)
    /\ cr'.alive = cr.alive /\ cr'.deleting = cr.deleting
    /\ rec'.alive
    /\ rec.node # None => rec'.node # None
    /\ cr.alive
    /\ \A c \in calls' : c.kind # "destroy"
    /\ worker[w].pc \in Leased
    /\ Placed'
    /\ StageOf(worker'[w], rec')
    /\ Sends(w) \/ Ends(w) \/ Widens(w)

\* What every step at "call" or "wait" starts from.
LEMMA AtTheDriver ==
    ASSUME Base, NEW w \in Worker, worker[w].pc \in {"call", "wait"}
    PROVE  /\ TypeOK /\ rec \in Rec /\ cr \in CR /\ Placed
           /\ StageOf(worker[w], rec)
           /\ worker[w] \in WorkerRec
           /\ worker[w].pc \in Leased /\ holder = w
           /\ cr.alive /\ rec.alive /\ rec.alive = TRUE
           /\ worker[w].job \in {"create", "suspend", "resume"}
           /\ calls \in SUBSET Call
           /\ \A c \in calls : c.kind # "destroy"
  <1>1. worker[w].pc \in Leased /\ worker[w].pc # "idle"
    BY DEF Leased
  <1>2. cr.alive /\ rec.alive
    BY <1>1, Active
  <1>3. /\ TypeOK /\ rec \in Rec /\ cr \in CR /\ Placed /\ StageOf(worker[w], rec)
        /\ calls \in SUBSET Call
        /\ \A c \in calls : c.kind # "destroy"
    BY BaseFacts DEF Control, StageInv, Undeleted
  <1>4. worker[w].job \in {"create", "suspend", "resume"}
    BY <1>3 DEF StageOf
  <1>5. QED
    BY <1>1, <1>2, <1>3, <1>4, WorkerTyped, Holding DEF Rec

\* How a driver call that raises leaves the record.
LEMMA Fails ==
    ASSUME Base, NEW w \in Worker, worker[w].pc \in {"call", "wait"}, Failed(w)
    PROVE  /\ cr'.alive = cr.alive /\ cr'.deleting = cr.deleting
           /\ holder' = None
           /\ Others(w) /\ worker'[w].pc = "idle"
           /\ StageOf(worker'[w], rec')
           /\ rec'.alive /\ rec'.node = rec.node
           /\ rec'.state \in {"running", "failed"}
           /\ Placed'
  <1>0. /\ rec \in Rec /\ worker[w].pc \in Leased /\ StageOf(worker[w], rec)
        /\ worker[w].job \in {"create", "suspend", "resume"}
    BY AtTheDriver
  <1>1. PICK state \in {"running", "failed"} :
           /\ Conclude(w, state, TRUE)
           /\ state = "running" => worker[w].job = "suspend"
    BY <1>0 DEF Failed
  <1>2. /\ cr'.alive = cr.alive /\ cr'.deleting = cr.deleting /\ holder' = None
        /\ Others(w) /\ worker'[w].pc = "idle" /\ StageOf(worker'[w], rec')
    BY <1>0, <1>1, Reported DEF Conclude
  <1>3. rec'.alive /\ rec'.state = state /\ rec'.node = rec.node
    BY <1>0, <1>1, Forced DEF Conclude
  <1>4. state = "running" => rec.node # None
    BY <1>0, <1>1 DEF StageOf
  <1>5. Placed'
    BY <1>3, <1>4 DEF Placed, PlacedState
  <1>6. QED
    BY <1>2, <1>3, <1>5

\* The operation is over with a VM on n.
LEMMA Succeeds ==
    ASSUME Base, NEW w \in Worker, worker[w].pc \in {"call", "wait"},
           NEW n \in Node, Up(w, n)
    PROVE  /\ cr'.alive = cr.alive /\ cr'.deleting = cr.deleting
           /\ holder' = None
           /\ Others(w) /\ worker'[w].pc = "idle"
           /\ StageOf(worker'[w], rec')
           /\ rec'.alive /\ rec'.node = n
           /\ rec'.state = "running"
           /\ Placed'
  <1>0. rec \in Rec /\ worker[w].pc \in Leased
    BY AtTheDriver
  <1>1. /\ cr'.alive = cr.alive /\ cr'.deleting = cr.deleting /\ holder' = None
        /\ Others(w) /\ worker'[w].pc = "idle" /\ StageOf(worker'[w], rec')
    BY <1>0, Reported DEF Up
  <1>2. rec'.alive /\ rec'.state = "running" /\ rec'.node = n
    BY <1>0 DEF Up, Rec
  <1>3. Placed'
    BY <1>2, NodeAgentAssumption DEF Placed
  <1>4. QED
    BY <1>1, <1>2, <1>3

\* Over without a request in flight.
LEMMA EndsAtOnce ==
    ASSUME Base, NEW w \in Worker, worker[w].pc = "call",
           UNCHANGED <<nodes, s3, latest, calls, budget>>,
           Failed(w) \/ (rec.node \in Node /\ Up(w, rec.node))
    PROVE  Driver(w)
  <1>0. /\ cr.alive /\ worker[w].pc \in Leased
        /\ \A c \in calls : c.kind # "destroy"
    BY AtTheDriver
  <1>1. FenceInv /\ TypeOK
    BY DEF Base
  <1>2. \A c \in calls : c.by = None
    BY <1>0, <1>1, NobodyAwaits
  <1>3. /\ cr'.alive = cr.alive /\ cr'.deleting = cr.deleting /\ holder' = None
        /\ Others(w) /\ worker'[w].pc = "idle" /\ StageOf(worker'[w], rec')
        /\ rec'.alive /\ rec'.node = rec.node
        /\ rec'.state \in {"running", "failed"} /\ Placed'
    BY Fails, Succeeds
  <1>4. Ends(w)
    BY <1>2, <1>3 DEF Ends
  <1>5. QED
    BY <1>0, <1>3, <1>4 DEF Driver

\* The record still or again names a node, whatever the request is for.
LEMMA Requested ==
    ASSUME Base, NEW w \in Worker, worker[w].pc = "call",
           NEW n \in Node, Request(w, worker[w].job, n),
           UNCHANGED <<nodes, s3, latest, budget, cr, holder>>,
           \/ rec' = rec /\ worker[w].job # "create"
           \/ Journal(n) /\ worker[w].job = "create",
           \/ rec.node # None /\ ~Reachable(rec.node)
           \/ /\ n = rec'.node
              /\ rec'.node = rec.node \/ rec.node = None \/ rec.node \in worker[w].full
    PROVE  Driver(w)
  <1>0. /\ TypeOK /\ rec \in Rec /\ cr \in CR /\ Placed
        /\ StageOf(worker[w], rec)
        /\ worker[w] \in WorkerRec /\ worker[w].pc \in Leased
        /\ cr.alive /\ rec.alive /\ calls \in SUBSET Call
        /\ worker[w].job \in {"create", "suspend", "resume"}
        /\ \A c \in calls : c.kind # "destroy"
    BY AtTheDriver
  <1>1. /\ rec'.alive /\ rec'.state = rec.state
        /\ \/ rec'.node = rec.node
           \/ rec'.node = n /\ worker[w].job = "create"
    BY <1>0 DEF Journal, Rec
  <1>2. n # None
    BY NodeAgentAssumption
  <1> DEFINE u == [worker[w] EXCEPT !.pc = "wait"]
  <1>3. worker' = [worker EXCEPT ![w] = u]
    BY <1>0 DEF TypeOK, Request, Goto
  <1>4. /\ u.pc = "wait" /\ u.job = worker[w].job /\ u.rec = worker[w].rec
        /\ u.cr = worker[w].cr /\ u.full = worker[w].full
    BY <1>0 DEF WorkerRec
  <1> HIDE DEF u
  <1>5. Others(w) /\ worker'[w] = u
    BY <1>0, <1>3, Moved
  <1>6. StageOf(u, rec')
    BY <1>0, <1>1, <1>4 DEF StageOf
  <1>7. Placed'
    BY <1>0, <1>1, <1>2 DEF Placed
  <1>8. PICK i \in 1 .. MaxCall :
           /\ \A d \in calls : d.id < i
           /\ calls' = calls \cup
                {[id |-> i, by |-> w, kind |-> worker[w].job, node |-> n,
                  step |-> "queued", res |-> ""]}
    BY DEF Request, Send
  <1>9. PICK c : c = [id |-> i, by |-> w, kind |-> worker[w].job, node |-> n,
                      step |-> "queued", res |-> ""]
    OBVIOUS
  <1>10. /\ c \in Call /\ c.by = w /\ c.kind = worker[w].job
         /\ c.step = "queued" /\ c.node = n /\ c.id = i
    BY <1>0, <1>9 DEF Call, Kind
  <1>11. calls' = calls \cup {c} /\ \A d \in calls : d.id < c.id
    BY <1>8, <1>9, <1>10
  <1>12. Sends(w)
    BY <1>1, <1>4, <1>5, <1>10, <1>11 DEF Sends
  <1>13. \A d \in calls' : d.kind # "destroy"
    BY <1>0, <1>10, <1>11
  <1>14. QED
    BY <1>0, <1>1, <1>2, <1>5, <1>6, <1>7, <1>12, <1>13 DEF Driver

LEMMA CallCreateDriver ==
    ASSUME Base, NEW w \in Worker, CallCreate(w)
    PROVE  Driver(w)
  <1>1. worker[w].pc = "call" /\ worker[w].job = "create"
        /\ UNCHANGED <<nodes, s3, latest, budget>>
    BY DEF CallCreate, Calling
  <1>0. rec \in Rec
    BY <1>1, AtTheDriver
  <1>2. CASE rec.node # None /\ Up(w, rec.node) /\ UNCHANGED calls
    BY <1>0, <1>1, <1>2, EndsAtOnce DEF Rec
  <1>3. CASE Failed(w) /\ UNCHANGED calls
    BY <1>1, <1>3, EndsAtOnce
  <1>4. ASSUME NEW n \in Node, Journal(n), Request(w, "create", n),
               UNCHANGED <<cr, apiFails, holder>>,
               \/ n = rec.node
               \/ rec.node = None \/ ~Reachable(rec.node) \/ rec.node \in worker[w].full
        PROVE  Driver(w)
    <2>1. rec'.node = n
      BY <1>0, <1>4 DEF Journal, Rec
    <2>2. QED
      BY <1>1, <1>4, <2>1, Requested
  <1>5. QED
    BY <1>0, <1>2, <1>3, <1>4 DEF CallCreate, Rec

LEMMA CallSuspendDriver ==
    ASSUME Base, NEW w \in Worker, CallSuspend(w)
    PROVE  Driver(w)
  <1>1. worker[w].pc = "call" /\ worker[w].job = "suspend"
        /\ UNCHANGED <<nodes, s3, latest, budget>>
    BY DEF CallSuspend, Calling
  <1>0. rec \in Rec /\ StageOf(worker[w], rec)
    BY <1>1, AtTheDriver
  <1>2. worker[w].rec.node = rec.node /\ rec.node \in Node
    BY <1>0, <1>1 DEF StageOf, Rec
  <1>3. CASE Failed(w) /\ UNCHANGED calls
    BY <1>1, <1>3, EndsAtOnce
  <1>4. CASE Request(w, "suspend", rec.node) /\ UNCHANGED <<cr, apiFails, rec, holder>>
    BY <1>1, <1>2, <1>4, Requested
  <1>5. QED
    BY <1>2, <1>3, <1>4 DEF CallSuspend

LEMMA CallResumeDriver ==
    ASSUME Base, NEW w \in Worker, CallResume(w)
    PROVE  Driver(w)
  <1>1. worker[w].pc = "call" /\ worker[w].job = "resume"
        /\ UNCHANGED <<nodes, s3, latest, budget>>
    BY DEF CallResume, Calling
  <1>0. rec \in Rec /\ StageOf(worker[w], rec)
    BY <1>1, AtTheDriver
  <1>2. worker[w].rec.node = rec.node /\ rec.node \in Node /\ rec.node # None
    BY <1>0, <1>1 DEF StageOf, Rec
  <1>3. CASE Failed(w) /\ UNCHANGED calls
    BY <1>1, <1>3, EndsAtOnce
  <1>4. ASSUME NEW n \in Node, Request(w, "resume", n),
               UNCHANGED <<cr, apiFails, rec, holder>>,
               n = rec.node \/ ~Reachable(rec.node)
        PROVE  Driver(w)
    BY <1>1, <1>2, <1>4, Requested
  <1>5. QED
    BY <1>2, <1>3, <1>4 DEF CallResume

\* A reply ends the operation.
LEMMA EndsHeard ==
    ASSUME Base, NEW w \in Worker, NEW c \in calls, c.by = w, calls' = calls \ {c},
           UNCHANGED <<nodes, s3, latest, budget>>,
           \/ Failed(w)
           \/ Up(w, c.node)
           \/ /\ c.kind = "suspend" /\ c.step = "done" /\ c.res = "ok"
              /\ rec.state = "suspending"
              /\ rec' = [rec EXCEPT !.state = worker[w].cr.target, !.snap = TRUE]
              /\ Report(w, worker[w].cr.target, FALSE)
    PROVE  Driver(w)
  <1>1. TypeOK /\ FenceInv
    BY DEF Base
  <1>2. /\ worker[w].pc = "wait" /\ c.by # None
        /\ \A d \in calls : d.by # None => d = c
    BY <1>1, OnlyThisAwaited, NodeAgentAssumption
  <1>0. /\ rec \in Rec /\ cr.alive /\ rec.alive /\ worker[w].pc \in Leased /\ Placed
        /\ c \in Call
        /\ \A d \in calls : d.kind # "destroy"
    BY <1>2, AtTheDriver
  <1>3. /\ cr'.alive = cr.alive /\ cr'.deleting = cr.deleting /\ holder' = None
        /\ Others(w) /\ worker'[w].pc = "idle" /\ StageOf(worker'[w], rec')
        /\ rec'.alive /\ Placed'
        /\ rec'.node = rec.node \/ rec'.node = c.node
        /\ \/ rec'.state \in {"running", "failed"}
           \/ c.kind = "suspend" /\ c.step = "done" /\ c.res = "ok"
    <2>1. CASE Failed(w)
      BY <1>2, <2>1, Fails
    <2>2. CASE Up(w, c.node)
      BY <1>0, <1>2, <2>2, Succeeds DEF Call
    <2>3. CASE /\ c.kind = "suspend" /\ c.step = "done" /\ c.res = "ok"
               /\ rec.state = "suspending"
               /\ rec' = [rec EXCEPT !.state = worker[w].cr.target, !.snap = TRUE]
               /\ Report(w, worker[w].cr.target, FALSE)
      <3>1. rec'.alive /\ rec'.node = rec.node /\ rec.node # None
        BY <1>0, <2>3 DEF Rec, Placed, PlacedState
      <3>2. QED
        BY <1>0, <2>3, <3>1, Reported DEF Placed
    <2>4. QED
      BY <2>1, <2>2, <2>3
  <1>4. rec.node # None => rec'.node # None
    <2>1. c.node \in Node
      BY <1>0 DEF Call
    <2>2. c.node # None
      BY <2>1, NodeAgentAssumption
    <2>3. QED
      BY <1>3, <2>2
  <1>5. Ends(w)
    BY <1>2, <1>3 DEF Ends
  <1>6. QED
    BY <1>0, <1>3, <1>4, <1>5 DEF Driver

LEMMA ReceiveOkDriver ==
    ASSUME Base, NEW w \in Worker, ReceiveOk(w)
    PROVE  Driver(w)
  <1>1. PICK c \in Replies(w, "ok") :
           /\ calls' = calls \ {c}
           /\ CASE c.kind \in {"create", "resume"} ->
                       IF Probe(c.node) # "unknown" THEN Up(w, c.node) ELSE Failed(w)
                [] c.kind = "suspend" ->
                       IF rec.alive /\ rec.state = "suspending"
                       THEN /\ rec' = [rec EXCEPT !.state = worker[w].cr.target,
                                                  !.snap = TRUE]
                            /\ Report(w, worker[w].cr.target, FALSE)
                       ELSE Failed(w)
                [] c.kind = "destroy" -> Deleted(w)
           /\ UNCHANGED <<nodes, s3, latest, budget, ops>>
    BY DEF ReceiveOk
  <1>2. c \in calls /\ c.by = w /\ c.step = "done" /\ c.res = "ok"
    BY DEF Replies
  <1>3. c \in Call /\ c.kind # "destroy"
    BY <1>2, BaseFacts DEF Control, Undeleted
  <1>4. c.kind \in {"create", "resume", "suspend"}
    BY <1>3 DEF Call, Kind
  <1>5. CASE c.kind \in {"create", "resume"}
    BY <1>1, <1>2, <1>5, EndsHeard
  <1>6. CASE c.kind = "suspend"
    BY <1>1, <1>2, <1>6, EndsHeard
  <1>7. QED
    BY <1>4, <1>5, <1>6

LEMMA ReceiveErrorDriver ==
    ASSUME Base, NEW w \in Worker, ReceiveError(w)
    PROVE  Driver(w)
  <1>1. PICK c \in Replies(w, "error") :
           /\ calls' = calls \ {c}
           /\ Failed(w)
           /\ UNCHANGED <<nodes, s3, latest, budget, ops>>
    BY DEF ReceiveError
  <1>2. c \in calls /\ c.by = w
    BY DEF Replies
  <1>3. QED
    BY <1>1, <1>2, EndsHeard

LEMMA TimeoutDriver ==
    ASSUME Base, NEW w \in Worker, Timeout(w)
    PROVE  Driver(w)
  <1>1. PICK c \in calls :
           /\ c.by = w
           /\ UNCHANGED budget \/ Spend("timeout")
           /\ calls' = (calls \ {c}) \cup {[c EXCEPT !.by = None]}
           /\ Failed(w)
           /\ UNCHANGED <<nodes, s3, latest, ops>>
    BY DEF Timeout
  <1>2. TypeOK /\ FenceInv
    BY DEF Base
  <1>3. worker[w].pc = "wait" /\ \A d \in calls : d.by # None => d = c
    BY <1>1, <1>2, OnlyThisAwaited
  <1>4. /\ cr.alive /\ worker[w].pc \in Leased /\ calls \in SUBSET Call
        /\ \A d \in calls : d.kind # "destroy"
    BY <1>3, AtTheDriver
  <1>5. /\ cr'.alive = cr.alive /\ cr'.deleting = cr.deleting /\ holder' = None
        /\ Others(w) /\ worker'[w].pc = "idle" /\ StageOf(worker'[w], rec')
        /\ rec'.alive /\ rec'.node = rec.node
        /\ rec'.state \in {"running", "failed"} /\ Placed'
    BY <1>1, <1>3, Fails
  <1>6. PICK a : a = [c EXCEPT !.by = None]
    OBVIOUS
  <1>7. a.by = None /\ a.kind = c.kind /\ a.node = c.node /\ a.step = c.step
    BY <1>4, <1>6 DEF Call
  <1>8. calls' = (calls \ {c}) \cup {a}
    BY <1>1, <1>6
  <1>9. \A e \in calls' :
          /\ e.by = None
          /\ \E d \in calls : d.kind = e.kind /\ d.node = e.node /\ d.step = e.step
    BY <1>3, <1>7, <1>8
  <1>10. Ends(w)
    BY <1>1, <1>3, <1>5, <1>9 DEF Ends
  <1>11. \A e \in calls' : e.kind # "destroy"
    BY <1>4, <1>9
  <1>12. QED
    BY <1>4, <1>5, <1>10, <1>11 DEF Driver

LEMMA ReceiveFullDriver ==
    ASSUME Base, NEW w \in Worker, ReceiveFull(w)
    PROVE  Driver(w)
  <1>1. PICK c \in Replies(w, "full") :
           /\ calls' = calls \ {c}
           /\ worker' = [worker EXCEPT ![w].pc = "call", ![w].full = @ \cup {c.node}]
           /\ UNCHANGED <<nodes, s3, latest, budget, cr, ops, apiFails, rec, holder>>
    BY DEF ReceiveFull
  <1>2. c \in calls /\ c.by = w /\ c.step = "done" /\ c.res = "full"
    BY DEF Replies
  <1>3. TypeOK /\ FenceInv /\ c.by # None
    BY <1>2, NodeAgentAssumption DEF Base
  <1>4. worker[w].pc = "wait" /\ \A d \in calls : d.by # None => d = c
    BY <1>2, <1>3, OnlyThisAwaited
  <1>5. /\ cr.alive /\ rec.alive /\ worker[w].pc \in Leased /\ Placed
        /\ StageOf(worker[w], rec) /\ worker[w] \in WorkerRec
        /\ \A d \in calls : d.kind # "destroy"
    BY <1>4, AtTheDriver
  <1> DEFINE full == worker[w].full \cup {c.node}
             u == [worker[w] EXCEPT !.pc = "call", !.full = full]
  <1>6. worker' = [worker EXCEPT ![w] = u]
    BY <1>1, <1>3 DEF TypeOK
  <1> HIDE DEF full
  <1>7. /\ u.pc = "call" /\ u.job = worker[w].job /\ u.rec = worker[w].rec
        /\ u.cr = worker[w].cr
    BY <1>5 DEF WorkerRec
  <1> HIDE DEF u
  <1>8. Others(w) /\ worker'[w] = u
    BY <1>3, <1>6, Moved
  <1>9. worker[w].job = "create"
    BY <1>2, <1>3 DEF Base, Control, LastSent
  <1>10. StageOf(u, rec)
    BY <1>4, <1>5, <1>7, <1>9 DEF StageOf
  <1>11. Widens(w)
    BY <1>1, <1>2, <1>3, <1>4, <1>7, <1>8 DEF Widens
  <1>12. Placed'
    BY <1>1, <1>5 DEF Placed
  <1>13. QED
    BY <1>1, <1>5, <1>8, <1>10, <1>11, <1>12 DEF Driver

\* Without deletions these are all the steps of a replica and its driver.
LEMMA DriverSteps ==
    ASSUME Base, NEW w \in Worker,
           \/ CallCreate(w) \/ CallSuspend(w) \/ CallResume(w) \/ CallDelete(w)
           \/ ReceiveOk(w) \/ ReceiveFull(w) \/ ReceiveError(w) \/ Timeout(w)
    PROVE  Driver(w)
  <1>1. StageOf(worker[w], rec)
    BY DEF Base, Control, StageInv
  <1>2. ~CallDelete(w)
    BY <1>1 DEF StageOf, CallDelete, Calling
  <1>3. QED
    BY <1>2, CallCreateDriver, CallSuspendDriver, CallResumeDriver, ReceiveOkDriver,
       ReceiveFullDriver, ReceiveErrorDriver, TimeoutDriver

-----------------------------------------------------------------------------
(* Control is inductive. *)

\* No node has been lost, and no agent restarted.
AgentsStay == NodesStay /\ budget["restart"] = Budget["restart"]

LEMMA Spends ==
    ASSUME budget \in [Fault -> Nat], Spending,
           budget' = budget \/ \E f \in Fault : Spend(f)
    PROVE  /\ Spending'
           /\ NodesStay' => NodesStay
           /\ AgentsStay' => AgentsStay
  <1>1. \A f \in Fault : budget'[f] \in Nat /\ budget'[f] <= budget[f]
    BY DEF Spend
  <1>2. \A f \in Fault : budget[f] \in Nat /\ Budget[f] \in Nat /\ budget[f] <= Budget[f]
    BY NodeAgentAssumption DEF Spending
  <1>3. \A f \in Fault : budget'[f] <= Budget[f] /\
                          (budget'[f] = Budget[f] => budget[f] = Budget[f])
    BY <1>1, <1>2
  <1>4. "partition" \in Fault /\ "death" \in Fault /\ "restart" \in Fault
    BY DEF Fault
  <1>5. QED
    BY <1>3, <1>4 DEF Spending, NodesStay, AgentsStay

\* A step of w leaves the other reconciles at their stage: it has the lease,
\* or it leaves the node and the transition of the record alone.
LEMMA OthersStage ==
    ASSUME Base, NEW w \in Worker, Others(w), StageOf(worker'[w], rec'),
           rec.node # None => rec'.node # None,
           \/ worker[w].pc \in Leased
           \/ /\ rec'.node = rec.node
              /\ rec'.state = rec.state \/ rec'.state \in {"failed", "slept", "orphaned"}
    PROVE  StageInv'
  <1> SUFFICES ASSUME NEW v \in Worker, v # w
               PROVE  StageOf(worker[v], rec')
    BY DEF StageInv, Others
  <1>1. StageOf(worker[v], rec)
    BY DEF Base, Control, StageInv
  <1>2. CASE worker[w].pc \in Leased
    <2>1. worker[v].pc \notin Leased
      BY <1>2 DEF Base, FenceInv, HolderAtWork
    <2>2. QED
      BY <1>1, <2>1 DEF StageOf, Leased
  <1>3. CASE /\ rec'.node = rec.node
             /\ rec'.state = rec.state \/ rec'.state \in {"failed", "slept", "orphaned"}
    BY <1>1, <1>3 DEF StageOf
  <1>4. QED
    BY <1>2, <1>3

LEMMA LocalControl ==
    ASSUME Base, NEW w \in Worker, Local(w)
    PROVE  Control'
  <1>0. TypeOK /\ FenceInv /\ Control /\ rec \in Rec
    BY BaseFacts
  <1>1. Undeleted'
    BY <1>0 DEF Local, Control, Undeleted, nodeVars
  <1>2. worker[w].pc \in Leased \/ Outside(w) \/ Enters(w)
    BY DEF Local, Goes, Stops, Leased
  <1>3. StageInv'
    BY <1>2, OthersStage DEF Local, Outside, Enters
  <1>4. worker[w].pc # "wait"
    BY DEF Local, Outside, Enters, Goes, Stops, Leased
  <1>5. LastSent'
    <2>1. \A c \in calls : c.by # None => c.by \in Worker /\ c.by # w
      BY <1>0, <1>4, NodeAgentAssumption
         DEF FenceInv, AwaitedWaits, TypeOK, NodeTypeOK, Call
    <2>2. \A c \in calls : c.by # None => worker'[c.by] = worker[c.by]
      BY <2>1 DEF Local, Others
    <2>3. QED
      BY <1>0, <2>2 DEF Control, LastSent, Local, nodeVars
  <1>6. Spending'
    BY <1>0 DEF Control, Spending, Local, nodeVars
  <1>7. QED
    BY <1>1, <1>3, <1>5, <1>6 DEF Local, Control

LEMMA DriverControl ==
    ASSUME Base, NEW w \in Worker, Driver(w)
    PROVE  Control'
  <1>0. TypeOK /\ FenceInv /\ Control /\ rec \in Rec /\ calls \in SUBSET Call
    BY BaseFacts
  <1>1. Undeleted'
    BY <1>0 DEF Driver, Control, Undeleted
  <1>2. StageInv'
    BY OthersStage DEF Driver
  <1>7. Spending'
    <2>1. budget' = budget \/ Spend("timeout")
      BY DEF Driver, Sends, Ends, Widens
    <2>2. "timeout" \in Fault
      BY DEF Fault
    <2>3. QED
      BY <1>0, <2>1, <2>2, Spends DEF Control, TypeOK, NodeTypeOK
  <1>3. CASE Sends(w)
    <2>1. PICK c \in Call :
            /\ calls' = calls \cup {c}
            /\ c.by = w /\ c.kind = worker[w].job
            /\ c.step = "queued"
            /\ \A d \in calls : d.id < c.id
      BY <1>3 DEF Sends
    <2>2. \A d \in calls : d.by = None
      BY <1>0, <1>3, NobodyAwaits DEF Sends, Leased
    <2>3. worker'[c.by].job = c.kind
      BY <1>3, <2>1 DEF Sends
    <2>4. LastSent'
      BY <2>1, <2>2, <2>3 DEF LastSent
    <2>5. QED
      BY <1>1, <1>2, <1>7, <2>4 DEF Driver, Control
  <1>4. CASE Ends(w)
    <2>1. LastSent'
      BY <1>4 DEF Ends, LastSent
    <2>2. QED
      BY <1>1, <1>2, <1>7, <2>1 DEF Driver, Control
  <1>5. CASE Widens(w)
    <2>1. LastSent'
      BY <1>5 DEF Widens, LastSent
    <2>2. QED
      BY <1>1, <1>2, <1>7, <2>1 DEF Driver, Control
  <1>6. QED
    BY <1>3, <1>4, <1>5 DEF Driver

-----------------------------------------------------------------------------
(* What a step of a node does to its requests and its VMs. *)

\* e is what has become of the request d.
Advances(e, d) ==
    /\ e.id = d.id /\ e.by = d.by /\ e.kind = d.kind /\ e.node = d.node
    /\ e.step \in {"upload", "done"} /\ e.res \in {"", "ok", "error", "full"}
    /\ d \notin calls'
    /\ e.step = "done" /\ e.res = "full" =>
          /\ Starts(d, "create")
          /\ nodes[d.node].vm = "none" /\ nodes' = nodes
    /\ e.step = "upload" => Starts(d, "suspend") /\ nodes'[d.node].vm = "suspended"
    /\ e.kind = "suspend" /\ e.step = "done" /\ e.res = "ok" => d.step = "upload"
    /\ e.kind = "destroy" /\ e.step = "done" /\ e.res = "ok" =>
          Starts(d, "destroy") /\ nodes'[d.node].vm = "none"

NodeCalls ==
    /\ \A e \in calls' : e \in calls \/ \E d \in calls : Advances(e, d)
    /\ \A e, f \in calls' \ calls : e.by = f.by => e = f

\* A VM starts on behalf of a request only.
Births ==
    \A m \in Node :
        \/ nodes'[m].vm = nodes[m].vm
        \/ nodes'[m].vm = "none"
        \/ nodes[m].vm = "running" /\ nodes'[m].vm = "suspended"
        \/ \E c \in calls : /\ c.step = "queued" /\ c.kind \in {"create", "resume"}
                            /\ c.node = m

\* Until a node is lost every link is up.
Links ==
    NodesStay' => /\ NodesStay
                  /\ (\A n \in Node : Reachable(n)) => \A n \in Node : Reachable(n)'

NodeShape == NodeCalls /\ Births /\ Links

LEMMA AnswerCalls ==
    ASSUME calls \in SUBSET Call, NEW c \in calls, c.step # "done",
           NEW res \in {"ok", "error", "full"}, Answer(c, res),
           c.kind = "suspend" /\ res = "ok" => c.step = "upload",
           c.kind = "destroy" => /\ Starts(c, "destroy")
                                 /\ nodes'[c.node].vm = "none",
           res = "full" => /\ Starts(c, "create")
                           /\ nodes[c.node].vm = "none" /\ nodes' = nodes
    PROVE  NodeCalls
  <1>1. PICK r : r = [c EXCEPT !.step = "done",
                              !.res = IF Reachable(c.node) THEN res ELSE "error"]
    OBVIOUS
  <1>2. /\ r.id = c.id /\ r.by = c.by /\ r.kind = c.kind /\ r.node = c.node
        /\ r.step = "done" /\ r.res \in {res, "error"}
    BY <1>1 DEF Call
  <1>3. calls' = calls \ {c} \/ calls' = (calls \ {c}) \cup {r}
    BY <1>1 DEF Answer
  <1>4. c \notin calls'
    BY <1>2, <1>3
  <1>5. Advances(r, c)
    BY <1>2, <1>4 DEF Advances
  <1>6. QED
    BY <1>2, <1>3, <1>5 DEF NodeCalls

LEMMA CutCalls ==
    ASSUME calls \in SUBSET Call, AwaitedWaits, NEW n, Cut(n)
    PROVE  /\ NodeCalls
           /\ \A e \in calls' : e \in calls \/ e.step = "done"
  <1> DEFINE lost == {c \in calls : c.node = n /\ c.step # "done"}
             told(c) == [c EXCEPT !.step = "done", !.res = "error"]
  <1>1. \A c \in calls :
           /\ told(c).id = c.id /\ told(c).by = c.by /\ told(c).kind = c.kind
           /\ told(c).node = c.node /\ told(c).step = "done" /\ told(c).res = "error"
    BY DEF Call
  <1>2. calls' = (calls \ lost) \cup {told(c) : c \in {d \in lost : d.by # None}}
    BY DEF Cut
  <1>3. \A c \in lost : c \in calls /\ c.step # "done"
    OBVIOUS
  <1>4. \A e \in calls' : e \in calls \ lost \/
                            \E c \in lost : c.by # None /\ e = told(c)
    BY <1>2
  <1> HIDE DEF told, lost
  <1>5. \A c \in lost : c \notin calls'
    BY <1>1, <1>3, <1>4
  <1>6. \A c \in lost : Advances(told(c), c)
    BY <1>1, <1>3, <1>5 DEF Advances
  <1>7. \A e \in calls' : e \in calls \/ \E d \in calls : Advances(e, d)
    BY <1>3, <1>4, <1>6
  <1>8. \A e, f \in calls' \ calls : e.by = f.by => e = f
    BY <1>1, <1>3, <1>4 DEF AwaitedWaits
  <1>9. QED
    BY <1>1, <1>3, <1>4, <1>7, <1>8 DEF NodeCalls

LEMMA CreateShape ==
    ASSUME NodeTypeOK, NEW c, OpCreate(c)
    PROVE  /\ NodeCalls /\ Births
           /\ \A n \in Node : nodes'[n].link = nodes[n].link
           /\ budget' = budget \/ \E f \in Fault : Spend(f)
  <1>0. /\ calls \in SUBSET Call /\ c \in calls /\ c \in Call /\ c.step # "done"
        /\ c.kind = "create" /\ c.node \in Node /\ c.step = "queued"
        /\ Starts(c, "create")
    BY DEF NodeTypeOK, OpCreate, Starts, Call
  <1>1. NodeCalls
    BY <1>0, AnswerCalls DEF OpCreate, Vacant
  <1>2. \/ nodes' = nodes
        \/ Set(c.node, "running", 1, nodes[c.node].disk)
    BY DEF OpCreate
  <1>3. /\ \A m \in Node : nodes'[m].link = nodes[m].link
        /\ \A m \in Node \ {c.node} : nodes'[m] = nodes[m]
    BY <1>0, <1>2 DEF NodeTypeOK, Set
  <1>4. Births
    BY <1>0, <1>3 DEF Births
  <1>5. budget' = budget \/ \E f \in Fault : Spend(f)
    BY FaultKinds DEF OpCreate
  <1>6. QED
    BY <1>1, <1>3, <1>4, <1>5

LEMMA SuspendLocalShape ==
    ASSUME NodeTypeOK, NEW c, OpSuspendLocal(c)
    PROVE  /\ NodeCalls /\ Births
           /\ \A n \in Node : nodes'[n].link = nodes[n].link
           /\ budget' = budget \/ \E f \in Fault : Spend(f)
  <1>0. /\ calls \in SUBSET Call /\ c \in calls /\ c \in Call /\ c.step # "done"
        /\ c.kind = "suspend" /\ c.node \in Node /\ c.step = "queued"
        /\ Starts(c, "suspend")
    BY DEF NodeTypeOK, OpSuspendLocal, Starts, Call
  <1>1. CASE Answer(c, "error") /\ nodes' = nodes
    <2>1. NodeCalls
      BY <1>0, <1>1, AnswerCalls
    <2>2. QED
      BY <1>1, <2>1, FaultKinds DEF Births, OpSuspendLocal
  <1>2. CASE /\ nodes[c.node].vm = "running"
             /\ Set(c.node, "suspended", 0, nodes[c.node].mem)
             /\ calls' = (calls \ {c}) \cup {[c EXCEPT !.step = "upload"]}
             /\ UNCHANGED budget
    <2>1. PICK r : r = [c EXCEPT !.step = "upload"]
      OBVIOUS
    <2>2. /\ r.id = c.id /\ r.by = c.by /\ r.kind = c.kind /\ r.node = c.node
          /\ r.step = "upload" /\ r.res = c.res
      BY <1>0, <2>1 DEF Call
    <2>3. calls' = (calls \ {c}) \cup {r}
      BY <1>2, <2>1
    <2>4. /\ \A m \in Node : nodes'[m].link = nodes[m].link
          /\ \A m \in Node \ {c.node} : nodes'[m] = nodes[m]
          /\ nodes'[c.node].vm = "suspended"
      BY <1>0, <1>2 DEF NodeTypeOK, Set
    <2>5. Births
      BY <1>0, <1>2, <2>4 DEF Births
    <2>6. c \notin calls'
      BY <1>0, <2>2, <2>3
    <2>7. Advances(r, c)
      BY <1>0, <2>2, <2>4, <2>6 DEF Advances, Call
    <2>8. NodeCalls
      BY <1>0, <2>3, <2>7 DEF NodeCalls
    <2>9. QED
      BY <1>2, <2>4, <2>5, <2>8
  <1>3. QED
    BY <1>1, <1>2 DEF OpSuspendLocal

LEMMA UploadShape ==
    ASSUME NodeTypeOK, NEW c, OpSuspendUpload(c), c.kind # "destroy"
    PROVE  /\ NodeCalls /\ Births
           /\ \A n \in Node : nodes'[n].link = nodes[n].link
           /\ budget' = budget \/ \E f \in Fault : Spend(f)
  <1>0. /\ calls \in SUBSET Call /\ c \in calls /\ c.step = "upload"
        /\ c.kind # "destroy"
    BY DEF NodeTypeOK, OpSuspendUpload
  <1>1. Answer(c, "ok") \/ Answer(c, "error")
    BY DEF OpSuspendUpload
  <1>2. NodeCalls
    BY <1>0, <1>1, AnswerCalls
  <1>3. QED
    BY <1>2, FaultKinds DEF Births, OpSuspendUpload

LEMMA ResumeShape ==
    ASSUME NodeTypeOK, NEW c, OpResume(c)
    PROVE  /\ NodeCalls /\ Births
           /\ \A n \in Node : nodes'[n].link = nodes[n].link
           /\ budget' = budget \/ \E f \in Fault : Spend(f)
  <1>0. /\ calls \in SUBSET Call /\ c \in calls /\ c.step # "done"
        /\ c.kind = "resume" /\ c.node \in Node /\ c.step = "queued"
    BY DEF NodeTypeOK, OpResume, Starts, Call
  <1>1. Answer(c, "ok") \/ Answer(c, "error")
    BY DEF OpResume
  <1>2. NodeCalls
    BY <1>0, <1>1, AnswerCalls
  <1>3. \/ nodes' = nodes
        \/ Set(c.node, "running", Source(c.node), Source(c.node))
        \/ Set(c.node, nodes[c.node].vm, 0, Source(c.node))
    BY DEF OpResume
  <1>4. /\ \A m \in Node : nodes'[m].link = nodes[m].link
        /\ \A m \in Node \ {c.node} : nodes'[m] = nodes[m]
    BY <1>0, <1>3 DEF NodeTypeOK, Set
  <1>5. Births
    BY <1>0, <1>4 DEF Births
  <1>6. budget' = budget \/ \E f \in Fault : Spend(f)
    BY FaultKinds DEF OpResume
  <1>7. QED
    BY <1>2, <1>4, <1>5, <1>6

LEMMA DestroyShape ==
    ASSUME NodeTypeOK, NEW c, OpDestroy(c)
    PROVE  /\ NodeCalls /\ Births
           /\ \A n \in Node : nodes'[n].link = nodes[n].link
           /\ budget' = budget
  <1>0. /\ calls \in SUBSET Call /\ c \in calls /\ c.step # "done"
        /\ c.kind = "destroy" /\ c.node \in Node /\ Starts(c, "destroy")
    BY DEF NodeTypeOK, OpDestroy, Starts, Call
  <1>1. /\ \A m \in Node : nodes'[m].link = nodes[m].link
        /\ \A m \in Node \ {c.node} : nodes'[m] = nodes[m]
        /\ nodes'[c.node].vm = "none"
    BY <1>0 DEF NodeTypeOK, OpDestroy, Set
  <1>2. NodeCalls
    BY <1>0, <1>1, AnswerCalls DEF OpDestroy
  <1>3. Births
    BY <1>1 DEF Births
  <1>4. QED
    BY <1>1, <1>2, <1>3 DEF OpDestroy

\* Every step of a node.
LEMMA NodeSteps ==
    ASSUME NodeTypeOK, AwaitedWaits, Spending,
           \A c \in calls : c.step = "upload" => c.kind # "destroy",
           NodeNext
    PROVE  /\ NodeShape
           /\ budget' = budget \/ \E f \in Fault : Spend(f)
  <1>0. /\ calls \in SUBSET Call /\ budget \in [Fault -> Nat]
        /\ nodes \in [Node -> [link : {"up", "silent", "gone"},
                               vm   : {"none", "running", "suspended"},
                               mem  : Version,
                               disk : Version]]
    BY DEF NodeTypeOK
  <1>1. ASSUME budget' = budget \/ \E f \in Fault : Spend(f),
               \A n \in Node : nodes'[n].link = nodes[n].link
        PROVE  Links
    BY <1>0, <1>1, Spends DEF Links, Reachable
  <1>2. CASE Handler
    <2>1. PICK c \in calls : \/ OpCreate(c) \/ OpSuspendLocal(c)
                             \/ OpSuspendUpload(c) \/ OpResume(c) \/ OpDestroy(c)
      BY <1>2 DEF Handler
    <2>2. OpSuspendUpload(c) => c.kind # "destroy"
      BY DEF OpSuspendUpload
    <2>3. QED
      BY <1>1, <2>1, <2>2, CreateShape, SuspendLocalShape, UploadShape, ResumeShape,
         DestroyShape DEF NodeShape
  <1>3. ASSUME calls' = calls
        PROVE  NodeCalls
    BY <1>3 DEF NodeCalls
  <1>4. ASSUME NEW n \in Node, GuestWrite(n)
        PROVE  NodeShape /\ budget' = budget
    <2>1. \A m \in Node : nodes'[m].vm = nodes[m].vm /\ nodes'[m].link = nodes[m].link
      BY <1>0, <1>4 DEF GuestWrite
    <2>2. QED
      BY <1>1, <1>3, <1>4, <2>1 DEF GuestWrite, Births, NodeShape
  <1>5. ASSUME NEW n \in Node, AgentRestart(n)
        PROVE  NodeShape /\ \E f \in Fault : Spend(f)
    <2>1. \A m \in Node : /\ nodes'[m].vm \in {nodes[m].vm, "none"}
                          /\ nodes'[m].link = nodes[m].link
      BY <1>0, <1>5 DEF AgentRestart
    <2>2. \E f \in Fault : Spend(f)
      BY <1>5, FaultKinds DEF AgentRestart
    <2>3. NodeCalls
      BY <1>0, <1>5, CutCalls DEF AgentRestart
    <2>4. QED
      BY <1>1, <2>1, <2>2, <2>3 DEF Births, NodeShape
  <1>6. ASSUME NEW n \in Node, Partition(n) \/ Death(n)
        PROVE  NodeShape /\ \E f \in Fault : Spend(f)
    <2>1. \A m \in Node : nodes'[m].vm \in {nodes[m].vm, "none"}
      BY <1>0, <1>6 DEF Partition, Death
    <2>2. \E f \in {"partition", "death"} : Spend(f)
      BY <1>6 DEF Partition, Death
    <2>3. \A f \in {"partition", "death"} : f \in Fault
      BY DEF Fault
    <2>4. NodeCalls
      BY <1>0, <1>3, <1>6, CutCalls DEF Partition, Death
    <2>5. ~NodesStay'
      <3>1. PICK f \in {"partition", "death"} : Spend(f)
        BY <2>2
      <3>2. budget[f] \in Nat /\ Budget[f] \in Nat /\ budget[f] <= Budget[f]
        BY <1>0, <2>3, NodeAgentAssumption DEF Spending
      <3>3. budget'[f] # Budget[f]
        BY <1>0, <2>3, <3>1, <3>2 DEF Spend
      <3>4. QED
        BY <3>3 DEF NodesStay
    <2>6. QED
      BY <2>1, <2>2, <2>3, <2>4, <2>5 DEF Births, Links, NodeShape
  <1>7. ASSUME NEW n \in Node, HeartbeatExpire(n) \/ NodeReturn(n)
        PROVE  NodeShape /\ budget' = budget
    <2>1. /\ \A m \in Node : nodes'[m].vm = nodes[m].vm
          /\ nodes[n].link # "up"
          /\ budget' = budget /\ calls' = calls
      BY <1>0, <1>7 DEF HeartbeatExpire, NodeReturn, Reachable
    <2>2. Links
      BY <2>1 DEF Links, Reachable, NodesStay
    <2>3. QED
      BY <1>3, <2>1, <2>2 DEF Births, NodeShape
  <1>8. QED
    BY <1>2, <1>4, <1>5, <1>6, <1>7, CreateShape, SuspendLocalShape, UploadShape,
       ResumeShape DEF NodeNext, NodeFault

-----------------------------------------------------------------------------
(* The other steps. *)

\* A crash leaves what its replica asked for to itself, or loses it.
Crashes(w) ==
    /\ Others(w) /\ worker'[w].pc = "idle"
    /\ \A r : StageOf(worker'[w], r)
    /\ worker[w].pc # "idle"
    /\ UNCHANGED <<nodes, s3, latest, cr, rec, holder>>
    /\ \E f \in Fault : Spend(f)
    /\ \A e \in calls' : \E d \in calls :
          /\ e.id = d.id /\ e.kind = d.kind /\ e.node = d.node
          /\ e.step = d.step /\ e.res = d.res
          /\ \/ e = d /\ d.by # w
             \/ e.by = None /\ d.by = w

LEMMA CrashShape ==
    ASSUME Base, NEW w \in Worker, Crash(w)
    PROVE  Crashes(w)
  <1>0. TypeOK /\ calls \in SUBSET Call
    BY BaseFacts
  <1> DEFINE cut(c) == [c EXCEPT !.by = None]
  <1>1. \A c \in calls :
           /\ cut(c).by = None /\ cut(c).id = c.id /\ cut(c).kind = c.kind
           /\ cut(c).node = c.node /\ cut(c).step = c.step /\ cut(c).res = c.res
    BY <1>0 DEF Call
  <1>2. \A e \in calls' : \/ e \in calls /\ e.by # w
                          \/ \E c \in calls : c.by = w /\ e = cut(c)
    BY DEF Crash
  <1> HIDE DEF cut
  <1>3. \A e \in calls' : \E d \in calls :
          /\ e.id = d.id /\ e.kind = d.kind /\ e.node = d.node
          /\ e.step = d.step /\ e.res = d.res
          /\ \/ e = d /\ d.by # w
             \/ e.by = None /\ d.by = w
    BY <1>1, <1>2
  <1>4. \E f \in Fault : Spend(f)
    BY FaultKinds DEF Crash
  <1>5. Others(w) /\ worker'[w].pc = "idle" /\ \A r : StageOf(worker'[w], r)
    BY <1>0, Finished DEF Crash
  <1>6. QED
    BY <1>3, <1>4, <1>5 DEF Crash, Crashes

LEMMA CrashControl ==
    ASSUME Base, NEW w \in Worker, Crashes(w)
    PROVE  Control'
  <1>0. TypeOK /\ FenceInv /\ Control /\ budget \in [Fault -> Nat]
        /\ calls \in SUBSET Call
    BY BaseFacts DEF TypeOK, NodeTypeOK
  <1>1. Undeleted'
    BY <1>0 DEF Control, Undeleted, Crashes, Others
  <1>2. Placed' /\ Spending'
    BY <1>0, Spends DEF Control, Placed, Crashes
  <1>3. StageInv'
    BY <1>0 DEF Control, StageInv, Crashes, Others
  <1>4. LastSent'
    <2> SUFFICES ASSUME NEW e \in calls', e.by # None
                 PROVE  /\ e.kind = worker'[e.by].job
                        /\ e.step = "done" /\ e.res = "full" => e.kind = "create"
                        /\ \A f \in calls' : f # e => f.id < e.id
      BY DEF LastSent
    <2>1. e \in calls /\ e.by # w /\ e.by \in Worker
      BY <1>0 DEF Crashes, Call
    <2>2. /\ e.kind = worker'[e.by].job
          /\ e.step = "done" /\ e.res = "full" => e.kind = "create"
          /\ \A d \in calls : d # e => d.id < e.id
      BY <1>0, <2>1 DEF Control, LastSent, Crashes, Others
    <2>3. ASSUME NEW f \in calls', f # e
          PROVE  f.id < e.id
      <3>1. PICK d \in calls : f.id = d.id /\ (f = d \/ d.by = w)
        BY DEF Crashes
      <3>2. QED
        BY <2>1, <2>2, <2>3, <3>1
    <2>4. QED
      BY <2>2, <2>3
  <1>5. QED
    BY <1>1, <1>2, <1>3, <1>4 DEF Control

LEMMA NodeControl ==
    ASSUME Base, NodeStep
    PROVE  Control'
  <1>0. /\ NodeTypeOK /\ AwaitedWaits /\ Control /\ budget \in [Fault -> Nat]
        /\ \A c \in calls : c.kind # "destroy"
    BY DEF Base, TypeOK, NodeTypeOK, FenceInv, Control, Undeleted
  <1>1. /\ NodeCalls
        /\ budget' = budget \/ \E f \in Fault : Spend(f)
    BY <1>0, NodeSteps DEF NodeStep, Control, NodeShape
  <1>2. Undeleted' /\ Placed' /\ StageInv'
    <2>1. \A c \in calls' : \E d \in calls : c.kind = d.kind
      BY <1>1 DEF NodeCalls, Advances
    <2>2. QED
      BY <1>0, <2>1 DEF Control, Undeleted, Placed, StageInv, NodeStep
  <1>3. Spending'
    BY <1>0, <1>1, Spends DEF Control
  <1>4. LastSent'
    <2> SUFFICES ASSUME NEW e \in calls', e.by # None
                 PROVE  /\ e.kind = worker[e.by].job
                        /\ e.step = "done" /\ e.res = "full" => e.kind = "create"
                        /\ \A f \in calls' : f # e => f.id < e.id
      BY DEF LastSent, NodeStep
    <2>1. CASE e \in calls
      <3>1. /\ e.kind = worker[e.by].job
            /\ e.step = "done" /\ e.res = "full" => e.kind = "create"
            /\ \A d \in calls : d # e => d.id < e.id
        BY <1>0, <2>1 DEF Control, LastSent
      <3>2. \A f \in calls' : f # e => \E d \in calls : d # e /\ d.id = f.id
        BY <1>1, <2>1 DEF NodeCalls, Advances
      <3>3. QED
        BY <3>1, <3>2
    <2>2. CASE e \notin calls
      <3>1. PICK c \in calls : Advances(e, c)
        BY <1>1, <2>2 DEF NodeCalls
      <3>2. /\ e.id = c.id /\ e.by = c.by /\ e.kind = c.kind
            /\ e.step = "done" /\ e.res = "full" => c.kind = "create"
            /\ c \notin calls'
        BY <3>1 DEF Advances, Starts
      <3>3. c.kind = worker[c.by].job /\ \A d \in calls : d # c => d.id < c.id
        BY <1>0, <3>2 DEF Control, LastSent
      <3>4. ASSUME NEW f \in calls', f # e
            PROVE  \E d \in calls : d # c /\ d.id = f.id
        <4>1. CASE f \in calls
          BY <3>2, <4>1
        <4>2. CASE f \notin calls
          <5>1. PICK d \in calls : Advances(f, d)
            BY <1>1, <4>2 DEF NodeCalls
          <5>2. f.by # e.by
            BY <1>1, <2>2, <3>4, <4>2 DEF NodeCalls
          <5>3. f.id = d.id /\ f.by = d.by
            BY <5>1 DEF Advances
          <5>4. QED
            BY <3>2, <5>2, <5>3
        <4>3. QED
          BY <4>1, <4>2
      <3>5. QED
        BY <3>2, <3>3, <3>4
    <2>3. QED
      BY <2>1, <2>2
  <1>5. QED
    BY <1>2, <1>3, <1>4 DEF Control

LEMMA ApiControl ==
    ASSUME Base, ~MayDelete, Api
    PROVE  /\ Control'
           /\ UNCHANGED <<nodeVars, holder, worker>>
           /\ rec'.node = rec.node /\ rec'.state = rec.state
  <1>0. rec \in Rec /\ cr \in CR /\ Control
    BY BaseFacts
  <1>1. UNCHANGED <<nodeVars, holder, worker>>
    BY DEF Api, EnsureCR, CreateRefused, ApiSuspend, ApiResume, RequestIdle, ApiDelete,
       RequestState
  <1>2. CASE CreateRefused
    <2>1. /\ rec = [NoRec EXCEPT !.alive = TRUE] /\ rec' = NoRec
          /\ ~cr.alive /\ cr' = cr
      BY <1>2 DEF CreateRefused
    <2>2. rec'.node = rec.node /\ rec'.state = rec.state
      BY <2>1 DEF NoRec
    <2>3. Undeleted' /\ Placed'
      BY <1>0, <1>1, <2>1, <2>2 DEF Control, Undeleted, Placed, nodeVars
    <2>4. StageInv'
      BY <1>0, <1>1, <2>2 DEF Control, StageInv, StageOf
    <2>5. LastSent' /\ Spending'
      BY <1>0, <1>1 DEF Control, LastSent, Spending, nodeVars
    <2>6. QED
      BY <1>1, <2>2, <2>3, <2>4, <2>5 DEF Control
  <1>3. CASE EnsureCR
    BY <1>0, <1>1, <1>3 DEF EnsureCR, Control, Undeleted, Placed, PlacedState,
       StageInv, LastSent, Spending, NoCR, nodeVars
  <1>4. CASE ApiSuspend \/ ApiResume \/ RequestIdle
    <2>1. cr'.alive = cr.alive /\ cr'.deleting = cr.deleting /\ rec' = rec
      BY <1>0, <1>4 DEF ApiSuspend, ApiResume, RequestIdle, RequestState, CR
    <2>2. QED
      BY <1>0, <1>1, <2>1 DEF Control, Undeleted, Placed, StageInv, LastSent, Spending,
         nodeVars
  <1>5. QED
    BY <1>2, <1>3, <1>4 DEF Api, ApiDelete

\* When a lease runs out nobody is past it, and no request is queued any more.
LEMMA ExpiredLease ==
    ASSUME Base, ExpireLease
    PROVE  /\ UNCHANGED <<nodeVars, cr, rec, worker>>
           /\ holder' = None
           /\ \A c \in calls : c.by = None /\ c.step = "upload"
  <1>0. TypeOK /\ FenceInv
    BY DEF Base
  <1>1. \A w \in Worker : worker[w].pc \notin Leased
    BY <1>0, NobodyLeased DEF ExpireLease, FenceInv
  <1>2. \A c \in calls : c.by = None
    BY <1>0, <1>1 DEF FenceInv, AwaitedWaits, Leased, TypeOK, NodeTypeOK, Call
  <1>3. QED
    BY <1>2 DEF ExpireLease

LEMMA ControlStep ==
    ASSUME Base, ~MayDelete, [Next]_vars
    PROVE  Control'
  <1>1. CASE Api
    BY <1>1, ApiControl
  <1>2. ASSUME NEW w \in Worker, Step(w) \/ Timeout(w)
        PROVE  Control'
    BY <1>2, LocalSteps, LocalControl, DriverSteps, DriverControl DEF Step
  <1>3. ASSUME NEW w \in Worker, Crash(w)
        PROVE  Control'
    BY <1>3, CrashShape, CrashControl
  <1>4. CASE ExpireLease
    BY <1>4, ExpiredLease DEF Base, Control, Undeleted, Placed, StageInv, LastSent,
       Spending, nodeVars
  <1>5. CASE NodeStep
    BY <1>5, NodeControl
  <1>6. CASE UNCHANGED vars
    BY <1>6 DEF vars, Base, Control, Undeleted, Placed, StageInv, LastSent, Spending
  <1>7. QED
    BY <1>1, <1>2, <1>3, <1>4, <1>5, <1>6 DEF Next

LEMMA BaseStep ==
    ASSUME Base, ~MayDelete, [Next]_vars
    PROVE  Base'
  BY ControlStep, NextTyped, FenceStep DEF Base

LEMMA BaseInitially == Init => Base
  <1> SUFFICES ASSUME Init
               PROVE  Base
    OBVIOUS
  <1>1. rec.node = None /\ rec.alive /\ rec.state = "creating"
    BY DEF Init, NoRec
  <1>2. \A w \in Worker : worker[w] = Idle
    BY DEF Init
  <1>3. StageInv
    BY <1>2 DEF StageInv, StageOf, Idle, NoCR
  <1>4. Undeleted /\ Placed /\ LastSent
    BY <1>1, <1>2 DEF Init, NodeInit, NoCR, Undeleted, Placed, PlacedState, LastSent, Idle
  <1>5. Spending
    BY NodeAgentAssumption DEF Init, NodeInit, Spending
  <1>6. QED
    BY <1>3, <1>4, <1>5, InitTyped, FenceInitially DEF Base, Control

-----------------------------------------------------------------------------
(* Where the guest is, as long as no node is lost. *)

NoneStarts ==
    \A c \in calls : c.step = "queued" => c.kind \notin {"create", "resume"}

Clear == NoneStarts /\ \A n \in Node : nodes[n].vm = "none"

Quiet == NoneStarts /\ \A n \in Node : nodes[n].vm # "running"

\* The runtime entry is on the record's node, and so is every request that can
\* make one: before a create goes on to another node, nothing is left that
\* could start a guest on the one that turned it away.
Sited ==
    /\ \A n \in Node : Reachable(n)
    /\ \A n \in Node : nodes[n].vm # "none" => rec.node = n
    /\ \A c \in calls :
          c.by # None \/ (c.step = "queued" /\ c.kind \in {"create", "resume"})
              => c.node = rec.node
    /\ \A c \in calls : c.by # None /\ c.step = "done" /\ c.res = "full" => Clear
    /\ \A w \in Worker : worker[w].pc = "call" /\ rec.node \in worker[w].full => Clear

\* A suspend that has stopped the VM finds nothing queued that could start it
\* again; a create or resume that was given up can outlive only a suspend that
\* has not got so far, whose replica or whose lease is still there.
Stopped ==
    /\ \A c \in calls :
          /\ c.by # None /\ c.kind = "suspend" /\ c.step = "upload" => Quiet
          /\ c.by # None /\ c.kind = "suspend" /\ c.step = "done" /\ c.res = "ok" => Quiet
    /\ rec.state = "suspended" => Quiet
    /\ rec.state = "suspending" /\ ~NoneStarts =>
          /\ holder # None
          /\ worker[holder].pc \in Leased =>
                worker[holder].pc \in {"call", "wait"} /\ worker[holder].job = "suspend"

\* A replica at work under the lease on a record that is still "suspending"
\* finds nothing queued that could start the VM.
LEMMA WorkQuiet ==
    ASSUME Base, Stopped, NEW w \in Worker, worker[w].pc = "work",
           rec.state = "suspending"
    PROVE  NoneStarts
  <1>1. holder = w /\ worker[w].pc \in Leased
    BY DEF Base, FenceInv, HolderAtWork, Leased
  <1>2. QED
    BY <1>1 DEF Stopped

LEMMA RecoveredQuiet ==
    ASSUME Base, Sited, Stopped, NEW w \in Worker, worker[w].pc = "work",
           rec.state = "suspending", Probe(rec.node) = "suspended"
    PROVE  Quiet
  <1>1. rec.node # None => nodes[rec.node].vm = "suspended"
    BY DEF Probe
  <1>2. QED
    BY <1>1, WorkQuiet DEF Quiet, Sited, Probe

LEMMA LocalSites ==
    ASSUME Base, Sited, Stopped, NEW w \in Worker, Local(w)
    PROVE  Sited' /\ Stopped'
  <1>0. /\ TypeOK /\ FenceInv
        /\ nodes' = nodes /\ calls' = calls /\ rec'.node = rec.node
        /\ \A v \in Worker \ {w} : worker'[v] = worker[v]
        /\ w # None /\ holder \in Worker \cup {None}
    BY NodeAgentAssumption DEF Base, Local, Others, nodeVars, TypeOK
  <1>1. (NoneStarts <=> NoneStarts') /\ (Clear <=> Clear') /\ (Quiet <=> Quiet')
    BY <1>0 DEF NoneStarts, Clear, Quiet
  <1>2. worker'[w].pc = "call" => worker'[w].full = {}
    BY DEF Local, Outside, Enters, Goes, Stops, Leased
  <1>3. Sited'
    BY <1>0, <1>1, <1>2 DEF Sited, Reachable
  <1>4. worker[w].pc \in {"work", "mark"} => holder = w
    BY <1>0 DEF FenceInv, HolderAtWork, Leased
  <1>5. rec.state = "suspending" /\ worker[w].pc = "work" => NoneStarts
    BY WorkQuiet
  <1>6. rec'.state = "suspended" => Quiet
    <2>1. CASE rec'.state = rec.state
      BY <2>1 DEF Stopped
    <2>2. QED
      BY <2>1, RecoveredQuiet DEF Local, Outside, Enters, Goes, Stops
  <1>7. ASSUME rec'.state = "suspending", ~NoneStarts
        PROVE  /\ holder' # None
               /\ worker'[holder'].pc \in Leased =>
                     /\ worker'[holder'].pc \in {"call", "wait"}
                     /\ worker'[holder'].job = "suspend"
    <2>1. CASE Outside(w)
      <3>1. rec.state = "suspending" /\ holder' = holder
        BY <1>7, <2>1 DEF Outside
      <3>2. QED
        BY <1>0, <1>7, <2>1, <3>1 DEF Outside, Stopped
    <2>2. CASE Enters(w)
      BY <1>7, <2>2 DEF Enters, Stopped
    <2>3. CASE Goes(w)
      BY <1>0, <1>4, <1>7, <2>3 DEF Goes
    <2>4. CASE Stops(w)
      BY <1>5, <1>7, <2>4 DEF Stops
    <2>5. QED
      BY <2>1, <2>2, <2>3, <2>4 DEF Local
  <1>8. Stopped'
    BY <1>0, <1>1, <1>6, <1>7 DEF Stopped
  <1>9. QED
    BY <1>3, <1>8

LEMMA SendsSites ==
    ASSUME Base, Sited, Stopped, NEW w \in Worker, Driver(w), Sends(w)
    PROVE  Sited' /\ Stopped'
  <1>0. /\ TypeOK /\ FenceInv /\ rec \in Rec /\ calls \in SUBSET Call
        /\ nodes' = nodes /\ rec'.state = rec.state /\ holder' = holder
        /\ \A v \in Worker \ {w} : worker'[v] = worker[v]
        /\ worker'[w].pc = "wait" /\ worker'[w].job = worker[w].job
        /\ StageOf(worker[w], rec) /\ worker[w].pc = "call" /\ worker[w].pc \in Leased
        /\ w # None
    BY BaseFacts, NodeAgentAssumption
       DEF Driver, Others, Sends, Control, StageInv
  <1>1. PICK c \in Call :
          /\ calls' = calls \cup {c}
          /\ c.by = w /\ c.kind = worker[w].job /\ c.step = "queued"
          /\ \/ rec.node # None /\ ~Reachable(rec.node)
             \/ /\ c.node = rec'.node
                /\ \/ rec'.node = rec.node
                   \/ rec.node = None
                   \/ rec.node \in worker[w].full
    BY DEF Sends
  <1>2. /\ c.node = rec'.node
        /\ rec'.node = rec.node \/ rec.node = None \/ rec.node \in worker[w].full
    BY <1>0, <1>1 DEF Sited, Rec
  <1>3. holder = w /\ \A v \in Worker \ {w} : worker[v].pc # "call"
    BY <1>0 DEF FenceInv, HolderAtWork, Leased
  <1>4. \A d \in calls : d.by = None
    BY <1>0, NobodyAwaits
  <1>5. rec'.node = rec.node \/ Clear
    <2>1. CASE rec.node = None
      <3>1. \A d \in calls : d.node # None
        BY <1>0, CallFields
      <3>2. \A n \in Node : n # None
        BY NodeAgentAssumption
      <3>3. QED
        BY <1>0, <2>1, <3>1, <3>2 DEF Sited, Clear, NoneStarts, TypeOK, NodeTypeOK
    <2>2. QED
      BY <1>0, <1>2, <2>1 DEF Sited
  <1>6. Sited'
    <2>1. \A n \in Node : Reachable(n)' /\ (nodes'[n].vm # "none" => rec'.node = n)
      BY <1>0, <1>5 DEF Sited, Reachable, Clear
    <2>2. \A d \in calls' :
             d.by # None \/ (d.step = "queued" /\ d.kind \in {"create", "resume"})
                 => d.node = rec'.node
      BY <1>1, <1>2, <1>4, <1>5 DEF Sited, Clear, NoneStarts
    <2>3. \A d \in calls' : ~(d.by # None /\ d.step = "done")
      BY <1>1, <1>4
    <2>4. \A v \in Worker : worker'[v].pc # "call"
      BY <1>0, <1>3
    <2>5. QED
      BY <2>1, <2>2, <2>3, <2>4 DEF Sited
  <1>7. Stopped'
    <2>1. \A d \in calls' : ~(d.by # None /\ d.step \in {"upload", "done"})
      BY <1>1, <1>4
    <2>2. rec'.state \in {"suspended", "suspending"} => c.kind = "suspend"
      BY <1>0, <1>1 DEF StageOf
    <2>3. rec'.state \in {"suspended", "suspending"} => (NoneStarts => NoneStarts')
      BY <1>1, <2>2 DEF NoneStarts
    <2>4. rec'.state = "suspended" => Quiet'
      BY <1>0, <2>3 DEF Stopped, Quiet
    <2>5. QED
      BY <1>0, <1>1, <1>3, <2>1, <2>2, <2>4 DEF Stopped
  <1>8. QED
    BY <1>6, <1>7

LEMMA EndsSites ==
    ASSUME Base, Sited, Stopped, NEW w \in Worker, Driver(w), Ends(w)
    PROVE  Sited' /\ Stopped'
  <1>0. /\ FenceInv /\ nodes' = nodes /\ worker[w].pc \in Leased
        /\ \A v \in Worker \ {w} : worker'[v] = worker[v]
        /\ worker'[w].pc = "idle"
    BY DEF Base, Driver, Others, Ends
  <1>1. \A v \in Worker : worker'[v].pc # "call"
    BY <1>0 DEF FenceInv, HolderAtWork, Leased
  <1>2. rec'.node = rec.node
    BY DEF Ends, Sited
  <1>3. \A e \in calls' :
           /\ e.by = None
           /\ \E d \in calls : d.kind = e.kind /\ d.node = e.node /\ d.step = e.step
    BY DEF Ends
  <1>4. (NoneStarts => NoneStarts') /\ (Quiet => Quiet')
    BY <1>0, <1>3 DEF NoneStarts, Quiet
  <1>5. Sited'
    BY <1>0, <1>1, <1>2, <1>3 DEF Sited, Reachable
  <1>6. rec'.state \notin {"running", "failed"} => Quiet
    BY DEF Ends, Stopped
  <1>7. Stopped'
    BY <1>3, <1>4, <1>6 DEF Stopped, Quiet
  <1>8. QED
    BY <1>5, <1>7

LEMMA WidensSites ==
    ASSUME Base, Sited, Stopped, NEW w \in Worker, Driver(w), Widens(w)
    PROVE  Sited' /\ Stopped'
  <1>1. Clear /\ nodes' = nodes /\ rec' = rec /\ calls' \subseteq calls
        /\ \A c \in calls' : c.by = None
    BY DEF Widens, Sited
  <1>2. Clear' /\ Quiet' /\ NoneStarts'
    BY <1>1 DEF Clear, Quiet, NoneStarts
  <1>3. QED
    BY <1>1, <1>2 DEF Sited, Stopped, Reachable

LEMMA CrashSites ==
    ASSUME Base, Sited, Stopped, NEW w \in Worker, Crashes(w)
    PROVE  Sited' /\ Stopped'
  <1>0. /\ nodes' = nodes /\ rec' = rec /\ holder' = holder
        /\ \A v \in Worker \ {w} : worker'[v] = worker[v]
        /\ worker'[w].pc = "idle"
        /\ holder \in Worker \cup {None}
    BY BaseFacts DEF Crashes, Others
  <1>1. \A e \in calls' : \E d \in calls :
           /\ e.kind = d.kind /\ e.node = d.node /\ e.step = d.step /\ e.res = d.res
           /\ e.by # None => e = d
    BY DEF Crashes
  <1>2. (NoneStarts => NoneStarts') /\ (Quiet => Quiet') /\ (Clear => Clear')
    BY <1>0, <1>1 DEF NoneStarts, Quiet, Clear
  <1>3. Sited'
    BY <1>0, <1>1, <1>2 DEF Sited, Reachable
  <1>4. Stopped'
    BY <1>0, <1>1, <1>2 DEF Stopped, Leased
  <1>5. QED
    BY <1>3, <1>4

LEMMA NodeSites ==
    ASSUME Base, Sited, Stopped, NodeStep, NodesStay'
    PROVE  Sited' /\ Stopped'
  <1>0. /\ rec' = rec /\ holder' = holder /\ worker' = worker
        /\ NodeTypeOK /\ AwaitedWaits /\ Control /\ calls \in SUBSET Call
        /\ \A c \in calls : c.kind # "destroy"
    BY BaseFacts DEF Base, TypeOK, NodeTypeOK, FenceInv, Control, Undeleted, NodeStep
  <1>1. NodeShape
    BY <1>0, NodeSteps DEF NodeStep, Control
  <1>2. \A n \in Node : Reachable(n)'
    BY <1>1 DEF NodeShape, Links, Sited
  <1>3. \A e \in calls' : e \in calls \/ \E d \in calls : Advances(e, d)
    BY <1>1 DEF NodeShape, NodeCalls
  <1>4. \A e \in calls' : e.step = "queued" => e \in calls
    BY <1>3 DEF Advances
  <1>5. NoneStarts => NoneStarts'
    BY <1>4 DEF NoneStarts
  <1>6. Clear => Clear'
    BY <1>1, <1>5 DEF Clear, NoneStarts, NodeShape, Births
  <1>7. Quiet => Quiet'
    BY <1>1, <1>5 DEF Quiet, NoneStarts, NodeShape, Births
  <1>8. \A n \in Node : nodes'[n].vm # "none" => rec.node = n
    BY <1>1 DEF NodeShape, Births, Sited
  \* What an awaited request is ahead of: it was sent last.
  <1>9. ASSUME NEW d \in calls, d.by # None, NEW kind, Starts(d, kind),
               NEW c \in calls, c # d, c.step = "queued", c.kind \in {"create", "resume"}
        PROVE  FALSE
    <2>1. c.node = d.node
      BY <1>9 DEF Sited
    <2>2. d.id <= c.id
      BY <1>9, <2>1 DEF Starts
    <2>3. c.id < d.id
      BY <1>0, <1>9 DEF Control, LastSent
    <2>4. c.id \in Int /\ d.id \in Int
      BY <1>0, CallFields
    <2>5. QED
      BY <2>2, <2>3, <2>4
  <1>10. ASSUME NEW e \in calls', e.by # None, e.step = "done", e.res = "full"
         PROVE  Clear'
    <2>1. CASE e \in calls
      BY <1>6, <1>10, <2>1 DEF Sited
    <2>2. CASE e \notin calls
      <3>1. PICK d \in calls : Advances(e, d)
        BY <1>3, <2>2
      <3>2. /\ d.by # None /\ Starts(d, "create") /\ d \notin calls'
            /\ nodes[d.node].vm = "none" /\ nodes' = nodes
        BY <1>10, <3>1 DEF Advances
      <3>3. NoneStarts'
        BY <1>4, <1>9, <3>2 DEF NoneStarts
      <3>4. d.node = rec.node
        BY <3>2 DEF Sited
      <3>5. QED
        BY <3>2, <3>3, <3>4 DEF Clear, Sited
    <2>3. QED
      BY <2>1, <2>2
  <1>11. Sited'
    <2>1. ASSUME NEW e \in calls',
                 e.by # None \/ (e.step = "queued" /\ e.kind \in {"create", "resume"})
          PROVE  e.node = rec.node
      <3>1. CASE e \in calls
        BY <2>1, <3>1 DEF Sited
      <3>2. CASE e \notin calls
        <4>1. PICK d \in calls : Advances(e, d)
          BY <1>3, <3>2
        <4>2. e.by = d.by /\ e.node = d.node /\ e.step # "queued"
          BY <4>1 DEF Advances
        <4>3. QED
          BY <2>1, <4>2 DEF Sited
      <3>3. QED
        BY <3>1, <3>2
    <2>2. \A w \in Worker : worker[w].pc = "call" /\ rec.node \in worker[w].full => Clear'
      BY <1>6 DEF Sited
    <2>3. QED
      BY <1>0, <1>2, <1>8, <1>10, <2>1, <2>2 DEF Sited
  <1>12. ASSUME NEW e \in calls', e.by # None, e.kind = "suspend",
                e.step = "upload" \/ (e.step = "done" /\ e.res = "ok")
         PROVE  Quiet'
    <2>1. CASE e \in calls
      BY <1>7, <1>12, <2>1 DEF Stopped
    <2>2. CASE e \notin calls
      <3>1. PICK d \in calls : Advances(e, d)
        BY <1>3, <2>2
      <3>2. d.by # None /\ d.kind = "suspend" /\ d.node = rec.node
        BY <1>12, <3>1 DEF Advances, Sited
      <3>3. CASE e.step = "done"
        BY <1>7, <1>12, <3>1, <3>2, <3>3 DEF Advances, Stopped
      <3>4. CASE e.step = "upload"
        <4>1. Starts(d, "suspend") /\ nodes'[d.node].vm = "suspended"
          BY <3>1, <3>4 DEF Advances
        <4>2. NoneStarts /\ NoneStarts'
          BY <1>5, <1>9, <3>2, <4>1 DEF NoneStarts
        <4>3. QED
          BY <1>8, <3>2, <4>1, <4>2 DEF Quiet
      <3>5. QED
        BY <1>12, <3>3, <3>4
    <2>3. QED
      BY <2>1, <2>2
  <1>13. Stopped'
    BY <1>0, <1>5, <1>7, <1>12 DEF Stopped
  <1>14. QED
    BY <1>11, <1>13

-----------------------------------------------------------------------------
(* What the guest remembers, as long as no agent restarts either. *)

Remembered ==
    /\ \A n \in Node : nodes[n].vm = "running" => nodes[n].mem = latest
    /\ \A n \in Node : nodes[n].vm = "suspended" => nodes[n].disk = latest
    /\ \A n \in Node : nodes[n].vm = "none" => nodes[n].disk = 0
    /\ (\A n \in Node : nodes[n].vm = "none") => s3 = 0 /\ latest = 0
    /\ (\E n \in Node : nodes[n].vm # "none") => latest # 0
    /\ \A c \in calls : c.step = "upload" => nodes[c.node].vm # "none"

\* Nothing but a node touches guests and snapshots.
LEMMA OthersRemember ==
    ASSUME Remembered, UNCHANGED <<nodes, s3, latest>>,
           \A e \in calls' : e.step = "upload" =>
              \E d \in calls : d.step = "upload" /\ d.node = e.node
    PROVE  Remembered'
  BY DEF Remembered

\* One node's runtime entry, guest and snapshot after a step.
LEMMA SetEntry ==
    ASSUME NodeTypeOK, NEW n \in Node, NEW vm, NEW mem, NEW disk,
           Set(n, vm, mem, disk)
    PROVE  /\ nodes'[n].vm = vm /\ nodes'[n].mem = mem /\ nodes'[n].disk = disk
           /\ \A m \in Node \ {n} : nodes'[m] = nodes[m]
  BY DEF NodeTypeOK, Set

\* A VM of the sandbox lives on one node only: the record's.
LEMMA Alone ==
    ASSUME Sited, NEW n \in Node, nodes[n].vm # "none" \/ rec.node = n
    PROVE  \A m \in Node \ {n} : nodes[m].vm = "none"
  BY DEF Sited

\* A new upload has stopped its VM.
LEMMA Uploads ==
    ASSUME NodeCalls, NEW e \in calls', e \notin calls, e.step = "upload"
    PROVE  nodes'[e.node].vm = "suspended"
  <1>1. PICK d \in calls : Advances(e, d)
    BY DEF NodeCalls
  <1>2. QED
    BY <1>1 DEF Advances

LEMMA CreateRemembers ==
    ASSUME NodeTypeOK, Sited, Remembered, NEW c, OpCreate(c), NodeCalls
    PROVE  Remembered'
  <1>0. /\ calls \in SUBSET Call /\ c \in calls /\ c.step = "queued"
        /\ c.kind = "create" /\ c.node \in Node
    BY DEF NodeTypeOK, OpCreate, Starts, Call
  <1>1. s3' = s3
    BY DEF OpCreate
  <1>2. \A e \in calls' : \/ e \in calls
                          \/ e.step = "upload" => nodes'[e.node].vm = "suspended"
    BY Uploads
  <1>3. CASE nodes' = nodes /\ latest' = latest
    BY <1>1, <1>2, <1>3 DEF Remembered
  <1>4. CASE /\ Vacant(c.node)
             /\ Set(c.node, "running", 1, nodes[c.node].disk)
             /\ latest' = IF latest = 0 THEN 1 ELSE latest
    <2>1. rec.node = c.node
      BY <1>0 DEF Sited
    <2>2. \A n \in Node : nodes[n].vm = "none"
      BY <1>0, <1>4, <2>1, Alone DEF Vacant
    <2>3. latest = 0 /\ s3 = 0 /\ latest' = 1
      BY <1>4, <2>2 DEF Remembered
    <2>4. /\ nodes'[c.node].vm = "running" /\ nodes'[c.node].mem = 1
          /\ \A m \in Node \ {c.node} : nodes'[m] = nodes[m]
      BY <1>0, <1>4, SetEntry
    <2>5. \A e \in calls : e.step = "upload" => FALSE
      BY <1>0, <2>2 DEF Remembered, Call
    <2>6. QED
      BY <1>0, <1>1, <1>2, <2>2, <2>3, <2>4, <2>5 DEF Remembered
  <1>5. QED
    BY <1>3, <1>4 DEF OpCreate

LEMMA SuspendRemembers ==
    ASSUME NodeTypeOK, Sited, Remembered, NEW c,
           OpSuspendLocal(c) \/ OpSuspendUpload(c), NodeCalls
    PROVE  Remembered'
  <1>0. calls \in SUBSET Call /\ c \in calls /\ c.node \in Node
    BY DEF NodeTypeOK, OpSuspendLocal, OpSuspendUpload, Starts, Call
  <1>1. latest' = latest
    BY DEF OpSuspendLocal, OpSuspendUpload
  <1>2. \A e \in calls' : \/ e \in calls
                          \/ e.step = "upload" => nodes'[e.node].vm = "suspended"
    BY Uploads
  <1>3. CASE OpSuspendUpload(c)
    <2>1. nodes' = nodes /\ nodes[c.node].vm # "none"
      BY <1>3 DEF OpSuspendUpload, Remembered
    <2>2. QED
      BY <1>0, <1>1, <1>2, <2>1 DEF Remembered
  <1>4. CASE OpSuspendLocal(c) /\ nodes' = nodes
    BY <1>1, <1>2, <1>4 DEF Remembered, OpSuspendLocal
  <1>5. CASE /\ s3' = s3
             /\ nodes[c.node].vm = "running"
             /\ Set(c.node, "suspended", 0, nodes[c.node].mem)
    <2>1. /\ nodes'[c.node].vm = "suspended" /\ nodes'[c.node].disk = nodes[c.node].mem
          /\ \A m \in Node \ {c.node} : nodes'[m] = nodes[m]
      BY <1>0, <1>5, SetEntry
    <2>2. \A m \in Node : nodes'[m].vm # "none" <=> nodes[m].vm # "none"
      BY <1>5, <2>1
    <2>3. \A e \in calls : e.node \in Node
      BY <1>0 DEF Call
    <2>4. QED
      BY <1>0, <1>1, <1>2, <1>5, <2>1, <2>2, <2>3 DEF Remembered
  <1>6. QED
    BY <1>3, <1>4, <1>5 DEF OpSuspendLocal

LEMMA ResumeRemembers ==
    ASSUME NodeTypeOK, Sited, Remembered, NEW c, OpResume(c), NodeCalls
    PROVE  Remembered'
  <1>0. /\ calls \in SUBSET Call /\ c \in calls /\ c.step = "queued"
        /\ c.kind = "resume" /\ c.node \in Node
        /\ nodes[c.node].vm \in {"none", "running", "suspended"}
    BY DEF NodeTypeOK, OpResume, Starts, Call
  <1>1. latest' = latest /\ s3' = s3
    BY DEF OpResume
  <1>2. \A e \in calls' : \/ e \in calls
                          \/ e.step = "upload" => nodes'[e.node].vm = "suspended"
    BY Uploads
  <1>3. CASE nodes' = nodes
    BY <1>1, <1>2, <1>3 DEF Remembered
  <1>4. CASE /\ nodes[c.node].vm # "running" /\ Source(c.node) # 0
             /\ \/ Set(c.node, "running", Source(c.node), Source(c.node))
                \/ Set(c.node, nodes[c.node].vm, 0, Source(c.node))
    <2>1. rec.node = c.node
      BY <1>0 DEF Sited
    <2>2. nodes[c.node].vm # "none"
      <3>1. CASE nodes[c.node].vm = "none"
        <4>1. \A n \in Node : nodes[n].vm = "none"
          BY <1>0, <2>1, <3>1, Alone
        <4>2. s3 = 0 /\ nodes[c.node].disk = 0
          BY <1>0, <4>1 DEF Remembered
        <4>3. QED
          BY <1>4, <4>2 DEF Source
      <3>2. QED
        BY <3>1
    <2>3. nodes[c.node].vm = "suspended" /\ Source(c.node) = latest
      BY <1>0, <1>4, <2>2 DEF Remembered, Source
    <2>4. /\ nodes'[c.node].disk = latest
          /\ \/ nodes'[c.node].vm = "running" /\ nodes'[c.node].mem = latest
             \/ nodes'[c.node].vm = "suspended"
          /\ \A m \in Node \ {c.node} : nodes'[m] = nodes[m]
      BY <1>0, <1>4, <2>3, SetEntry
    <2>5. \A e \in calls : e.node \in Node
      BY <1>0 DEF Call
    <2>6. QED
      BY <1>0, <1>1, <1>2, <2>2, <2>4, <2>5 DEF Remembered
  <1>5. QED
    BY <1>3, <1>4 DEF OpResume

LEMMA WriteRemembers ==
    ASSUME NodeTypeOK, Sited, Remembered, NEW n \in Node, GuestWrite(n)
    PROVE  Remembered'
  <1>0. /\ nodes[n].vm = "running" /\ s3' = s3 /\ calls' = calls
        /\ latest \in Nat /\ latest' = latest + 1
        /\ calls \in SUBSET Call
    BY NodeAgentAssumption DEF NodeTypeOK, GuestWrite, Version
  <1>1. /\ nodes'[n].vm = "running" /\ nodes'[n].mem = latest'
        /\ \A m \in Node \ {n} : nodes'[m] = nodes[m]
    BY DEF NodeTypeOK, GuestWrite
  <1>2. \A m \in Node \ {n} : nodes[m].vm = "none"
    BY <1>0, Alone
  <1>3. latest' # 0
    BY <1>0
  <1>4. \A e \in calls : e.node \in Node
    BY <1>0 DEF Call
  <1>5. QED
    BY <1>0, <1>1, <1>2, <1>3, <1>4 DEF Remembered

\* No step that leaves every node and every agent alone is a fault of one.
LEMMA NoFaultStep ==
    ASSUME Base, Sited, AgentsStay'
    PROVE  ~NodeFault
  <1>0. budget \in [Fault -> Nat] /\ Control
    BY DEF Base, TypeOK, NodeTypeOK
  <1>1. ASSUME NEW f \in {"restart", "partition", "death"}, Spend(f)
        PROVE  FALSE
    <2>1. f \in Fault
      BY DEF Fault
    <2>2. budget[f] \in Nat /\ Budget[f] \in Nat /\ budget[f] <= Budget[f]
      BY <1>0, <2>1, NodeAgentAssumption DEF Control, Spending
    <2>3. budget'[f] # Budget[f]
      BY <1>0, <1>1, <2>1, <2>2 DEF Spend
    <2>4. QED
      BY <1>1, <2>3 DEF AgentsStay, NodesStay
  <1>2. QED
    BY <1>1 DEF NodeFault, AgentRestart, Partition, Death, HeartbeatExpire, NodeReturn,
       Sited, Reachable

LEMMA NodeRemembers ==
    ASSUME Base, Sited, Remembered, NodeStep, AgentsStay'
    PROVE  Remembered'
  <1>0. /\ NodeTypeOK /\ AwaitedWaits /\ Control /\ budget \in [Fault -> Nat]
        /\ \A c \in calls : c.kind # "destroy"
    BY DEF Base, TypeOK, NodeTypeOK, FenceInv, Control, Undeleted
  <1>1. NodeCalls
    BY <1>0, NodeSteps DEF NodeStep, Control, NodeShape
  <1>2. CASE Handler
    <2>1. PICK c \in calls : \/ OpCreate(c) \/ OpSuspendLocal(c)
                             \/ OpSuspendUpload(c) \/ OpResume(c) \/ OpDestroy(c)
      BY <1>2 DEF Handler
    <2>2. ~OpDestroy(c)
      BY <1>0 DEF OpDestroy, Starts
    <2>3. QED
      BY <1>0, <1>1, <2>1, <2>2, CreateRemembers, SuspendRemembers, ResumeRemembers
  <1>3. CASE \E n \in Node : GuestWrite(n)
    BY <1>0, <1>3, WriteRemembers
  <1>5. ~NodeFault
    BY NoFaultStep
  <1>6. QED
    BY <1>2, <1>3, <1>5 DEF NodeStep, NodeNext

-----------------------------------------------------------------------------
\* The inductive invariant.
GuestInv ==
    /\ Base
    /\ NodesStay => Sited /\ Stopped
    /\ AgentsStay => Remembered

LEMMA LossesStay ==
    ASSUME Base, ~MayDelete, [Next]_vars
    PROVE  (NodesStay' => NodesStay) /\ (AgentsStay' => AgentsStay)
  <1>0. /\ budget \in [Fault -> Nat] /\ Spending /\ NodeTypeOK /\ AwaitedWaits
        /\ \A c \in calls : c.kind # "destroy"
    BY DEF Base, TypeOK, NodeTypeOK, FenceInv, Control, Undeleted
  <1>1. budget' = budget \/ \E f \in Fault : Spend(f)
    <2>1. CASE Api \/ ExpireLease \/ UNCHANGED vars
      BY <2>1, ApiControl, ExpiredLease DEF nodeVars, vars
    <2>2. ASSUME NEW w \in Worker, Step(w) \/ Timeout(w)
          PROVE  budget' = budget \/ \E f \in Fault : Spend(f)
      <3>1. Local(w) \/ Driver(w)
        BY <2>2, LocalSteps, DriverSteps DEF Step
      <3>2. QED
        BY <3>1, FaultKinds DEF Local, Driver, Sends, Ends, Widens, nodeVars
    <2>3. ASSUME NEW w \in Worker, Crash(w)
          PROVE  \E f \in Fault : Spend(f)
      BY <2>3, CrashShape DEF Crashes
    <2>4. CASE NodeStep
      BY <1>0, <2>4, NodeSteps DEF NodeStep
    <2>5. QED
      BY <2>1, <2>2, <2>3, <2>4 DEF Next
  <1>2. QED
    BY <1>0, <1>1, Spends

LEMMA SitesStep ==
    ASSUME Base, ~MayDelete, Sited, Stopped, [Next]_vars, NodesStay'
    PROVE  Sited' /\ Stopped'
  <1>1. ASSUME UNCHANGED <<nodeVars, holder, worker>>, rec'.node = rec.node,
               rec'.state = rec.state
        PROVE  Sited' /\ Stopped'
    BY <1>1 DEF Sited, Stopped, Clear, Quiet, NoneStarts, Reachable, nodeVars
  <1>2. CASE Api \/ UNCHANGED vars
    BY <1>1, <1>2, ApiControl DEF vars, nodeVars
  <1>3. ASSUME NEW w \in Worker, Step(w) \/ Timeout(w)
        PROVE  Sited' /\ Stopped'
    <2>1. Local(w) \/ Driver(w)
      BY <1>3, LocalSteps, DriverSteps DEF Step
    <2>2. QED
      BY <2>1, LocalSites, SendsSites, EndsSites, WidensSites DEF Driver
  <1>4. ASSUME NEW w \in Worker, Crash(w)
        PROVE  Sited' /\ Stopped'
    BY <1>4, CrashShape, CrashSites
  <1>5. CASE ExpireLease
    <2>1. /\ UNCHANGED <<nodeVars, cr, rec, worker>>
          /\ \A c \in calls : c.by = None /\ c.step = "upload"
      BY <1>5, ExpiredLease
    <2>2. NoneStarts /\ NoneStarts'
      BY <2>1 DEF NoneStarts, nodeVars
    <2>3. Sited'
      BY <2>1 DEF Sited, Clear, NoneStarts, Reachable, nodeVars
    <2>4. Stopped'
      BY <2>1, <2>2 DEF Stopped, Quiet, nodeVars
    <2>5. QED
      BY <2>3, <2>4
  <1>6. CASE NodeStep
    BY <1>6, NodeSites
  <1>7. QED
    BY <1>2, <1>3, <1>4, <1>5, <1>6 DEF Next

LEMMA RememberedStep ==
    ASSUME Base, ~MayDelete, Sited, Remembered, [Next]_vars, AgentsStay'
    PROVE  Remembered'
  <1>1. CASE NodeStep
    BY <1>1, NodeRemembers
  <1>2. ASSUME UNCHANGED <<nodes, s3, latest, calls>>
        PROVE  Remembered'
    BY <1>2, OthersRemember
  <1>3. CASE Api \/ ExpireLease \/ UNCHANGED vars
    BY <1>2, <1>3, ApiControl, ExpiredLease DEF vars, nodeVars
  <1>4. ASSUME NEW w \in Worker, Step(w) \/ Timeout(w)
        PROVE  Remembered'
    <2>1. Local(w) \/ Driver(w)
      BY <1>4, LocalSteps, DriverSteps DEF Step
    <2>2. CASE Local(w)
      BY <1>2, <2>2 DEF Local, nodeVars
    <2>3. CASE Sends(w)
      <3>1. \A e \in calls' : e.step = "upload" => e \in calls
        BY <2>3 DEF Sends
      <3>2. QED
        BY <2>3, <3>1, OthersRemember DEF Sends
    <2>4. CASE Ends(w)
      BY <2>4, OthersRemember DEF Ends
    <2>5. CASE Widens(w)
      BY <2>5, OthersRemember DEF Widens
    <2>6. QED
      BY <2>1, <2>2, <2>3, <2>4, <2>5 DEF Driver
  <1>5. ASSUME NEW w \in Worker, Crash(w)
        PROVE  Remembered'
    <2>1. Crashes(w)
      BY <1>5, CrashShape
    <2>2. \A e \in calls' : e.step = "upload" =>
             \E d \in calls : d.step = "upload" /\ d.node = e.node
      BY <2>1 DEF Crashes
    <2>3. QED
      BY <2>1, <2>2, OthersRemember DEF Crashes
  <1>6. QED
    BY <1>1, <1>3, <1>4, <1>5 DEF Next

LEMMA GuestInitially == Init => GuestInv
  <1> SUFFICES ASSUME Init
               PROVE  GuestInv
    OBVIOUS
  <1>1. /\ \A n \in Node : /\ nodes[n].link = "up" /\ nodes[n].vm = "none"
                          /\ nodes[n].disk = 0
        /\ calls = {} /\ s3 = 0 /\ latest = 0
    BY DEF Init, NodeInit
  <1>2. \A w \in Worker : worker[w].pc = "idle"
    BY DEF Init, Idle
  <1>3. rec.state = "creating"
    BY DEF Init, NoRec
  <1>4. Sited /\ Stopped
    BY <1>1, <1>2, <1>3 DEF Sited, Stopped, Reachable
  <1>5. Remembered
    BY <1>1 DEF Remembered
  <1>6. QED
    BY <1>4, <1>5, BaseInitially DEF GuestInv

LEMMA GuestStep == ~MayDelete /\ GuestInv /\ [Next]_vars => GuestInv'
  BY BaseStep, LossesStay, SitesStep, RememberedStep DEF GuestInv, AgentsStay

LEMMA GuestAlways ==
    ASSUME ~MayDelete
    PROVE  Spec => []GuestInv
  <1>1. GuestInv /\ [Next]_vars => GuestInv'
    BY GuestStep
  <1>2. QED
    BY <1>1, GuestInitially, PTL DEF Spec

\* A sandbox never runs twice, as long as no node is lost: every request of
\* every replica that can start a guest goes to the node the record names
\* (driver.create's journal, driver.resume, op_create).
THEOREM RunsOnce ==
    ASSUME ~MayDelete
    PROVE  Spec => [](NodesStay => OneVm)
  <1>1. GuestInv => (NodesStay => OneVm)
    <2> SUFFICES ASSUME GuestInv, NodesStay
                 PROVE  OneVm
      OBVIOUS
    <2>1. Running \subseteq {rec.node}
      BY DEF GuestInv, Sited, Running
    <2>2. IsFiniteSet({rec.node}) /\ Cardinality({rec.node}) = 1
      BY FS_Singleton
    <2>3. Cardinality(Running) <= 1
      BY <2>1, <2>2, FS_Subset
    <2>4. QED
      BY <2>3 DEF OneVm
  <1>2. QED
    BY <1>1, GuestAlways, PTL

\* A guest that runs holds the last write, as long as no node is lost and no
\* agent forgets a suspended VM: no create boots a blank disk and no resume an
\* older snapshot (op_create, op_resume, _recover_vms).
THEOREM RunsTheLatest ==
    ASSUME ~MayDelete
    PROVE  Spec => [](AgentsStay => LatestRuns)
  <1>1. GuestInv => (AgentsStay => LatestRuns)
    BY DEF GuestInv, Remembered, LatestRuns, Running
  <1>2. QED
    BY <1>1, GuestAlways, PTL

\* A sandbox recorded as suspended runs nowhere, though requests that were
\* given up may still be queued while the record is "suspending"
\* (_suspend, _recover_suspending and the lease).
THEOREM SuspendedStays ==
    ASSUME ~MayDelete
    PROVE  Spec => []StoppedWhenSuspended
  <1>1. GuestInv => StoppedWhenSuspended
    BY DEF GuestInv, Stopped, Quiet, StoppedWhenSuspended, Running
  <1>2. QED
    BY <1>1, GuestAlways, PTL

-----------------------------------------------------------------------------
(* A slept sandbox, with a single replica.  "slept" is also written without   *)
(* the lease, over a record that was "suspended" when it was read: another    *)
(* replica could have resumed the sandbox meanwhile, the same one cannot.     *)

OneReplica == \A v, w \in Worker : v = w

Asleep ==
    /\ \A w \in Worker :
          worker[w].pc = "settle" /\ worker[w].rec.state = "slept"
              => rec.state = "suspended"
    /\ \A w \in Worker :
          worker[w].pc \in {"call", "wait"} /\ worker[w].job # "suspend"
              => rec.state # "slept"
    /\ NodesStay /\ rec.state = "slept" => Quiet

LEMMA LocalAsleep ==
    ASSUME OneReplica, GuestInv, Asleep, NEW w \in Worker, Local(w), NodesStay' => NodesStay,
           \/ Fetch(w) \/ Reconcile(w) \/ ReconcileDelete(w) \/ Drift(w)
           \/ Settle(w) \/ Lease(w) \/ WorkCreate(w) \/ WorkRecover(w)
           \/ WorkSuspend(w) \/ Mark(w) \/ WorkResume(w) \/ WorkDelete(w)
           \/ Unlist(w)
    PROVE  Asleep'
  <1>0. /\ Base /\ (NodesStay => Sited /\ Stopped)
        /\ nodes' = nodes /\ calls' = calls
        /\ \A v \in Worker : v = w
    BY DEF GuestInv, Local, nodeVars, OneReplica
  <1>1. Quiet <=> Quiet'
    BY <1>0 DEF Quiet, NoneStarts
  <1>2. worker[w].pc \in {"work", "mark"} =>
           worker'[w].pc # "settle" /\ (rec'.state = "slept" /\ NodesStay => Quiet)
    <2>1. rec'.state = rec.state /\ rec'.state = "slept" /\ NodesStay => Quiet
      BY DEF Asleep
    <2>2. QED
      BY <1>0, <2>1, RecoveredQuiet DEF Local, Outside, Enters, Goes, Stops, Leased
  <1>3. CASE worker[w].pc \in {"work", "mark"}
    <2>1. worker'[w].pc \in {"call", "wait"} => rec'.state # "slept"
      BY <1>3 DEF Local, Outside, Enters, Goes, Stops, Leased
    <2>2. QED
      BY <1>0, <1>1, <1>2, <1>3, <2>1 DEF Asleep
  <1>4. CASE Settle(w)
    <2>1. rec'.state = worker[w].rec.state /\ worker[w].pc = "settle"
      BY <1>0, <1>4, Forced, BaseFacts DEF Settle
    <2>2. worker'[w].pc = "idle"
      BY <1>0, <1>4, Finished, BaseFacts DEF Settle
    <2>3. rec'.state = "slept" /\ NodesStay => Quiet
      BY <1>0, <2>1 DEF Asleep, Stopped
    <2>4. QED
      BY <1>0, <1>1, <2>2, <2>3 DEF Asleep
  <1>5. CASE Fetch(w) \/ Reconcile(w) \/ ReconcileDelete(w) \/ Drift(w) \/ Lease(w)
             \/ Unlist(w)
    <2>1. rec'.state = rec.state
      <3>1. worker[w].pc = "record" => Known(w) = rec
        BY <1>0, Active
      <3>2. QED
        BY <1>5, <3>1 DEF Fetch, Reconcile, ReconcileDelete, Drift, Lease, Unlist
    <2>2. worker'[w].pc \notin {"call", "wait"}
      <3>1. worker[w].pc \notin {"work", "mark"}
        BY <1>5 DEF Fetch, Reconcile, ReconcileDelete, Drift, Lease, Unlist
      <3>2. QED
        BY <3>1 DEF Local, Outside, Enters, Goes, Stops, Leased
    <2>3. worker'[w].pc = "settle" /\ worker'[w].rec.state = "slept"
             => rec.state = "suspended"
      BY <2>1 DEF Local, Outside, Enters, Goes, Stops
    <2>4. QED
      BY <1>0, <1>1, <2>1, <2>2, <2>3 DEF Asleep
  <1>6. QED
    BY <1>3, <1>4, <1>5 DEF WorkCreate, WorkRecover, WorkSuspend, Mark, WorkResume,
       WorkDelete, AtWork

LEMMA DriverAsleep ==
    ASSUME OneReplica, GuestInv, Asleep, NEW w \in Worker, Driver(w),
           NodesStay' => NodesStay
    PROVE  Asleep'
  <1>0. /\ Base /\ (NodesStay => Sited /\ Stopped)
        /\ nodes' = nodes /\ StageOf(worker[w], rec)
        /\ \A v \in Worker : v = w
        /\ worker'[w].pc # "settle"
    BY DEF GuestInv, Base, Control, StageInv, Driver, Sends, Ends, Widens, OneReplica
  <1>1. CASE Sends(w)
    <2>1. PICK c \in Call : /\ calls' = calls \cup {c} /\ c.kind = worker[w].job
      BY <1>1 DEF Sends
    <2>2. rec.state = "slept" => worker[w].job = "suspend"
      BY <1>0, <1>1 DEF Asleep, Sends, StageOf
    <2>3. rec.state = "slept" => (Quiet => Quiet')
      BY <1>0, <2>1, <2>2 DEF Quiet, NoneStarts
    <2>4. QED
      BY <1>0, <1>1, <2>2, <2>3 DEF Asleep, Sends
  <1>2. CASE Ends(w)
    <2>1. Quiet => Quiet'
      BY <1>0, <1>2 DEF Quiet, NoneStarts, Ends
    <2>2. rec'.state \notin {"running", "failed"} /\ NodesStay => Quiet
      BY <1>0, <1>2 DEF Ends, Stopped
    <2>3. QED
      BY <1>0, <1>2, <2>1, <2>2 DEF Asleep, Ends
  <1>3. CASE Widens(w)
    <2>1. Quiet => Quiet'
      BY <1>0, <1>3 DEF Quiet, NoneStarts, Widens
    <2>2. QED
      BY <1>0, <1>3, <2>1 DEF Asleep, Widens
  <1>4. QED
    BY <1>1, <1>2, <1>3 DEF Driver

LEMMA AsleepStep ==
    ASSUME OneReplica, ~MayDelete, GuestInv, Asleep, [Next]_vars
    PROVE  Asleep'
  <1>0. /\ Base /\ (NodesStay => Sited /\ Stopped)
        /\ NodesStay' => NodesStay
    BY LossesStay DEF GuestInv
  <1>1. ASSUME UNCHANGED <<nodeVars, worker>>, rec'.state = rec.state
        PROVE  Asleep'
    BY <1>0, <1>1 DEF Asleep, Quiet, NoneStarts, nodeVars
  <1>2. CASE Api \/ ExpireLease \/ UNCHANGED vars
    BY <1>0, <1>1, <1>2, ApiControl, ExpiredLease DEF vars, nodeVars
  <1>3. ASSUME NEW w \in Worker, Step(w) \/ Timeout(w)
        PROVE  Asleep'
    BY <1>0, <1>3, LocalSteps, LocalAsleep, DriverSteps, DriverAsleep DEF Step
  <1>4. ASSUME NEW w \in Worker, Crash(w)
        PROVE  Asleep'
    <2>1. Crashes(w)
      BY <1>0, <1>4, CrashShape
    <2>2. Quiet => Quiet'
      BY <2>1 DEF Crashes, Quiet, NoneStarts
    <2>3. \A v \in Worker : worker'[v].pc = "idle"
      BY <2>1 DEF Crashes, OneReplica
    <2>4. QED
      BY <1>0, <2>1, <2>2, <2>3 DEF Asleep, Crashes
  <1>5. CASE NodeStep
    <2>1. NodeTypeOK /\ AwaitedWaits /\ Spending /\ \A c \in calls : c.kind # "destroy"
      BY <1>0 DEF Base, TypeOK, FenceInv, Control, Undeleted
    <2>2. NodeCalls /\ Births
      BY <1>5, <2>1, NodeSteps DEF NodeStep, NodeShape
    <2>3. Quiet => Quiet'
      BY <2>2 DEF Quiet, NoneStarts, NodeCalls, Births, Advances
    <2>4. QED
      BY <1>0, <1>5, <2>3 DEF Asleep, NodeStep
  <1>6. QED
    BY <1>2, <1>3, <1>4, <1>5 DEF Next

\* With a single replica a sandbox recorded as slept runs nowhere either
\* (force_update in reconcile, _suspend, _recover_suspending).
THEOREM SleepsAlone ==
    ASSUME ~MayDelete, OneReplica
    PROVE  Spec => []StoppedWhenAsleep
  <1>1. Init => Asleep
    BY DEF Init, NoRec, Idle, Asleep
  <1>2. GuestInv /\ Asleep /\ [Next]_vars => Asleep'
    BY AsleepStep
  <1>3. GuestInv /\ Asleep => StoppedWhenAsleep
    BY DEF GuestInv, Stopped, Asleep, Quiet, StoppedWhenAsleep, Running, Target
  <1>4. QED
    BY <1>1, <1>2, <1>3, GuestAlways, PTL DEF Spec

-----------------------------------------------------------------------------
(* The refinement of SandboxMachine, where neither nodes nor agents fail.    *)

NoNodeFaults ==
    Budget["restart"] = 0 /\ Budget["partition"] = 0 /\ Budget["death"] = 0

\* Nothing happens to a sandbox that is not listed.
Unlisted == ~cr.alive => calls = {} /\ \A n \in Node : nodes[n].vm = "none"

\* What GuestInv comes to without those faults.
Refines ==
    /\ GuestInv
    /\ AgentsStay
    /\ Unlisted

LEMMA NoFaultsStay ==
    ASSUME GuestInv, NoNodeFaults
    PROVE  AgentsStay
  <1>1. budget \in [Fault -> Nat] /\ Spending
    BY DEF GuestInv, Base, TypeOK, NodeTypeOK, Control
  <1>2. "restart" \in Fault /\ "partition" \in Fault /\ "death" \in Fault
    BY DEF Fault
  <1>3. \A f \in {"restart", "partition", "death"} :
           budget[f] \in Nat /\ budget[f] <= 0 /\ Budget[f] = 0
    BY <1>1, <1>2 DEF Spending, NoNodeFaults
  <1>4. QED
    BY <1>3 DEF AgentsStay, NodesStay

LEMMA FaultlessNext ==
    ASSUME NoNodeFaults
    PROVE  GuestInv' => AgentsStay'
  <1>1. GuestInv => AgentsStay
    BY NoFaultsStay
  <1>2. QED
    BY <1>1, PTL

LEMMA UnlistedStep ==
    ASSUME ~MayDelete, Base, Unlisted, [Next]_vars
    PROVE  Unlisted'
  <1>1. CASE Api
    <2>1. UNCHANGED nodeVars /\ (cr.alive => cr'.alive)
      BY <1>1, ApiControl, BaseFacts
         DEF Api, EnsureCR, CreateRefused, ApiSuspend, ApiResume, RequestIdle, ApiDelete,
             RequestState, CR
    <2>2. QED
      BY <2>1 DEF Unlisted, nodeVars
  <1>2. ASSUME NEW w \in Worker, Step(w) \/ Timeout(w)
        PROVE  Unlisted'
    BY <1>2, LocalSteps, DriverSteps DEF Step, Local, Driver, Unlisted
  <1>3. ASSUME NEW w \in Worker, Crash(w)
        PROVE  Unlisted'
    BY <1>3, CrashShape, Active DEF Crashes, Unlisted
  <1>4. CASE ExpireLease \/ UNCHANGED vars
    BY <1>4, ExpiredLease DEF vars, nodeVars, Unlisted
  <1>5. CASE NodeStep
    <2>1. NodeTypeOK /\ AwaitedWaits /\ Spending /\ \A c \in calls : c.kind # "destroy"
      BY DEF Base, TypeOK, FenceInv, Control, Undeleted
    <2>2. NodeCalls /\ Births
      BY <1>5, <2>1, NodeSteps DEF NodeStep, NodeShape
    <2>3. QED
      BY <1>5, <2>2 DEF NodeStep, Unlisted, NodeCalls, Births, Advances
  <1>6. QED
    BY <1>1, <1>2, <1>3, <1>4, <1>5 DEF Next

\* The sandbox as its client sees it, from what the nodes hold.
Seen ==
    /\ ClientMemory = latest
    /\ Running # {} => ClientMode = "running"
    /\ Running = {} /\ (\E n \in Node : nodes[n].vm = "suspended") =>
          ClientMode = "stopped"
    /\ (\A n \in Node : nodes[n].vm = "none") =>
          /\ Running = {} /\ latest = 0
          /\ ClientMode = IF cr.alive THEN "new"
                          ELSE IF rec.alive THEN "unlisted" ELSE "gone"

LEMMA ClientSees == Remembered => Seen
  <1> SUFFICES ASSUME Remembered
               PROVE  Seen
    OBVIOUS
  <1>1. \A n \in Running : nodes[n].mem = latest
    BY DEF Remembered, Running
  <1>2. ClientMemory = latest
    <2>1. CASE Running = {}
      BY <2>1 DEF ClientMemory
    <2>2. CASE Running # {}
      <3>1. (CHOOSE n \in Running : TRUE) \in Running
        BY <2>2
      <3>2. QED
        BY <1>1, <2>2, <3>1 DEF ClientMemory
    <2>3. QED
      BY <2>1, <2>2
  <1>3. Running # {} => ClientMode = "running"
    BY DEF ClientMode
  <1>4. Running = {} /\ (\E n \in Node : nodes[n].vm = "suspended") => ClientMode = "stopped"
    BY DEF ClientMode
  <1>5. ASSUME \A n \in Node : nodes[n].vm = "none"
        PROVE  /\ Running = {} /\ latest = 0
               /\ ClientMode = IF cr.alive THEN "new"
                               ELSE IF rec.alive THEN "unlisted" ELSE "gone"
    <2>1. Running = {} /\ latest = 0 /\ \A n \in Node : nodes[n].disk = 0
      BY <1>5 DEF Running, Remembered
    <2>2. QED
      BY <1>5, <2>1 DEF ClientMode
  <1>6. QED
    BY <1>2, <1>3, <1>4, <1>5 DEF Seen

LEMMA ClientSeesNext == Remembered' => Seen'
  BY ClientSees, PTL

\* Steps that do not touch a node show only when the sandbox is listed or
\* refused.
LEMMA Stutters ==
    ASSUME UNCHANGED <<nodes, latest>>, cr'.alive = cr.alive,
           cr.alive \/ rec'.alive = rec.alive
    PROVE  ClientMode' = ClientMode /\ ClientMemory' = ClientMemory
  <1>1. Running' = Running
    BY DEF Running
  <1>2. QED
    BY <1>1 DEF ClientMode, ClientMemory

LEMMA MachineInitially == Init => Machine!Init
  <1> SUFFICES ASSUME Init
               PROVE  Machine!Init
    OBVIOUS
  <1>1. GuestInv /\ latest = 0 /\ ~cr.alive /\ rec.alive
    BY GuestInitially DEF Init, NodeInit, NoCR, NoRec
  <1>2. AgentsStay
    BY DEF Init, NodeInit, AgentsStay, NodesStay
  <1>3. Seen
    BY <1>1, <1>2, ClientSees DEF GuestInv
  <1>4. \A n \in Node : nodes[n].vm = "none"
    BY DEF Init, NodeInit
  <1>5. QED
    BY <1>1, <1>3, <1>4 DEF Machine!Init, Seen

LEMMA RunningNext == Running' = {n \in Node : nodes'[n].vm = "running"}
  BY DEF Running

\* A node's step is a boot, a write, a stop or a restore, or does not show.
LEMMA NodeRefines ==
    ASSUME Refines, Sited, Remembered, Remembered', NodeStep, AgentsStay'
    PROVE  Machine!Next \/ UNCHANGED Machine!machineVars
  <1>0. /\ NodeTypeOK /\ cr' = cr /\ rec' = rec /\ Unlisted
        /\ calls \in SUBSET Call
        /\ \A c \in calls : c.kind # "destroy" /\ c.node \in Node
        /\ \A n \in Node : nodes[n].vm \in {"none", "running", "suspended"}
    BY DEF Refines, GuestInv, Base, TypeOK, NodeTypeOK, Control, Undeleted, NodeStep, Call
  <1>1. Seen /\ Seen'
    BY ClientSees, ClientSeesNext
  <1>2. ASSUME UNCHANGED <<nodes, latest>>
        PROVE  UNCHANGED Machine!machineVars
    BY <1>0, <1>2, Stutters DEF Machine!machineVars
  <1>3. ASSUME NEW c \in calls, OpCreate(c)
        PROVE  Machine!Next \/ UNCHANGED Machine!machineVars
    <2>1. CASE nodes' = nodes /\ latest' = latest
      BY <1>2, <2>1
    <2>2. CASE /\ Vacant(c.node)
               /\ Set(c.node, "running", 1, nodes[c.node].disk)
               /\ latest' = IF latest = 0 THEN 1 ELSE latest
      <3>1. rec.node = c.node
        BY <1>3 DEF Sited, OpCreate, Starts
      <3>2. \A n \in Node : nodes[n].vm = "none"
        BY <1>0, <2>2, <3>1, Alone DEF Vacant
      <3>3. cr.alive /\ latest = 0 /\ latest' = 1
        BY <1>0, <1>3, <2>2, <3>2 DEF Unlisted, Remembered
      <3>4. ClientMode = "new"
        BY <1>1, <3>2, <3>3 DEF Seen
      <3>5. c.node \in Running'
        BY <1>0, <2>2, SetEntry, RunningNext
      <3>6. ClientMode' = "running" /\ ClientMemory' = 1
        BY <1>1, <3>3, <3>5 DEF Seen
      <3>7. QED
        BY <3>4, <3>6 DEF Machine!Next, Machine!Boot
    <2>3. QED
      BY <1>3, <2>1, <2>2 DEF OpCreate
  <1>4. ASSUME NEW c \in calls, OpSuspendLocal(c)
        PROVE  Machine!Next \/ UNCHANGED Machine!machineVars
    <2>1. CASE nodes' = nodes
      BY <1>2, <1>4, <2>1 DEF OpSuspendLocal
    <2>2. CASE /\ nodes[c.node].vm = "running"
               /\ Set(c.node, "suspended", 0, nodes[c.node].mem)
      <3>1. \A m \in Node \ {c.node} : nodes[m].vm = "none"
        BY <1>0, <2>2, Alone
      <3>2. /\ nodes'[c.node].vm = "suspended"
            /\ \A m \in Node \ {c.node} : nodes'[m] = nodes[m]
        BY <1>0, <2>2, SetEntry
      <3>3. c.node \in Running /\ Running' = {}
        BY <1>0, <2>2, <3>1, <3>2, RunningNext DEF Running
      <3>4. latest' = latest
        BY <1>4 DEF OpSuspendLocal
      <3>5. ClientMode = "running" /\ ClientMemory = latest
        BY <1>1, <3>3 DEF Seen
      <3>6. ClientMode' = "stopped" /\ ClientMemory' = latest
        BY <1>0, <1>1, <3>2, <3>3, <3>4 DEF Seen
      <3>7. QED
        BY <3>5, <3>6 DEF Machine!Next, Machine!Stop
    <2>3. QED
      BY <1>4, <2>1, <2>2 DEF OpSuspendLocal
  <1>5. ASSUME NEW c \in calls, OpSuspendUpload(c)
        PROVE  UNCHANGED Machine!machineVars
    BY <1>2, <1>5 DEF OpSuspendUpload
  <1>6. ASSUME NEW c \in calls, OpResume(c)
        PROVE  Machine!Next \/ UNCHANGED Machine!machineVars
    <2>0. latest' = latest
      BY <1>6 DEF OpResume
    <2>1. CASE nodes' = nodes
      BY <1>2, <2>0, <2>1
    <2>2. CASE /\ nodes[c.node].vm # "running" /\ Source(c.node) # 0
               /\ \/ Set(c.node, "running", Source(c.node), Source(c.node))
                  \/ Set(c.node, nodes[c.node].vm, 0, Source(c.node))
      <3>1. rec.node = c.node
        BY <1>6 DEF Sited, OpResume, Starts
      <3>2. \A m \in Node \ {c.node} : nodes[m].vm = "none"
        BY <1>0, <3>1, Alone
      <3>3. nodes[c.node].vm = "suspended"
        <4>1. CASE nodes[c.node].vm = "none"
          <5>1. \A n \in Node : nodes[n].vm = "none"
            BY <1>0, <3>2, <4>1
          <5>2. s3 = 0 /\ nodes[c.node].disk = 0
            BY <1>0, <5>1 DEF Remembered
          <5>3. QED
            BY <2>2, <5>2 DEF Source
        <4>2. QED
          BY <1>0, <2>2, <4>1
      <3>4. Running = {}
        BY <1>0, <3>2, <3>3 DEF Running
      <3>5. ClientMode = "stopped" /\ ClientMemory = latest /\ ClientMemory' = latest
        BY <1>0, <1>1, <2>0, <3>3, <3>4 DEF Seen
      <3>6. CASE nodes'[c.node].vm = "running"
        <4>1. c.node \in Running'
          BY <1>0, <3>6, RunningNext
        <4>2. ClientMode' = "running"
          BY <1>1, <4>1 DEF Seen
        <4>3. QED
          BY <3>5, <4>2 DEF Machine!Next, Machine!Restore
      <3>7. CASE /\ nodes'[c.node].vm = "suspended"
                 /\ \A m \in Node \ {c.node} : nodes'[m] = nodes[m]
        <4>1. Running' = {}
          BY <1>0, <3>2, <3>7, RunningNext
        <4>2. ClientMode' = "stopped"
          BY <1>0, <1>1, <3>7, <4>1 DEF Seen
        <4>3. QED
          BY <3>5, <4>2 DEF Machine!machineVars
      <3>8. QED
        BY <1>0, <2>2, <3>3, <3>6, <3>7, SetEntry
    <2>3. QED
      BY <1>6, <2>1, <2>2 DEF OpResume
  <1>7. ASSUME NEW n \in Node, GuestWrite(n)
        PROVE  Machine!Next
    <2>1. /\ nodes[n].vm = "running" /\ latest' = latest + 1
          /\ nodes'[n].vm = "running"
      BY <1>0, <1>7 DEF GuestWrite, NodeTypeOK
    <2>2. n \in Running /\ n \in Running'
      BY <2>1, RunningNext DEF Running
    <2>3. /\ ClientMode = "running" /\ ClientMemory = latest
          /\ ClientMode' = "running" /\ ClientMemory' = latest + 1
      BY <1>1, <2>1, <2>2 DEF Seen
    <2>4. QED
      BY <2>3 DEF Machine!Next, Machine!Write
  <1>8. ~NodeFault
    BY NoFaultStep DEF Refines, GuestInv
  <1>9. CASE Handler
    <2>1. PICK c \in calls : \/ OpCreate(c) \/ OpSuspendLocal(c)
                             \/ OpSuspendUpload(c) \/ OpResume(c) \/ OpDestroy(c)
      BY <1>9 DEF Handler
    <2>2. ~OpDestroy(c)
      BY <1>0 DEF OpDestroy, Starts
    <2>3. QED
      BY <1>3, <1>4, <1>5, <1>6, <2>1, <2>2
  <1>10. QED
    BY <1>7, <1>8, <1>9 DEF NodeStep, NodeNext

\* So does every other step: the sandbox is listed, refused, or looks as before.
LEMMA RefinesStep ==
    ASSUME ~MayDelete, NoNodeFaults, Refines, [Next]_vars
    PROVE  Machine!Next \/ UNCHANGED Machine!machineVars
  <1>0. /\ GuestInv /\ AgentsStay /\ NodesStay /\ Base /\ Sited /\ Remembered
        /\ Unlisted /\ Seen
    BY ClientSees DEF Refines, GuestInv, AgentsStay
  <1>1. GuestInv'
    BY <1>0, GuestStep
  <1>2. AgentsStay'
    BY <1>1, FaultlessNext
  <1>3. Remembered'
    BY <1>1, <1>2 DEF GuestInv
  <1>4. ASSUME UNCHANGED <<nodes, latest>>, cr'.alive = cr.alive,
               cr.alive \/ rec'.alive = rec.alive
        PROVE  UNCHANGED Machine!machineVars
    BY <1>4, Stutters DEF Machine!machineVars
  <1>5. CASE EnsureCR \/ CreateRefused
    <2>1. /\ ~cr.alive /\ rec.alive /\ UNCHANGED <<nodes, latest>>
          /\ \/ EnsureCR /\ cr'.alive
             \/ CreateRefused /\ ~cr'.alive /\ ~rec'.alive
      <3>1. CASE EnsureCR
        BY <3>1 DEF EnsureCR, NoCR, nodeVars
      <3>2. CASE CreateRefused
        <4>1. /\ ~cr.alive /\ cr' = cr /\ rec' = NoRec /\ UNCHANGED nodeVars
              /\ rec = [NoRec EXCEPT !.alive = TRUE]
          BY <3>2 DEF CreateRefused
        <4>2. rec.alive /\ ~rec'.alive
          BY <4>1 DEF NoRec
        <4>3. QED
          BY <3>2, <4>1, <4>2 DEF nodeVars
      <3>3. QED
        BY <1>5, <3>1, <3>2
    <2>2. \A n \in Node : nodes[n].vm = "none" /\ nodes'[n].vm = "none"
      BY <1>0, <2>1 DEF Unlisted
    <2>3. Seen'
      BY <1>3, ClientSeesNext
    <2>4. ClientMode = "unlisted" /\ ClientMemory' = ClientMemory
      BY <1>0, <2>1, <2>2, <2>3 DEF Seen
    <2>5. ClientMode' = IF cr'.alive THEN "new"
                        ELSE IF rec'.alive THEN "unlisted" ELSE "gone"
      BY <2>2, <2>3 DEF Seen
    <2>6. QED
      BY <2>1, <2>4, <2>5 DEF Machine!Next, Machine!List, Machine!Drop
  <1>6. CASE Api
    <2>1. cr \in CR
      BY <1>0, BaseFacts
    <2>2. CASE ApiSuspend \/ ApiResume \/ RequestIdle
      BY <1>4, <2>1, <2>2 DEF ApiSuspend, ApiResume, RequestIdle, RequestState, CR, nodeVars
    <2>3. QED
      BY <1>5, <1>6, <2>2 DEF Api, ApiDelete
  <1>7. ASSUME NEW w \in Worker, Step(w) \/ Timeout(w)
        PROVE  UNCHANGED Machine!machineVars
    <2>1. Local(w) \/ Driver(w)
      BY <1>0, <1>7, LocalSteps, DriverSteps DEF Step
    <2>2. UNCHANGED <<nodes, latest>> /\ cr'.alive = cr.alive /\ cr.alive
      BY <2>1 DEF Local, Driver, Sends, Ends, Widens, nodeVars
    <2>3. QED
      BY <1>4, <2>2
  <1>8. ASSUME NEW w \in Worker, Crash(w)
        PROVE  UNCHANGED Machine!machineVars
    BY <1>0, <1>4, <1>8, CrashShape DEF Crashes
  <1>9. CASE ExpireLease \/ UNCHANGED vars
    BY <1>0, <1>4, <1>9, ExpiredLease DEF vars, nodeVars
  <1>10. CASE NodeStep
    BY <1>0, <1>2, <1>3, <1>10, NodeRefines
  <1>11. QED
    BY <1>6, <1>7, <1>8, <1>9, <1>10 DEF Next

\* Without node faults the control plane is one guest, whatever its replicas,
\* retries, timeouts and crashes: it boots once, and every resume continues
\* where the last suspend stopped it.
THEOREM ImplementsMachineUndeleted ==
    ASSUME ~MayDelete, NoNodeFaults
    PROVE  Spec => ImplementsMachine
  <1>1. Init => Unlisted
    BY DEF Init, NodeInit, Unlisted
  <1>2. GuestInv /\ Unlisted /\ [Next]_vars => Unlisted'
    BY UnlistedStep DEF GuestInv
  <1>3. GuestInv => AgentsStay
    BY NoFaultsStay
  <1>4. GuestInv /\ Unlisted /\ [Next]_vars => [Machine!Next]_(Machine!machineVars)
    BY <1>3, RefinesStep DEF Refines
  <1>5. QED
    BY <1>1, <1>2, <1>4, GuestAlways, MachineInitially, PTL
       DEF Spec, ImplementsMachine, Machine!Spec

-----------------------------------------------------------------------------
(* Deletion, with a single replica, as long as no node is lost: the record   *)
(* names the only node where anything of the sandbox can run, until a        *)
(* confirmed destroy has left nothing there.                                 *)

\* A record names a node once it has been placed, and until it goes.
Named(r) == r.node = None => r.state \in {"creating", "failed", "destroying"}

\* A node that has answered so has nothing of the sandbox left that runs.
Emptied(c) ==
    /\ c.step = "done"
    /\ c.res = "full" \/ (c.kind = "destroy" /\ c.res = "ok")

\* The awaited request was sent last, and a destroy is a deletion's.
Awaited ==
    \A c \in calls : c.by # None =>
        /\ \A d \in calls : d # c => d.id < c.id
        /\ c.kind = "destroy" => cr.deleting
        /\ Emptied(c) => Quiet

\* The guest runs on the record's node, and every request that can start it or
\* that anybody awaits is for that node.
InPlace ==
    /\ \A n \in Node : Reachable(n)
    /\ \A n \in Node : nodes[n].vm = "running" => rec.node = n
    /\ \A c \in calls :
          c.by # None \/ (c.step = "queued" /\ c.kind \in {"create", "resume"})
              => c.node = rec.node
    /\ Awaited
    /\ \A c \in calls : c.step = "upload" => c.kind # "destroy"

\* A resource that is gone, or has lost its record, leaves no node to look at,
\* and is not made again.
Listed ==
    /\ Named(rec)
    /\ ~rec.alive => rec.node = None
    /\ ~cr.alive => rec.node = None
    /\ ~rec.alive /\ cr.alive => cr.deleting

\* What the only reconcile u stands on: the record is still what it read,
\* but for the node that a create of its own goes on to.
Reading(u) ==
    /\ u.pc # "idle" => cr.alive
    /\ u.pc # "idle" /\ (u.cr.deleting \/ u.job = "delete") => cr.deleting
    /\ ~rec.alive => \/ u.pc \in {"idle", "unlist"}
                     \/ u.pc = "record" /\ u.cr.deleting
    /\ u.pc = "unlist" => ~rec.alive
    /\ u.pc = "drift" => u.rec.node # None
    /\ u.pc = "settle" => Named(u.rec)
    /\ u.pc = "mark" => u.job = "suspend"
    /\ u.pc \in {"call", "wait"} => u.job \in {"create", "suspend", "resume", "delete"}
    /\ u.pc \in {"mark", "call", "wait"} /\ u.job \in {"suspend", "resume"}
          => rec.node # None
    /\ \/ u.pc \in {"idle", "record", "unlist"}
       \/ u.pc \in {"call", "wait"} /\ u.job = "create"
       \/ u.rec.node = rec.node
    /\ u.pc \notin {"call", "wait", "unlist"} => u.full = {}
    /\ u.pc = "call" /\ rec.node \in u.full => Quiet

\* The inductive invariant.
Deletable == InPlace /\ Listed /\ \A w \in Worker : Reading(worker[w])

DeleteInv == Spending /\ (NodesStay => Deletable)

-----------------------------------------------------------------------------
(* The steps of the replica. *)

\* The sandbox stays where it is, and so does its resource.
Keeps(w) ==
    /\ nodes' = nodes
    /\ rec'.alive = rec.alive /\ rec'.node = rec.node /\ Named(rec')
    /\ cr'.alive = cr.alive /\ cr'.deleting = cr.deleting
    /\ Reading(worker[w])'

\* What the requests have become: the same, or given up.
GivenUp ==
    \A e \in calls' : \E d \in calls :
        /\ e.id = d.id /\ e.kind = d.kind /\ e.node = d.node
        /\ e.step = d.step /\ e.res = d.res
        /\ e = d \/ (e.by = None /\ d \notin calls')

\* Where every step of a reconcile starts from.
LEMMA Starting ==
    ASSUME TypeOK, Deletable, NEW w \in Worker, worker[w].pc # "idle"
    PROVE  /\ rec \in Rec /\ cr \in CR /\ Named(rec) /\ cr.alive
           /\ worker[w] \in WorkerRec /\ worker \in [Worker -> WorkerRec]
           /\ Reading(worker[w])
           /\ worker[w].pc \notin {"record", "unlist"} => rec.alive = TRUE
           /\ (rec.alive = TRUE) = rec.alive
  <1>1. rec \in Rec /\ cr \in CR /\ worker[w] \in WorkerRec
        /\ worker \in [Worker -> WorkerRec]
    BY WorkerTyped DEF TypeOK
  <1>2. Named(rec) /\ Reading(worker[w])
    BY DEF Deletable, Listed
  <1>3. cr.alive /\ (worker[w].pc \notin {"record", "unlist"} => rec.alive)
    BY <1>2 DEF Reading
  <1>4. rec.alive \in BOOLEAN
    BY <1>1 DEF Rec
  <1>5. QED
    BY <1>1, <1>2, <1>3, <1>4

\* A replica that is done reads nothing.
LEMMA DoneReading ==
    ASSUME TypeOK, NEW w \in Worker, Done(w)
    PROVE  Reading(worker[w])'
  <1>1. worker'[w] = Idle
    BY WorkerTyped DEF Done
  <1>2. QED
    BY <1>1 DEF Reading, Idle

LEMMA Reporting ==
    ASSUME TypeOK, NEW w \in Worker, NEW state, NEW term, Report(w, state, term)
    PROVE  /\ cr'.alive = cr.alive /\ cr'.deleting = cr.deleting
           /\ Reading(worker[w])'
  BY Published, DoneReading DEF Report, TypeOK

LEMMA Concluding ==
    ASSUME TypeOK, Deletable, NEW w \in Worker,
           worker[w].pc \notin {"idle", "record", "unlist"},
           NEW state, NEW term, Conclude(w, state, term), nodes' = nodes,
           state = "failed" \/ rec.node # None
    PROVE  Keeps(w)
  <1>0. rec \in Rec /\ rec.alive = TRUE
    BY Starting
  <1>1. rec'.alive = TRUE /\ rec'.state = state /\ rec'.node = rec.node
    BY <1>0 DEF Conclude, ForceState, Rec
  <1>2. Named(rec')
    BY <1>1 DEF Named
  <1>3. QED
    BY <1>0, <1>1, <1>2, Reporting DEF Conclude, Keeps

\* A driver call that raises.
LEMMA Failing ==
    ASSUME TypeOK, Deletable, NEW w \in Worker, worker[w].pc \in {"call", "wait"},
           Failed(w), nodes' = nodes
    PROVE  Keeps(w)
  <1>0. Reading(worker[w])
    BY Starting
  <1>1. PICK state, term :
           /\ Conclude(w, state, term)
           /\ state = "failed" \/ worker[w].job = "suspend"
    BY DEF Failed
  <1>2. state = "failed" \/ rec.node # None
    BY <1>0, <1>1 DEF Reading
  <1>3. QED
    BY <1>1, <1>2, Concluding

LEMMA FetchKeeps ==
    ASSUME TypeOK, Deletable, NEW w \in Worker, Fetch(w)
    PROVE  Keeps(w)
  <1>1. rec \in Rec /\ cr \in CR /\ Listed
    BY DEF TypeOK, Deletable
  <1> DEFINE u == [Idle EXCEPT !.pc = "record", !.cr = cr]
  <1>2. worker' = [worker EXCEPT ![w] = u] /\ cr.alive
        /\ nodes' = nodes /\ cr' = cr /\ rec' = rec /\ calls' = calls
    BY DEF Fetch, nodeVars
  <1>3. u.pc = "record" /\ u.cr = cr /\ u.job = "none" /\ u.full = {}
    BY DEF Idle
  <1> HIDE DEF u
  <1>4. worker'[w] = u
    BY <1>2, Moved
  <1>5. Reading(worker[w])'
    BY <1>1, <1>2, <1>3, <1>4 DEF Reading, Listed
  <1>6. QED
    BY <1>1, <1>2, <1>5 DEF Keeps, Listed

\* The record of a resource that is not being deleted is still there.
LEMMA ReconcileKeeps ==
    ASSUME TypeOK, Deletable, NEW w \in Worker, Reconcile(w)
    PROVE  Keeps(w)
  <1>1. worker[w].pc = "record" /\ ~worker[w].cr.deleting
    BY DEF Reconcile
  <1>0. /\ rec \in Rec /\ cr \in CR /\ Named(rec) /\ cr.alive
        /\ worker[w] \in WorkerRec /\ Reading(worker[w])
    BY <1>1, Starting
  <1> DEFINE c == worker[w].cr
  <1>2. rec.alive /\ Known(w) = rec
    BY <1>0, <1>1 DEF Reading, Known
  <1>3. rec' = rec /\ nodes' = nodes /\ calls' = calls
    BY <1>2 DEF Reconcile, nodeVars
  <1>4. cr'.alive = cr.alive /\ cr'.deleting = cr.deleting
    BY <1>0, <1>2, Published DEF Reconcile, Proceed
  <1>5. \/ Done(w)
        \/ rec.state = "running" /\ Proceed(w, "drift", rec, rec.state)
        \/ Proceed(w, "lease", rec, rec.state)
        \/ /\ StateFor(c, rec) # rec.state
           /\ Proceed(w, "settle", rec, StateFor(c, rec))
    BY <1>2 DEF Reconcile
  <1>6. CASE Done(w)
    BY <1>0, <1>3, <1>4, <1>6, DoneReading DEF Keeps
  <1>7. ASSUME NEW pc \in {"drift", "lease", "settle"}, NEW state,
               Proceed(w, pc, rec, state),
               pc # "lease" => rec.node # None
        PROVE  Keeps(w)
    <2> DEFINE job == JobFor(c, rec)
               r == [rec EXCEPT !.state = state]
               u == [worker[w] EXCEPT !.pc = pc, !.job = job, !.rec = r]
    <2>1. worker' = [worker EXCEPT ![w].pc = pc, ![w].job = job, ![w].rec = r]
      BY <1>7 DEF Proceed
    <2>2. job # "delete" /\ r.state = state /\ r.node = rec.node
      BY <1>0, Jobs DEF Rec, WorkerRec
    <2> HIDE DEF job, r
    <2>3. worker' = [worker EXCEPT ![w] = u]
      BY <1>0, <2>1 DEF TypeOK
    <2>4. u.pc = pc /\ u.job = job /\ u.rec = r /\ u.cr = c /\ u.full = worker[w].full
      BY <1>0 DEF WorkerRec
    <2> HIDE DEF u
    <2>5. worker'[w] = u
      BY <2>3, Moved
    <2>6. pc # "lease" => Named(r)
      BY <1>0, <1>7, <2>2 DEF Named
    <2>7. /\ u.full = {} /\ ~u.cr.deleting /\ u.job # "delete"
          /\ u.pc \in {"drift", "lease", "settle"} /\ u.rec.node = rec.node
          /\ u.pc = "drift" => rec.node # None
          /\ u.pc = "settle" => Named(u.rec)
      BY <1>0, <1>1, <1>7, <2>2, <2>4, <2>6 DEF Reading
    <2>8. Reading(worker[w])'
      BY <1>0, <1>2, <1>3, <1>4, <2>5, <2>7 DEF Reading
    <2>9. QED
      BY <1>0, <1>3, <1>4, <2>8 DEF Keeps
  <1>8. StateFor(c, rec) # rec.state => rec.node # None
    BY <1>0 DEF StateFor, Named
  <1>9. rec.state = "running" => rec.node # None
    BY <1>0 DEF Named
  <1>10. QED
    BY <1>5, <1>6, <1>7, <1>8, <1>9

LEMMA ReconcileDeleteKeeps ==
    ASSUME TypeOK, Deletable, NEW w \in Worker, ReconcileDelete(w)
    PROVE  Keeps(w)
  <1>1. /\ worker[w].pc = "record" /\ worker[w].cr.deleting
        /\ nodes' = nodes /\ calls' = calls /\ cr' = cr /\ rec' = rec
    BY DEF ReconcileDelete, nodeVars
  <1>0. /\ rec \in Rec /\ Named(rec) /\ cr.alive
        /\ worker[w] \in WorkerRec /\ Reading(worker[w])
    BY <1>1, Starting
  <1> DEFINE pc == IF rec.alive THEN "lease" ELSE "unlist"
             u == [worker[w] EXCEPT !.pc = pc, !.job = "delete", !.rec = rec]
  <1>2. worker' = [worker EXCEPT ![w].pc = pc, ![w].job = "delete", ![w].rec = rec]
    BY DEF ReconcileDelete
  <1>3. /\ pc \in {"lease", "unlist"}
        /\ pc = "lease" => rec.alive
        /\ pc = "unlist" => ~rec.alive
    OBVIOUS
  <1> HIDE DEF pc
  <1>4. worker' = [worker EXCEPT ![w] = u]
    BY <1>0, <1>2 DEF TypeOK
  <1>5. /\ u.pc = pc /\ u.job = "delete" /\ u.rec = rec /\ u.cr = worker[w].cr
        /\ u.full = worker[w].full
    BY <1>0 DEF WorkerRec
  <1> HIDE DEF u
  <1>6. worker'[w] = u
    BY <1>4, Moved
  <1>7. Reading(worker[w])'
    BY <1>0, <1>1, <1>3, <1>5, <1>6 DEF Reading
  <1>8. QED
    BY <1>0, <1>1, <1>7 DEF Keeps

LEMMA DriftKeeps ==
    ASSUME TypeOK, Deletable, NEW w \in Worker, Drift(w)
    PROVE  Keeps(w)
  <1>1. /\ worker[w].pc = "drift" /\ nodes' = nodes /\ calls' = calls /\ rec' = rec
    BY DEF Drift, nodeVars
  <1>0. /\ rec \in Rec /\ cr \in CR /\ Named(rec) /\ cr.alive
        /\ worker[w] \in WorkerRec /\ Reading(worker[w])
    BY <1>1, Starting
  <1>2. cr'.alive = cr.alive /\ cr'.deleting = cr.deleting
    BY <1>0, Published DEF Drift
  <1> DEFINE lost == [worker[w].rec EXCEPT !.state = "orphaned"]
             u == [worker[w] EXCEPT !.pc = "settle", !.rec = lost]
  <1>3. \/ Done(w)
        \/ worker' = [worker EXCEPT ![w].pc = "settle", ![w].rec = lost]
    BY DEF Drift
  <1>4. lost.state = "orphaned" /\ lost.node = worker[w].rec.node
    BY <1>0 DEF WorkerRec, Rec
  <1> HIDE DEF lost
  <1>5. CASE Done(w)
    BY <1>0, <1>1, <1>2, <1>5, DoneReading DEF Keeps
  <1>6. CASE worker' = [worker EXCEPT ![w].pc = "settle", ![w].rec = lost]
    <2>1. worker' = [worker EXCEPT ![w] = u]
      BY <1>0, <1>6 DEF TypeOK
    <2>2. /\ u.pc = "settle" /\ u.job = worker[w].job /\ u.rec = lost
          /\ u.cr = worker[w].cr /\ u.full = worker[w].full
      BY <1>0 DEF WorkerRec
    <2> HIDE DEF u
    <2>3. worker'[w] = u
      BY <2>1, Moved
    <2>4. Reading(worker[w])'
      BY <1>0, <1>1, <1>2, <1>4, <2>2, <2>3 DEF Reading, Named
    <2>5. QED
      BY <1>0, <1>1, <1>2, <2>4 DEF Keeps
  <1>7. QED
    BY <1>3, <1>5, <1>6

\* The verdict of a probe is about the record that is still there.
LEMMA SettleKeeps ==
    ASSUME TypeOK, Deletable, NEW w \in Worker, Settle(w)
    PROVE  Keeps(w)
  <1>1. worker[w].pc = "settle" /\ nodes' = nodes /\ calls' = calls
    BY DEF Settle, nodeVars
  <1>0. /\ rec \in Rec /\ cr \in CR /\ Named(rec)
        /\ worker[w] \in WorkerRec /\ Reading(worker[w]) /\ rec.alive = TRUE
    BY <1>1, Starting
  <1> DEFINE state == worker[w].rec.state
  <1>2. rec'.alive = TRUE /\ rec'.state = state /\ rec'.node = rec.node
    BY <1>0 DEF Settle, ForceState, Rec
  <1>3. cr'.alive = cr.alive /\ cr'.deleting = cr.deleting
    BY <1>0, Published DEF Settle
  <1>4. Named(worker[w].rec) /\ worker[w].rec.node = rec.node
    BY <1>0, <1>1 DEF Reading
  <1>5. Named(rec')
    BY <1>2, <1>4 DEF Named
  <1>6. Reading(worker[w])'
    BY DoneReading DEF Settle
  <1>7. QED
    BY <1>0, <1>1, <1>2, <1>3, <1>5, <1>6 DEF Keeps

LEMMA LeaseKeeps ==
    ASSUME TypeOK, Deletable, NEW w \in Worker, Lease(w)
    PROVE  Keeps(w)
  <1>1. /\ worker[w].pc = "lease" /\ nodes' = nodes /\ calls' = calls
        /\ rec' = rec /\ cr' = cr
    BY DEF Lease, nodeVars
  <1>0. /\ Named(rec) /\ cr.alive
        /\ worker[w] \in WorkerRec /\ Reading(worker[w]) /\ rec.alive = TRUE
    BY <1>1, Starting
  <1>2. CASE Done(w)
    BY <1>0, <1>1, <1>2, DoneReading DEF Keeps
  <1>3. CASE Goto(w, "work")
    <2> DEFINE u == [worker[w] EXCEPT !.pc = "work"]
    <2>1. worker' = [worker EXCEPT ![w] = u]
      BY <1>0, <1>3 DEF TypeOK, Goto
    <2>2. /\ u.pc = "work" /\ u.job = worker[w].job /\ u.rec = worker[w].rec
          /\ u.cr = worker[w].cr /\ u.full = worker[w].full
      BY <1>0 DEF WorkerRec
    <2> HIDE DEF u
    <2>3. worker'[w] = u
      BY <2>1, Moved
    <2>4. Reading(worker[w])'
      BY <1>0, <1>1, <2>2, <2>3 DEF Reading
    <2>5. QED
      BY <1>0, <1>1, <2>4 DEF Keeps
  <1>4. QED
    BY <1>2, <1>3 DEF Lease

\* On to the driver, with the record marked.
LEMMA Engaging ==
    ASSUME TypeOK, Deletable, NEW w \in Worker,
           NEW job \in {"create", "resume"}, AtWork(w, job),
           NEW state \in {"creating", "resuming"}, Engage(w, state),
           rec.node # None \/ job = "create",
           state = "resuming" => job = "resume", nodes' = nodes, calls' = calls
    PROVE  Keeps(w)
  <1>1. worker[w].pc = "work" /\ worker[w].job = job
    BY DEF AtWork
  <1>0. /\ rec \in Rec /\ cr \in CR /\ cr.alive
        /\ worker[w] \in WorkerRec /\ Reading(worker[w]) /\ rec.alive = TRUE
    BY <1>1, Starting
  <1> DEFINE u == [worker[w] EXCEPT !.pc = "call", !.rec = rec]
  <1>2. worker' = [worker EXCEPT ![w] = u]
    BY <1>0 DEF TypeOK, Engage
  <1>3. /\ u.pc = "call" /\ u.job = job /\ u.rec = rec
        /\ u.cr = worker[w].cr /\ u.full = worker[w].full
    BY <1>0, <1>1 DEF WorkerRec
  <1> HIDE DEF u
  <1>4. worker'[w] = u
    BY <1>2, Moved
  <1>5. rec'.alive = TRUE /\ rec'.state = state /\ rec'.node = rec.node
    BY <1>0 DEF Engage, ForceState, Rec
  <1>6. cr'.alive = cr.alive /\ cr'.deleting = cr.deleting
    BY <1>0, Published DEF Engage
  <1>7. Reading(worker[w])'
    BY <1>0, <1>1, <1>3, <1>4, <1>5, <1>6 DEF Reading
  <1>8. Named(rec')
    BY <1>5 DEF Named
  <1>9. QED
    BY <1>0, <1>5, <1>6, <1>7, <1>8 DEF Keeps

LEMMA WorkCreateKeeps ==
    ASSUME TypeOK, Deletable, NEW w \in Worker, WorkCreate(w)
    PROVE  Keeps(w)
  <1>1. /\ AtWork(w, "create") /\ worker[w].pc = "work"
        /\ nodes' = nodes /\ calls' = calls
    BY DEF WorkCreate, AtWork, nodeVars
  <1>0. Named(rec)
    BY <1>1, Starting
  <1>2. CASE Report(w, "running", FALSE) /\ UNCHANGED rec
    BY <1>0, <1>1, <1>2, Reporting DEF Keeps
  <1>3. CASE Engage(w, "creating")
    BY <1>1, <1>3, Engaging
  <1>4. QED
    BY <1>2, <1>3 DEF WorkCreate

LEMMA WorkRecoverKeeps ==
    ASSUME TypeOK, Deletable, NEW w \in Worker, WorkRecover(w)
    PROVE  Keeps(w)
  <1>1. worker[w].pc = "work" /\ nodes' = nodes
    BY DEF WorkRecover, AtWork, nodeVars
  <1>0. rec \in Rec /\ Named(rec) /\ rec.alive = TRUE
    BY <1>1, Starting
  <1>2. CASE rec' = rec /\ cr' = cr /\ Done(w)
    BY <1>0, <1>1, <1>2, DoneReading DEF Keeps
  <1>3. CASE rec' = rec /\ Report(w, "suspending", FALSE)
    BY <1>0, <1>1, <1>3, Reporting DEF Keeps
  <1>4. CASE rec.state = "suspending" /\ Conclude(w, worker[w].cr.target, FALSE)
    BY <1>0, <1>1, <1>4, Concluding DEF Named
  <1>5. CASE /\ rec.state = "suspending" /\ ForceState("running")
             /\ cr' = cr /\ Done(w)
    <2>1. rec'.alive = TRUE /\ rec'.node = rec.node /\ rec.node # None
      BY <1>0, <1>5 DEF ForceState, Rec, Named
    <2>2. QED
      BY <1>0, <1>1, <1>5, <2>1, DoneReading DEF Keeps, Named
  <1>6. QED
    BY <1>2, <1>3, <1>4, <1>5 DEF WorkRecover

LEMMA WorkSuspendKeeps ==
    ASSUME TypeOK, Deletable, NEW w \in Worker, WorkSuspend(w)
    PROVE  Keeps(w)
  <1>1. /\ worker[w].pc = "work" /\ worker[w].job = "suspend"
        /\ nodes' = nodes /\ calls' = calls /\ rec' = rec
    BY DEF WorkSuspend, AtWork, nodeVars
  <1>0. /\ rec \in Rec /\ cr \in CR /\ Named(rec) /\ cr.alive
        /\ worker[w] \in WorkerRec /\ Reading(worker[w]) /\ rec.alive = TRUE
    BY <1>1, Starting
  <1>2. cr'.alive = cr.alive /\ cr'.deleting = cr.deleting
    <2>1. \/ cr' = cr
          \/ Publish(w, FALSE, "running")
          \/ cr' = [cr EXCEPT !.desired = "Running", !.target = "suspended",
                              !.op = ops + 1, !.obs = worker[w].cr.op,
                              !.term = FALSE, !.phase = "running"]
      BY DEF WorkSuspend, CancelIdle
    <2>2. QED
      BY <1>0, <2>1, Published DEF CR
  <1>3. CASE Done(w)
    BY <1>0, <1>1, <1>2, <1>3, DoneReading DEF Keeps
  <1>4. CASE /\ rec.state = "running"
             /\ worker' = [worker EXCEPT ![w].pc = "mark", ![w].rec = rec]
    <2> DEFINE u == [worker[w] EXCEPT !.pc = "mark", !.rec = rec]
    <2>1. worker' = [worker EXCEPT ![w] = u]
      BY <1>0, <1>4 DEF TypeOK
    <2>2. /\ u.pc = "mark" /\ u.job = "suspend" /\ u.rec = rec
          /\ u.cr = worker[w].cr /\ u.full = worker[w].full
      BY <1>0, <1>1 DEF WorkerRec
    <2> HIDE DEF u
    <2>3. worker'[w] = u
      BY <2>1, Moved
    <2>4. rec.node # None
      BY <1>0, <1>4 DEF Named
    <2>5. Reading(worker[w])'
      BY <1>0, <1>1, <1>2, <2>2, <2>3, <2>4 DEF Reading
    <2>6. QED
      BY <1>0, <1>1, <1>2, <2>5 DEF Keeps
  <1>5. QED
    BY <1>3, <1>4 DEF WorkSuspend, CancelIdle

LEMMA MarkKeeps ==
    ASSUME TypeOK, Deletable, NEW w \in Worker, Mark(w)
    PROVE  Keeps(w)
  <1>1. worker[w].pc = "mark" /\ nodes' = nodes /\ calls' = calls
    BY DEF Mark, nodeVars
  <1>0. /\ rec \in Rec /\ cr \in CR /\ cr.alive
        /\ worker[w] \in WorkerRec /\ Reading(worker[w]) /\ rec.alive = TRUE
    BY <1>1, Starting
  <1>2. worker[w].job = "suspend" /\ rec.node # None
    BY <1>0, <1>1 DEF Reading
  <1>3. CASE Conclude(w, "running", TRUE)
    BY <1>1, <1>2, <1>3, Concluding
  <1>4. CASE /\ ForceState("suspending") /\ Publish(w, FALSE, "suspending")
             /\ Goto(w, "call")
    <2> DEFINE u == [worker[w] EXCEPT !.pc = "call"]
    <2>1. worker' = [worker EXCEPT ![w] = u]
      BY <1>0, <1>4 DEF TypeOK, Goto
    <2>2. /\ u.pc = "call" /\ u.job = worker[w].job /\ u.rec = worker[w].rec
          /\ u.cr = worker[w].cr /\ u.full = worker[w].full
      BY <1>0 DEF WorkerRec
    <2> HIDE DEF u
    <2>3. worker'[w] = u
      BY <2>1, Moved
    <2>4. rec'.alive = TRUE /\ rec'.node = rec.node
      BY <1>0, <1>4 DEF ForceState, Rec
    <2>5. cr'.alive = cr.alive /\ cr'.deleting = cr.deleting
      BY <1>0, <1>4, Published
    <2>6. Reading(worker[w])'
      BY <1>0, <1>1, <1>2, <2>2, <2>3, <2>4, <2>5 DEF Reading
    <2>7. QED
      BY <1>0, <1>1, <1>2, <2>4, <2>5, <2>6 DEF Keeps, Named
  <1>5. QED
    BY <1>3, <1>4 DEF Mark

LEMMA WorkResumeKeeps ==
    ASSUME TypeOK, Deletable, NEW w \in Worker, WorkResume(w)
    PROVE  Keeps(w)
  <1>1. /\ AtWork(w, "resume") /\ worker[w].pc = "work"
        /\ nodes' = nodes /\ calls' = calls
    BY DEF WorkResume, AtWork, nodeVars
  <1>0. Named(rec)
    BY <1>1, Starting
  <1>2. CASE Report(w, "running", FALSE) /\ UNCHANGED rec
    BY <1>0, <1>1, <1>2, Reporting DEF Keeps
  <1>3. CASE rec.state = "resuming" /\ Conclude(w, "running", FALSE)
    BY <1>0, <1>1, <1>3, Concluding DEF Named
  <1>4. CASE Conclude(w, "failed", TRUE)
    BY <1>1, <1>4, Concluding
  <1>5. CASE /\ rec.state \in {"suspended", "slept", "resuming", "orphaned"}
             /\ Engage(w, "resuming")
    <2>1. rec.node # None
      BY <1>0, <1>5 DEF Named
    <2>2. QED
      BY <1>1, <1>5, <2>1, Engaging
  <1>6. QED
    BY <1>2, <1>3, <1>4, <1>5 DEF WorkResume

LEMMA WorkDeleteKeeps ==
    ASSUME TypeOK, Deletable, NEW w \in Worker, WorkDelete(w)
    PROVE  Keeps(w)
  <1>1. /\ worker[w].pc = "work" /\ worker[w].job = "delete"
        /\ nodes' = nodes /\ calls' = calls
    BY DEF WorkDelete, AtWork, nodeVars
  <1>0. /\ rec \in Rec /\ cr \in CR /\ cr.alive
        /\ worker[w] \in WorkerRec /\ Reading(worker[w]) /\ rec.alive = TRUE
    BY <1>1, Starting
  <1> DEFINE u == [worker[w] EXCEPT !.pc = "call"]
  <1>2. worker' = [worker EXCEPT ![w] = u]
    BY <1>0 DEF TypeOK, WorkDelete, Goto
  <1>3. /\ u.pc = "call" /\ u.job = worker[w].job /\ u.rec = worker[w].rec
        /\ u.cr = worker[w].cr /\ u.full = worker[w].full
    BY <1>0 DEF WorkerRec
  <1> HIDE DEF u
  <1>4. worker'[w] = u
    BY <1>2, Moved
  <1>5. rec'.alive = TRUE /\ rec'.state = "destroying" /\ rec'.node = rec.node
    BY <1>0 DEF WorkDelete, ForceState, Rec
  <1>6. cr'.alive = cr.alive /\ cr'.deleting = cr.deleting
    BY <1>0, Published DEF WorkDelete
  <1>7. Reading(worker[w])'
    BY <1>0, <1>1, <1>3, <1>4, <1>5, <1>6 DEF Reading
  <1>8. QED
    BY <1>0, <1>1, <1>5, <1>6, <1>7 DEF Keeps, Named

\* The requests nobody answers for leave everything in its place.
LEMMA PlacesKept ==
    ASSUME InPlace, nodes' = nodes, rec'.node = rec.node, cr'.deleting = cr.deleting,
           GivenUp
    PROVE  InPlace' /\ (Quiet => Quiet')
  <1>1. Quiet => Quiet'
    BY DEF GivenUp, Quiet, NoneStarts
  <1>2. ASSUME NEW e \in calls'
        PROVE  e.by # None \/ (e.step = "queued" /\ e.kind \in {"create", "resume"})
                  => e.node = rec'.node
    <2>1. PICK d \in calls : /\ e.kind = d.kind /\ e.node = d.node /\ e.step = d.step
                             /\ e = d \/ e.by = None
      BY <1>2 DEF GivenUp
    <2>2. QED
      BY <2>1 DEF InPlace, Awaited
  <1>3. ASSUME NEW e \in calls', e.by # None
        PROVE  /\ \A f \in calls' : f # e => f.id < e.id
               /\ e.kind = "destroy" => cr'.deleting
               /\ Emptied(e) => Quiet'
    <2>1. e \in calls
      BY <1>3 DEF GivenUp
    <2>2. ASSUME NEW f \in calls', f # e
          PROVE  f.id < e.id
      <3>1. PICK d \in calls : f.id = d.id /\ (f = d \/ d \notin calls')
        BY <2>2 DEF GivenUp
      <3>2. d # e
        BY <1>3, <2>2, <3>1
      <3>3. QED
        BY <1>3, <2>1, <3>1, <3>2 DEF InPlace, Awaited
    <2>3. e.kind = "destroy" => cr'.deleting
      BY <1>3, <2>1 DEF InPlace, Awaited
    <2>4. Emptied(e) => Quiet
      BY <1>3, <2>1 DEF InPlace, Awaited
    <2>5. QED
      BY <1>1, <2>2, <2>3, <2>4
  <1>4. \A e \in calls' : e.step = "upload" => e.kind # "destroy"
    BY DEF GivenUp, InPlace
  <1>5. Awaited'
    BY <1>3 DEF Awaited, Emptied
  <1>6. QED
    BY <1>1, <1>2, <1>4, <1>5 DEF InPlace, Reachable

\* So a step that keeps the sandbox in its place keeps the invariant.
LEMMA KeptDeletable ==
    ASSUME OneReplica, Deletable, NEW w \in Worker, Keeps(w), GivenUp,
           cr.alive
    PROVE  Deletable'
  <1>1. InPlace'
    BY PlacesKept DEF Deletable, Keeps
  <1>2. Listed'
    BY DEF Deletable, Listed, Keeps
  <1>3. \A v \in Worker : v = w
    BY DEF OneReplica
  <1>4. QED
    BY <1>1, <1>2, <1>3 DEF Deletable, Keeps

\* A step without a request.
LEMMA LocalDeletable ==
    ASSUME OneReplica, TypeOK, FenceInv, Deletable, NEW w \in Worker,
           \/ Fetch(w) \/ Reconcile(w) \/ ReconcileDelete(w) \/ Drift(w)
           \/ Settle(w) \/ Lease(w) \/ WorkCreate(w) \/ WorkRecover(w)
           \/ WorkSuspend(w) \/ Mark(w) \/ WorkResume(w) \/ WorkDelete(w)
    PROVE  Deletable'
  <1>1. Keeps(w)
    BY FetchKeeps, ReconcileKeeps, ReconcileDeleteKeeps, DriftKeeps, SettleKeeps,
       LeaseKeeps, WorkCreateKeeps, WorkRecoverKeeps, WorkSuspendKeeps, MarkKeeps,
       WorkResumeKeeps, WorkDeleteKeeps
  <1>2. calls' = calls /\ cr.alive
    <2>1. worker[w].pc # "idle" => cr.alive
      BY DEF Deletable, Reading
    <2>2. calls' = calls
      BY DEF Fetch, Reconcile, ReconcileDelete, Drift, Settle, Lease, WorkCreate,
         WorkRecover, WorkSuspend, Mark, WorkResume, WorkDelete, nodeVars
    <2>3. cr.alive
      BY <2>1 DEF Fetch, Reconcile, ReconcileDelete, Drift, Settle, Lease, WorkCreate,
         WorkRecover, WorkSuspend, Mark, WorkResume, WorkDelete, AtWork
    <2>4. QED
      BY <2>2, <2>3
  <1>3. GivenUp
    BY <1>2 DEF GivenUp
  <1>4. QED
    BY <1>1, <1>2, <1>3, KeptDeletable

\* What the destroyed record leaves: nothing that runs or could start.
LEMMA DeletedDeletable ==
    ASSUME OneReplica, TypeOK, Deletable, NEW w \in Worker,
           worker[w].pc \in {"call", "wait"}, cr.deleting, Deleted(w), Quiet,
           nodes' = nodes, calls' \in SUBSET calls, \A c \in calls' : c.by = None
    PROVE  Deletable'
  <1>0. /\ rec \in Rec /\ cr \in CR /\ cr.alive
        /\ worker[w] \in WorkerRec /\ Reading(worker[w])
    BY Starting
  <1> DEFINE u == [worker[w] EXCEPT !.pc = "unlist"]
  <1>1. worker' = [worker EXCEPT ![w] = u]
    BY <1>0 DEF TypeOK, Deleted, Goto
  <1>2. /\ u.pc = "unlist" /\ u.job = worker[w].job /\ u.cr = worker[w].cr
    BY <1>0 DEF WorkerRec
  <1> HIDE DEF u
  <1>3. worker'[w] = u
    BY <1>1, Moved
  <1>4. rec' = NoRec /\ cr' = cr
    BY DEF Deleted
  <1>5. /\ ~rec'.alive /\ rec'.node = None /\ rec'.state = "creating"
    BY <1>4 DEF NoRec
  <1>6. Quiet' /\ \A e \in calls' : e.step = "queued" => e.kind \notin {"create", "resume"}
    BY DEF Quiet, NoneStarts
  <1>7. InPlace'
    BY <1>6 DEF InPlace, Awaited, Deletable, Quiet, Reachable
  <1>8. Listed'
    BY <1>0, <1>4, <1>5 DEF Listed, Named
  <1>9. Reading(worker[w])'
    BY <1>0, <1>2, <1>3, <1>4, <1>5 DEF Reading
  <1>10. \A v \in Worker : v = w
    BY DEF OneReplica
  <1>11. QED
    BY <1>7, <1>8, <1>9, <1>10 DEF Deletable

\* The operation is over with a VM where the record has it.
LEMMA UpKeeps ==
    ASSUME TypeOK, Deletable, NEW w \in Worker, worker[w].pc \in {"call", "wait"},
           rec.node \in Node, Up(w, rec.node), nodes' = nodes
    PROVE  Keeps(w)
  <1>0. rec \in Rec /\ rec.alive = TRUE
    BY Starting
  <1>1. rec'.alive = TRUE /\ rec'.state = "running" /\ rec'.node = rec.node
    BY <1>0 DEF Up, Rec
  <1>2. rec.node # None
    BY NodeAgentAssumption
  <1>3. QED
    BY <1>0, <1>1, <1>2, Reporting DEF Up, Keeps, Named

\* A request is sent to the node that the record names from now on.
LEMMA RequestDeletable ==
    ASSUME OneReplica, TypeOK, FenceInv, Deletable, NEW w \in Worker,
           worker[w].pc = "call", NEW kind \in Kind, NEW n \in Node,
           Request(w, kind, n), nodes' = nodes, cr' = cr,
           kind = "destroy" => worker[w].job = "delete",
           \/ rec' = rec /\ rec.node = n
           \/ /\ Journal(n) /\ worker[w].job = "create"
              /\ n # rec.node => Quiet
    PROVE  Deletable'
  <1>0. /\ rec \in Rec /\ cr.alive /\ calls \in SUBSET Call
        /\ worker[w] \in WorkerRec /\ Reading(worker[w]) /\ rec.alive = TRUE
        /\ Named(rec)
    BY Starting DEF TypeOK, NodeTypeOK
  <1>1. \A c \in calls : c.by = None
    BY NobodyAwaits DEF Leased
  <1>2. rec'.alive = TRUE /\ rec'.state = rec.state /\ rec'.node = n /\ n # None
    BY <1>0, NodeAgentAssumption DEF Journal, Rec
  <1> DEFINE u == [worker[w] EXCEPT !.pc = "wait"]
  <1>3. worker' = [worker EXCEPT ![w] = u]
    BY <1>0 DEF TypeOK, Request, Goto
  <1>4. /\ u.pc = "wait" /\ u.job = worker[w].job /\ u.rec = worker[w].rec
        /\ u.cr = worker[w].cr /\ u.full = worker[w].full
    BY <1>0 DEF WorkerRec
  <1> HIDE DEF u
  <1>5. worker'[w] = u
    BY <1>3, Moved
  <1>6. Reading(worker[w])'
    BY <1>0, <1>2, <1>4, <1>5 DEF Reading
  <1>7. PICK i \in 1 .. MaxCall :
           /\ \A d \in calls : d.id < i
           /\ calls' = calls \cup
                {[id |-> i, by |-> w, kind |-> kind, node |-> n,
                  step |-> "queued", res |-> ""]}
    BY DEF Request, Send
  <1>8. PICK c : c = [id |-> i, by |-> w, kind |-> kind, node |-> n,
                      step |-> "queued", res |-> ""]
    OBVIOUS
  <1>9. /\ c.by = w /\ c.kind = kind /\ c.step = "queued" /\ c.node = n /\ c.id = i
    BY <1>8
  <1>10. calls' = calls \cup {c} /\ \A d \in calls : d.id < c.id
    BY <1>7, <1>8, <1>9
  <1>11. \A m \in Node : nodes'[m].vm = "running" => rec'.node = m
    BY <1>2 DEF Deletable, InPlace, Quiet
  <1>12. \A d \in calls' :
            d.by # None \/ (d.step = "queued" /\ d.kind \in {"create", "resume"})
              => d.node = rec'.node
    <2>1. ASSUME NEW d \in calls, d.step = "queued", d.kind \in {"create", "resume"}
          PROVE  d.node = n
      BY <2>1 DEF Deletable, InPlace, Quiet, NoneStarts
    <2>2. QED
      BY <1>1, <1>2, <1>9, <1>10, <2>1
  <1>13. kind = "destroy" => cr'.deleting
    BY <1>0 DEF Reading
  <1>14. Awaited'
    <2>1. ~Emptied(c)
      BY <1>9 DEF Emptied
    <2>2. QED
      BY <1>1, <1>9, <1>10, <1>13, <2>1 DEF Awaited
  <1>15. \A d \in calls' : d.step = "upload" => d.kind # "destroy"
    BY <1>9, <1>10 DEF Deletable, InPlace
  <1>16. InPlace'
    BY <1>11, <1>12, <1>14, <1>15 DEF Deletable, InPlace, Reachable
  <1>17. Listed'
    BY <1>0, <1>2 DEF Listed, Named
  <1>18. \A v \in Worker : v = w
    BY DEF OneReplica
  <1>19. QED
    BY <1>6, <1>16, <1>17, <1>18 DEF Deletable

LEMMA CallCreateDeletable ==
    ASSUME OneReplica, TypeOK, FenceInv, Deletable, NEW w \in Worker, CallCreate(w)
    PROVE  Deletable'
  <1>1. /\ worker[w].pc = "call" /\ worker[w].job = "create" /\ nodes' = nodes
    BY DEF CallCreate, Calling
  <1>0. rec \in Rec /\ cr.alive /\ Reading(worker[w]) /\ \A n \in Node : Reachable(n)
    BY <1>1, Starting DEF Deletable, InPlace
  <1>2. ASSUME Failed(w) \/ (rec.node \in Node /\ Up(w, rec.node)), calls' = calls
        PROVE  Deletable'
    <2>1. Keeps(w)
      BY <1>1, <1>2, Failing, UpKeeps
    <2>2. GivenUp
      BY <1>2 DEF GivenUp
    <2>3. QED
      BY <1>0, <2>1, <2>2, KeptDeletable
  <1>3. ASSUME NEW n \in Node, Journal(n), Request(w, "create", n), cr' = cr,
               \/ n = rec.node
               \/ rec.node = None
               \/ rec.node \in worker[w].full
        PROVE  Deletable'
    <2>1. n # rec.node => Quiet
      <3>1. rec.node = None => Quiet
        <4>1. \A c \in calls : c.node # None
          BY CallFields DEF TypeOK, NodeTypeOK
        <4>2. QED
          BY <4>1, NodeAgentAssumption DEF Deletable, InPlace, Quiet, NoneStarts
      <3>2. QED
        BY <1>0, <1>1, <1>3, <3>1 DEF Reading
    <2>2. "create" \in Kind
      BY DEF Kind
    <2>3. QED
      BY <1>1, <1>3, <2>1, <2>2, RequestDeletable
  <1>4. rec.node = None \/ (rec.node \in Node /\ Reachable(rec.node))
    BY <1>0 DEF Rec
  <1>5. QED
    BY <1>2, <1>3, <1>4 DEF CallCreate

\* A suspend and a resume go to the node of the record.
LEMMA CallNamedDeletable ==
    ASSUME OneReplica, TypeOK, FenceInv, Deletable, NEW w \in Worker,
           CallSuspend(w) \/ CallResume(w)
    PROVE  Deletable'
  <1>1. /\ worker[w].pc = "call" /\ worker[w].job \in {"suspend", "resume"}
        /\ nodes' = nodes
    BY DEF CallSuspend, CallResume, Calling
  <1>0. rec \in Rec /\ cr.alive /\ Reading(worker[w]) /\ \A n \in Node : Reachable(n)
    BY <1>1, Starting DEF Deletable, InPlace
  <1>2. /\ worker[w].rec.node = rec.node /\ rec.node \in Node /\ rec.node # None
        /\ Reachable(rec.node)
    BY <1>0, <1>1 DEF Reading, Rec
  <1>3. PICK kind \in {"suspend", "resume"} :
           Request(w, kind, rec.node) /\ rec' = rec /\ cr' = cr
    BY <1>2 DEF CallSuspend, CallResume
  <1>4. kind \in Kind /\ kind # "destroy"
    BY <1>3 DEF Kind
  <1>5. QED
    BY <1>1, <1>2, <1>3, <1>4, RequestDeletable

\* A record without a node has nothing to destroy.
LEMMA CallDeleteDeletable ==
    ASSUME OneReplica, TypeOK, FenceInv, Deletable, NEW w \in Worker, CallDelete(w)
    PROVE  Deletable'
  <1>1. worker[w].pc = "call" /\ worker[w].job = "delete" /\ nodes' = nodes
    BY DEF CallDelete, Calling
  <1>0. /\ rec \in Rec /\ cr.alive /\ Reading(worker[w]) /\ cr.deleting
        /\ \A n \in Node : Reachable(n)
        /\ \A c \in calls : c.by = None
    BY <1>1, Starting, NobodyAwaits DEF Deletable, InPlace, Reading, Leased
  <1>2. worker[w].rec.node = rec.node
    BY <1>0, <1>1 DEF Reading
  <1>3. CASE rec.node = None /\ Deleted(w) /\ calls' = calls
    <2>1. \A c \in calls : c.node # None
      BY CallFields DEF TypeOK, NodeTypeOK
    <2>2. Quiet
      BY <1>3, <2>1, NodeAgentAssumption DEF Deletable, InPlace, Quiet, NoneStarts
    <2>3. QED
      BY <1>0, <1>1, <1>3, <2>2, DeletedDeletable
  <1>4. CASE rec.node # None /\ Request(w, "destroy", rec.node) /\ rec' = rec /\ cr' = cr
    <2>1. rec.node \in Node /\ "destroy" \in Kind
      BY <1>0, <1>4 DEF Rec, Kind
    <2>2. QED
      BY <1>1, <1>4, <2>1, RequestDeletable
  <1>5. rec.node = None \/ (rec.node \in Node /\ Reachable(rec.node))
    BY <1>0 DEF Rec
  <1>6. QED
    BY <1>2, <1>3, <1>4, <1>5 DEF CallDelete

LEMMA ReceiveOkDeletable ==
    ASSUME OneReplica, TypeOK, FenceInv, Deletable, NEW w \in Worker, ReceiveOk(w)
    PROVE  Deletable'
  <1>1. PICK c \in Replies(w, "ok") :
           /\ calls' = calls \ {c}
           /\ CASE c.kind \in {"create", "resume"} ->
                       IF Probe(c.node) # "unknown" THEN Up(w, c.node) ELSE Failed(w)
                [] c.kind = "suspend" ->
                       IF rec.alive /\ rec.state = "suspending"
                       THEN /\ rec' = [rec EXCEPT !.state = worker[w].cr.target,
                                                  !.snap = TRUE]
                            /\ Report(w, worker[w].cr.target, FALSE)
                       ELSE Failed(w)
                [] c.kind = "destroy" -> Deleted(w)
           /\ UNCHANGED <<nodes, s3, latest, budget, ops>>
    BY DEF ReceiveOk
  <1>2. /\ c \in calls /\ c.by = w /\ c.step = "done" /\ c.res = "ok" /\ c.by # None
        /\ c \in Call
    BY NodeAgentAssumption DEF Replies, TypeOK, NodeTypeOK
  <1>3. worker[w].pc = "wait" /\ \A d \in calls : d.by # None => d = c
    BY <1>2, OnlyThisAwaited
  <1>0. rec \in Rec /\ cr.alive /\ rec.alive = TRUE
    BY <1>3, Starting
  <1>4. c.node = rec.node /\ rec.node \in Node /\ rec.node # None
    BY <1>2, NodeAgentAssumption DEF Deletable, InPlace, Call
  <1>5. GivenUp
    BY <1>1 DEF GivenUp
  <1>6. CASE Failed(w) \/ Up(w, c.node)
    <2>1. Keeps(w)
      BY <1>1, <1>3, <1>4, <1>6, Failing, UpKeeps
    <2>2. QED
      BY <1>0, <1>5, <2>1, KeptDeletable
  <1>7. CASE /\ rec' = [rec EXCEPT !.state = worker[w].cr.target, !.snap = TRUE]
             /\ Report(w, worker[w].cr.target, FALSE)
    <2>1. rec'.alive = TRUE /\ rec'.node = rec.node
      BY <1>0, <1>7 DEF Rec
    <2>2. Keeps(w)
      BY <1>0, <1>1, <1>4, <1>7, <2>1, Reporting DEF Keeps, Named
    <2>3. QED
      BY <1>0, <1>5, <2>2, KeptDeletable
  <1>8. CASE c.kind = "destroy" /\ Deleted(w)
    <2>1. Quiet /\ cr.deleting
      BY <1>2, <1>8 DEF Deletable, InPlace, Awaited, Emptied
    <2>2. \A d \in calls' : d.by = None
      BY <1>1, <1>3
    <2>3. QED
      BY <1>1, <1>3, <1>8, <2>1, <2>2, DeletedDeletable
  <1>9. c.kind \in {"create", "suspend", "resume", "destroy"}
    BY <1>2 DEF Call, Kind
  <1>10. CASE c.kind \in {"create", "resume"}
    BY <1>1, <1>6, <1>10
  <1>11. CASE c.kind = "suspend"
    BY <1>1, <1>6, <1>7, <1>11
  <1>12. CASE c.kind = "destroy"
    BY <1>1, <1>8, <1>12
  <1>13. QED
    BY <1>9, <1>10, <1>11, <1>12

LEMMA ReceiveFullDeletable ==
    ASSUME OneReplica, TypeOK, FenceInv, Deletable, NEW w \in Worker, ReceiveFull(w)
    PROVE  Deletable'
  <1>1. PICK c \in Replies(w, "full") :
           /\ calls' = calls \ {c}
           /\ worker' = [worker EXCEPT ![w].pc = "call", ![w].full = @ \cup {c.node}]
           /\ nodes' = nodes /\ cr' = cr /\ rec' = rec
    BY DEF ReceiveFull
  <1>2. c \in calls /\ c.by = w /\ c.by # None /\ Emptied(c)
    BY NodeAgentAssumption DEF Replies, Emptied
  <1>3. worker[w].pc = "wait"
    BY <1>2, OnlyThisAwaited
  <1>0. /\ cr.alive /\ worker[w] \in WorkerRec /\ Reading(worker[w])
        /\ rec.alive = TRUE /\ Named(rec)
    BY <1>3, Starting
  <1> DEFINE full == worker[w].full \cup {c.node}
             u == [worker[w] EXCEPT !.pc = "call", !.full = full]
  <1>4. worker' = [worker EXCEPT ![w] = u]
    BY <1>1 DEF TypeOK
  <1> HIDE DEF full
  <1>5. /\ u.pc = "call" /\ u.job = worker[w].job /\ u.rec = worker[w].rec
        /\ u.cr = worker[w].cr
    BY <1>0 DEF WorkerRec
  <1> HIDE DEF u
  <1>6. worker'[w] = u
    BY <1>4, Moved
  <1>7. GivenUp
    BY <1>1 DEF GivenUp
  <1>8. Quiet'
    BY <1>1, <1>2, <1>7, PlacesKept DEF Deletable, InPlace, Awaited
  <1>9. Reading(worker[w])'
    BY <1>0, <1>1, <1>3, <1>5, <1>6, <1>8 DEF Reading
  <1>10. Keeps(w)
    BY <1>0, <1>1, <1>9 DEF Keeps
  <1>11. QED
    BY <1>0, <1>7, <1>10, KeptDeletable

LEMMA ReceiveErrorDeletable ==
    ASSUME OneReplica, TypeOK, FenceInv, Deletable, NEW w \in Worker, ReceiveError(w)
    PROVE  Deletable'
  <1>1. PICK c \in calls :
           c.by = w /\ calls' = calls \ {c} /\ Failed(w) /\ nodes' = nodes
    BY DEF ReceiveError, Replies
  <1>2. worker[w].pc = "wait"
    BY <1>1, OnlyThisAwaited
  <1>3. Keeps(w) /\ cr.alive
    BY <1>1, <1>2, Failing, Starting
  <1>4. GivenUp
    BY <1>1 DEF GivenUp
  <1>5. QED
    BY <1>3, <1>4, KeptDeletable

LEMMA TimeoutDeletable ==
    ASSUME OneReplica, TypeOK, FenceInv, Deletable, NEW w \in Worker, Timeout(w)
    PROVE  Deletable'
  <1>1. PICK c \in calls :
           /\ c.by = w
           /\ calls' = (calls \ {c}) \cup {[c EXCEPT !.by = None]}
           /\ Failed(w) /\ nodes' = nodes
    BY DEF Timeout
  <1>2. worker[w].pc = "wait" /\ c \in Call /\ c.by # None
    BY <1>1, OnlyThisAwaited, NodeAgentAssumption DEF TypeOK, NodeTypeOK
  <1>3. Keeps(w) /\ cr.alive
    BY <1>1, <1>2, Failing, Starting
  <1>4. PICK a : a = [c EXCEPT !.by = None]
    OBVIOUS
  <1>5. /\ a.id = c.id /\ a.kind = c.kind /\ a.node = c.node /\ a.by = None
        /\ a.step = c.step /\ a.res = c.res
    BY <1>2, <1>4 DEF Call
  <1>6. calls' = (calls \ {c}) \cup {a} /\ c # a
    BY <1>1, <1>2, <1>4, <1>5
  <1>7. GivenUp
    BY <1>5, <1>6 DEF GivenUp
  <1>8. QED
    BY <1>3, <1>7, KeptDeletable

LEMMA CrashDeletable ==
    ASSUME OneReplica, TypeOK, FenceInv, Deletable, NEW w \in Worker, Crash(w)
    PROVE  Deletable'
  <1>1. /\ worker[w].pc # "idle" /\ nodes' = nodes /\ cr' = cr /\ rec' = rec
        /\ Done(w)
    BY DEF Crash
  <1>2. cr.alive /\ Named(rec) /\ calls \in SUBSET Call
    BY <1>1, Starting DEF TypeOK, NodeTypeOK
  <1>3. Keeps(w)
    BY <1>1, <1>2, DoneReading DEF Keeps
  <1> DEFINE cut(c) == [c EXCEPT !.by = None]
  <1>4. \A c \in calls :
           /\ cut(c).by = None /\ cut(c).id = c.id /\ cut(c).kind = c.kind
           /\ cut(c).node = c.node /\ cut(c).step = c.step /\ cut(c).res = c.res
    BY <1>2 DEF Call
  <1>5. \A e \in calls' : \/ e \in calls /\ e.by # w
                          \/ \E c \in calls : c.by = w /\ e = cut(c)
    BY DEF Crash
  <1> HIDE DEF cut
  <1>6. w # None
    BY NodeAgentAssumption
  <1>7. GivenUp
    BY <1>4, <1>5, <1>6 DEF GivenUp
  <1>8. QED
    BY <1>2, <1>3, <1>7, KeptDeletable

\* The resource goes after its record.
LEMMA UnlistDeletable ==
    ASSUME OneReplica, TypeOK, FenceInv, Deletable, NEW w \in Worker, Unlist(w)
    PROVE  Deletable'
  <1>1. /\ worker[w].pc = "unlist" /\ nodes' = nodes /\ rec' = rec /\ calls' = calls
        /\ Done(w)
        /\ cr' = (IF cr.alive /\ cr.deleting THEN NoCR ELSE cr) \/ cr' = cr
    BY DEF Unlist, nodeVars
  <1>2. /\ cr.alive /\ ~rec.alive /\ rec.node = None /\ Listed
    BY <1>1, Starting DEF Deletable, Reading, Listed
  <1>3. \A v \in Worker : v = w
    BY DEF OneReplica
  <1>4. \A c \in calls : c.by = None
    <2> SUFFICES ASSUME NEW c \in calls, c.by # None
                 PROVE  FALSE
      OBVIOUS
    <2>1. c.by \in Worker
      BY DEF TypeOK, NodeTypeOK, Call
    <2>2. worker[c.by].pc = "wait"
      BY DEF FenceInv, AwaitedWaits
    <2>3. QED
      BY <1>1, <1>3, <2>1, <2>2
  <1>5. InPlace'
    BY <1>1, <1>4 DEF Deletable, InPlace, Awaited, Reachable
  <1>6. cr' = NoCR \/ cr' = cr
    BY <1>1
  <1>7. Listed'
    BY <1>1, <1>2, <1>6 DEF Listed, Named, NoCR
  <1>8. Reading(worker[w])'
    BY <1>1, DoneReading
  <1>9. QED
    BY <1>3, <1>5, <1>7, <1>8 DEF Deletable

-----------------------------------------------------------------------------
(* The other steps. *)

\* What a node does to its requests and its VMs leaves them in their place.
LEMMA NodePlaces ==
    ASSUME TypeOK, InPlace, NodeShape, NodesStay',
           rec' = rec, cr' = cr
    PROVE  InPlace' /\ (Quiet => Quiet')
  <1>0. /\ NodeCalls /\ Births /\ calls \in SUBSET Call
    BY DEF NodeShape, TypeOK, NodeTypeOK
  <1>1. ASSUME NEW e \in calls', e \notin calls
        PROVE  \E d \in calls : Advances(e, d)
    BY <1>0, <1>1 DEF NodeCalls
  <1>2. \A e \in calls' : e.step = "queued" => e \in calls
    BY <1>1 DEF Advances
  <1>3. Quiet => Quiet'
    BY <1>0, <1>2 DEF Births, Quiet, NoneStarts
  <1>4. \A m \in Node : nodes'[m].vm = "running" => rec.node = m
    BY <1>0 DEF Births, InPlace
  <1>5. \A n \in Node : Reachable(n)'
    BY DEF NodeShape, Links, InPlace
  <1>6. ASSUME NEW e \in calls',
               e.by # None \/ (e.step = "queued" /\ e.kind \in {"create", "resume"})
        PROVE  e.node = rec'.node
    <2>1. CASE e \in calls
      BY <1>6, <2>1 DEF InPlace
    <2>2. CASE e \notin calls
      <3>1. PICK d \in calls : Advances(e, d)
        BY <1>1, <2>2
      <3>2. d.by = e.by /\ d.node = e.node /\ e.step # "queued"
        BY <3>1 DEF Advances
      <3>3. QED
        BY <1>6, <3>2 DEF InPlace
    <2>3. QED
      BY <2>1, <2>2
  <1>7. ASSUME NEW e \in calls', e.step = "upload"
        PROVE  e.kind # "destroy"
    <2>1. CASE e \in calls
      BY <1>7, <2>1 DEF InPlace
    <2>2. CASE e \notin calls
      BY <1>1, <1>7, <2>2 DEF Advances, Starts
    <2>3. QED
      BY <2>1, <2>2
  <1>8. ASSUME NEW e \in calls', e.by # None
        PROVE  /\ \A f \in calls' : f # e => f.id < e.id
               /\ e.kind = "destroy" => cr.deleting
    <2>1. PICK d \in calls : /\ d.id = e.id /\ d.by = e.by /\ d.kind = e.kind
                             /\ d = e \/ (e \notin calls /\ d \notin calls')
      BY <1>1 DEF Advances
    <2>2. e.kind = "destroy" => cr.deleting
      BY <1>8, <2>1 DEF InPlace, Awaited
    <2>3. ASSUME NEW f \in calls', f # e
          PROVE  f.id < e.id
      <3>1. PICK g \in calls : /\ g.id = f.id /\ g.by = f.by
                               /\ g = f \/ (f \notin calls /\ g \notin calls')
        BY <1>1 DEF Advances
      <3>2. g # d
        BY <1>0, <2>1, <2>3, <3>1 DEF NodeCalls
      <3>3. QED
        BY <1>8, <2>1, <3>1, <3>2 DEF InPlace, Awaited
    <2>4. QED
      BY <2>2, <2>3
  <1>9. ASSUME NEW e \in calls', e.by # None, Emptied(e)
        PROVE  Quiet'
    <2>1. CASE e \in calls
      BY <1>3, <1>9, <2>1 DEF InPlace, Awaited
    <2>2. CASE e \notin calls
      <3>1. PICK d \in calls : Advances(e, d)
        BY <1>1, <2>2
      <3>2. PICK kind : Starts(d, kind) /\ nodes'[d.node].vm = "none"
        BY <1>9, <3>1 DEF Emptied, Advances
      <3>3. /\ d.by # None /\ d \notin calls' /\ d.node = rec.node
            /\ \A c \in calls : c # d => c.id < d.id
        BY <1>9, <3>1 DEF Advances, InPlace, Awaited
      <3>4. ASSUME NEW c \in calls', c.step = "queued", c.kind \in {"create", "resume"}
            PROVE  FALSE
        <4>1. c \in calls /\ c # d /\ c.node = rec.node
          BY <1>2, <3>3, <3>4 DEF InPlace
        <4>2. c.id < d.id /\ d.id <= c.id
          BY <3>2, <3>3, <3>4, <4>1 DEF Starts
        <4>3. QED
          BY <1>0, <4>1, <4>2, CallFields
      <3>5. QED
        BY <1>4, <3>2, <3>3, <3>4 DEF Quiet, NoneStarts
    <2>3. QED
      BY <2>1, <2>2
  <1>10. Awaited'
    BY <1>8, <1>9 DEF Awaited, Emptied
  <1>11. QED
    BY <1>3, <1>4, <1>5, <1>6, <1>7, <1>10 DEF InPlace

LEMMA NodeDeletable ==
    ASSUME TypeOK, FenceInv, Spending, Deletable, NodeStep, NodesStay'
    PROVE  Deletable'
  <1>0. /\ NodeTypeOK /\ AwaitedWaits /\ NodeNext
        /\ \A c \in calls : c.step = "upload" => c.kind # "destroy"
        /\ rec' = rec /\ cr' = cr /\ worker' = worker
    BY DEF TypeOK, FenceInv, Deletable, InPlace, NodeStep
  <1>1. NodeShape
    BY <1>0, NodeSteps
  <1>2. InPlace' /\ (Quiet => Quiet')
    BY <1>0, <1>1, NodePlaces DEF Deletable
  <1>3. Listed'
    BY <1>0 DEF Deletable, Listed
  <1>4. ASSUME NEW w \in Worker
        PROVE  Reading(worker[w])'
    BY <1>0, <1>2 DEF Deletable, Reading
  <1>5. QED
    BY <1>2, <1>3, <1>4 DEF Deletable

\* A resource without its record is not made again; a request changes the
\* specification of a resource, and can only add its deletion.
LEMMA ApiDeletable ==
    ASSUME TypeOK, FenceInv, Deletable, Api
    PROVE  Deletable'
  <1>0. /\ nodes' = nodes /\ calls' = calls /\ worker' = worker
        /\ rec \in Rec /\ cr \in CR
    BY DEF Api, EnsureCR, CreateRefused, ApiSuspend, ApiResume, RequestIdle, ApiDelete,
       RequestState, nodeVars, TypeOK
  <1>1. ASSUME rec' = rec \/ (~cr.alive /\ rec.node = None /\ rec' = NoRec /\ cr' = cr),
               cr'.alive = cr.alive \/ (~cr.alive /\ rec.alive /\ rec' = rec),
               cr.alive /\ cr.deleting => cr'.deleting
        PROVE  Deletable'
    <2>1. rec'.node = rec.node /\ (rec' = NoRec => Named(rec'))
      BY <1>1 DEF NoRec, Named
    <2>2. \A w \in Worker : worker[w].pc # "idle" => cr.alive
      BY DEF Deletable, Reading
    <2>3. \A c \in calls : c.by # None => cr.alive
      BY <2>2 DEF FenceInv, AwaitedWaits, TypeOK, NodeTypeOK, Call
    <2>4. InPlace'
      BY <1>0, <1>1, <2>1, <2>3
         DEF Deletable, InPlace, Awaited, Quiet, NoneStarts, Reachable
    <2>5. Listed'
      BY <1>1, <2>1 DEF Deletable, Listed
    <2>6. ASSUME NEW w \in Worker
          PROVE  Reading(worker[w])'
      <3>1. CASE worker[w].pc = "idle"
        BY <1>0, <3>1 DEF Deletable, Reading
      <3>2. CASE worker[w].pc # "idle"
        <4>1. cr.alive /\ rec' = rec /\ cr'.alive /\ (cr.deleting => cr'.deleting)
          BY <1>1, <2>2, <3>2
        <4>2. QED
          BY <1>0, <4>1 DEF Deletable, Reading, Quiet, NoneStarts
      <3>3. QED
        BY <3>1, <3>2
    <2>7. QED
      BY <2>4, <2>5, <2>6 DEF Deletable
  <1>2. CASE CreateRefused
    <2>1. rec.node = None /\ ~cr.alive /\ rec' = NoRec /\ cr' = cr
      BY <1>2 DEF CreateRefused, NoRec
    <2>2. QED
      BY <1>1, <2>1
  <1>3. CASE EnsureCR
    <2>1. rec.alive /\ ~cr.alive /\ rec' = rec
      BY <1>3 DEF EnsureCR
    <2>2. QED
      BY <1>1, <2>1
  <1>4. CASE ApiSuspend \/ ApiResume \/ RequestIdle \/ ApiDelete
    <2>1. /\ cr'.alive = cr.alive /\ rec' = rec
          /\ cr'.deleting = cr.deleting \/ cr'.deleting = TRUE
      BY <1>0, <1>4 DEF ApiSuspend, ApiResume, RequestIdle, ApiDelete, RequestState, CR
    <2>2. QED
      BY <1>1, <2>1
  <1>5. QED
    BY <1>2, <1>3, <1>4 DEF Api

\* The lease is not part of it.
LEMMA SameDeletable ==
    ASSUME Deletable, nodes' = nodes, calls' = calls, cr' = cr, rec' = rec,
           worker' = worker
    PROVE  Deletable'
  BY DEF Deletable, InPlace, Awaited, Listed, Reading, Quiet, NoneStarts, Reachable

LEMMA DeletableStep ==
    ASSUME OneReplica, TypeOK, FenceInv, Spending, Deletable, [Next]_vars, NodesStay'
    PROVE  Deletable'
  <1>1. CASE Api
    BY <1>1, ApiDeletable
  <1>2. ASSUME NEW w \in Worker, Step(w)
        PROVE  Deletable'
    <2>1. CASE \/ CallCreate(w) \/ CallSuspend(w) \/ CallResume(w) \/ CallDelete(w)
      BY <2>1, CallCreateDeletable, CallNamedDeletable, CallDeleteDeletable
    <2>2. CASE ReceiveOk(w) \/ ReceiveFull(w) \/ ReceiveError(w) \/ Unlist(w)
      BY <2>2, ReceiveOkDeletable, ReceiveFullDeletable, ReceiveErrorDeletable,
         UnlistDeletable
    <2>3. QED
      BY <1>2, <2>1, <2>2, LocalDeletable DEF Step
  <1>3. ASSUME NEW w \in Worker, Timeout(w) \/ Crash(w)
        PROVE  Deletable'
    BY <1>3, TimeoutDeletable, CrashDeletable
  <1>4. CASE ExpireLease \/ UNCHANGED vars
    BY <1>4, SameDeletable DEF ExpireLease, nodeVars, vars
  <1>5. CASE NodeStep
    BY <1>5, NodeDeletable
  <1>6. QED
    BY <1>1, <1>2, <1>3, <1>4, <1>5 DEF Next

\* No step gives back a fault it spent.
LEMMA BudgetStep ==
    ASSUME TypeOK, [Next]_vars
    PROVE  budget' = budget \/ \E f \in Fault : Spend(f)
  <1>1. CASE Api \/ ExpireLease \/ UNCHANGED vars
    BY <1>1 DEF Api, EnsureCR, CreateRefused, ApiSuspend, ApiResume, RequestIdle,
       ApiDelete, RequestState, ExpireLease, nodeVars, vars
  <1>2. ASSUME NEW w \in Worker, Step(w)
        PROVE  budget' = budget
    BY <1>2 DEF Step, Fetch, Reconcile, ReconcileDelete, Drift, Settle, Lease,
       WorkCreate, WorkRecover, WorkSuspend, Mark, WorkResume, WorkDelete, CallCreate,
       CallSuspend, CallResume, CallDelete, ReceiveOk, ReceiveFull, ReceiveError,
       Unlist, nodeVars
  <1>3. ASSUME NEW w \in Worker, Timeout(w) \/ Crash(w)
        PROVE  budget' = budget \/ \E f \in Fault : Spend(f)
    BY <1>3, FaultKinds DEF Timeout, Crash
  <1>4. CASE NodeStep
    <2>1. CASE Handler
      BY <2>1, FaultKinds
         DEF Handler, OpCreate, OpSuspendLocal, OpSuspendUpload, OpResume, OpDestroy
    <2>2. CASE NodeFault
      BY <2>2, FaultKinds
         DEF NodeFault, AgentRestart, Partition, Death, HeartbeatExpire, NodeReturn
    <2>3. CASE \E n \in Node : GuestWrite(n)
      BY <2>3 DEF GuestWrite
    <2>4. QED
      BY <1>4, <2>1, <2>2, <2>3 DEF NodeStep, NodeNext
  <1>5. QED
    BY <1>1, <1>2, <1>3, <1>4 DEF Next

LEMMA DeleteInitially == Init => DeleteInv
  <1> SUFFICES ASSUME Init
               PROVE  Spending /\ Deletable
    BY DEF DeleteInv
  <1>1. /\ \A n \in Node : nodes[n].link = "up" /\ nodes[n].vm = "none"
        /\ calls = {} /\ budget = Budget
        /\ rec.alive = TRUE /\ rec.node = None /\ rec.state = "creating"
    BY DEF Init, NodeInit, NoRec
  <1>2. \A w \in Worker : worker[w].pc = "idle" /\ worker[w].full = {}
    BY DEF Init, Idle
  <1>3. Spending
    BY <1>1, NodeAgentAssumption DEF Spending
  <1>4. InPlace /\ Listed
    BY <1>1 DEF InPlace, Awaited, Listed, Named, Reachable
  <1>5. \A w \in Worker : Reading(worker[w])
    BY <1>1, <1>2 DEF Reading
  <1>6. QED
    BY <1>3, <1>4, <1>5 DEF Deletable

LEMMA DeleteStep ==
    OneReplica /\ TypeOK /\ FenceInv /\ DeleteInv /\ [Next]_vars => DeleteInv'
  <1> SUFFICES ASSUME OneReplica, TypeOK, FenceInv, DeleteInv, [Next]_vars
               PROVE  DeleteInv'
    OBVIOUS
  <1>1. budget \in [Fault -> Nat]
    BY DEF TypeOK, NodeTypeOK
  <1>2. Spending' /\ (NodesStay' => NodesStay)
    BY <1>1, BudgetStep, Spends DEF DeleteInv
  <1>3. QED
    BY <1>2, DeletableStep DEF DeleteInv

LEMMA DeleteInvariant ==
    ASSUME OneReplica
    PROVE  Spec => []DeleteInv
  BY DeleteInitially, DeleteStep, FenceInitially, FenceStep, LifecycleTypeCorrect, PTL
     DEF Spec

\* With a single replica nothing of a sandbox runs once Kubernetes has dropped
\* its resource, whatever crashes, restarts, is repeated or given up, as long as
\* no node is lost (destroy_confirmed and _reconcile_delete).
THEOREM DeletesWhileNodesStay ==
    ASSUME OneReplica
    PROVE  Spec => [](NodesStay => NoVmAfterDelete)
  <1>1. DeleteInv => (NodesStay => NoVmAfterDelete)
    <2> SUFFICES ASSUME NodesStay, DeleteInv, ~cr.alive
                 PROVE  Running = {}
      BY DEF NoVmAfterDelete
    <2>1. rec.node = None /\ \A n \in Node : nodes[n].vm = "running" => rec.node = n
      BY DEF DeleteInv, Deletable, InPlace, Listed
    <2>2. QED
      BY <2>1, NodeAgentAssumption DEF Running
  <1>2. QED
    BY <1>1, DeleteInvariant, PTL

\* So it does where no node is ever cut off or dies, the agents restarting or
\* not: the property as the runs check it.
THEOREM DeletesForGood ==
    ASSUME OneReplica, Budget["partition"] = 0, Budget["death"] = 0
    PROVE  Spec => []NoVmAfterDelete
  <1>1. TypeOK /\ DeleteInv => NodesStay
    <2>1. "partition" \in Fault /\ "death" \in Fault
      BY DEF Fault
    <2>2. QED
      BY <2>1 DEF TypeOK, NodeTypeOK, DeleteInv, Spending, NodesStay
  <1>2. QED
    BY <1>1, DeleteInvariant, DeletesWhileNodesStay, LifecycleTypeCorrect, PTL
=============================================================================
