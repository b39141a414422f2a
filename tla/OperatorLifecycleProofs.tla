---------------------- MODULE OperatorLifecycleProofs ----------------------
(***************************************************************************)
(* Type correctness and the fence of the reconcile loop, for every set of  *)
(* replicas and nodes, every number of operations and every fault budget.  *)
(***************************************************************************)
EXTENDS OperatorLifecycle, TLAPS

-----------------------------------------------------------------------------
(* Types of the node-agents. *)

LEMMA AnswerTyped ==
    ASSUME calls \in SUBSET Call, NEW c \in calls,
           NEW res \in {"ok", "error", "full"}, Answer(c, res)
    PROVE  calls' \in SUBSET Call
  <1>1. c \in Call
    OBVIOUS
  <1>2. [c EXCEPT !.step = "done",
                  !.res = IF Reachable(c.node) THEN res ELSE "error"] \in Call
    BY <1>1 DEF Call
  <1>3. QED
    BY <1>2 DEF Answer

LEMMA SpendTyped ==
    ASSUME budget \in [Fault -> Nat], NEW f \in Fault, Spend(f)
    PROVE  budget' \in [Fault -> Nat]
  BY DEF Spend

LEMMA SetTyped ==
    ASSUME NodeTypeOK, NEW n \in Node, NEW vm \in {"none", "running", "suspended"},
           NEW mem \in Version, NEW disk \in Version, Set(n, vm, mem, disk)
    PROVE  nodes' \in [Node -> [link : {"up", "silent", "gone"},
                                vm   : {"none", "running", "suspended"},
                                mem  : Version,
                                disk : Version]]
  BY DEF NodeTypeOK, Set

LEMMA CutTyped ==
    ASSUME calls \in SUBSET Call, NEW n \in Node, Cut(n)
    PROVE  calls' \in SUBSET Call
  <1>1. \A c \in calls : [c EXCEPT !.step = "done", !.res = "error"] \in Call
    BY DEF Call
  <1>2. QED
    BY <1>1 DEF Cut

LEMMA FaultKinds ==
    {"crash", "timeout", "upload", "reject", "full", "restart", "partition",
     "death"} = Fault
  BY DEF Fault

\* What a node does keeps its types.
LEMMA NodeTyped ==
    ASSUME NodeTypeOK, NodeNext
    PROVE  NodeTypeOK'
  <1> USE NodeAgentAssumption
  <1>0. /\ 0 \in Version /\ 1 \in Version
        /\ \A n \in Node : /\ nodes[n].vm \in {"none", "running", "suspended"}
                           /\ nodes[n].mem \in Version
                           /\ nodes[n].disk \in Version
                           /\ Source(n) \in Version
        /\ \A c \in calls : c \in Call /\ c.node \in Node
        /\ calls \in SUBSET Call
        /\ budget \in [Fault -> Nat]
    <2>1. 0 \in Version /\ 1 \in Version
      BY DEF Version
    <2>2. calls \in SUBSET Call /\ budget \in [Fault -> Nat] /\ s3 \in Version
      BY DEF NodeTypeOK
    <2>3. \A n \in Node : /\ nodes[n].vm \in {"none", "running", "suspended"}
                          /\ nodes[n].mem \in Version
                          /\ nodes[n].disk \in Version
      BY DEF NodeTypeOK
    <2>4. \A c \in calls : c \in Call /\ c.node \in Node
      BY <2>2 DEF Call
    <2>5. QED
      BY <2>1, <2>2, <2>3, <2>4 DEF Source
  <1>1. ASSUME NEW c \in calls, OpCreate(c)
        PROVE  NodeTypeOK'
    <2>1. calls' \in SUBSET Call
      BY <1>0, <1>1, AnswerTyped DEF OpCreate
    <2>2. budget' \in [Fault -> Nat]
      BY <1>0, <1>1, SpendTyped, FaultKinds DEF OpCreate
    <2>3. nodes' \in [Node -> [link : {"up", "silent", "gone"},
                               vm   : {"none", "running", "suspended"},
                               mem  : Version,
                               disk : Version]]
      BY <1>0, <1>1, SetTyped DEF OpCreate, NodeTypeOK
    <2>4. latest' \in Version /\ s3' \in Version
      BY <1>0, <1>1 DEF OpCreate, NodeTypeOK
    <2>5. QED
      BY <2>1, <2>2, <2>3, <2>4 DEF NodeTypeOK
  <1>2. ASSUME NEW c \in calls, OpSuspendLocal(c)
        PROVE  NodeTypeOK'
    <2>1. calls' \in SUBSET Call
      <3>1. [c EXCEPT !.step = "upload"] \in Call
        BY <1>0 DEF Call
      <3>2. QED
        BY <1>0, <1>2, <3>1, AnswerTyped DEF OpSuspendLocal
    <2>2. budget' \in [Fault -> Nat]
      BY <1>0, <1>2, SpendTyped, FaultKinds DEF OpSuspendLocal
    <2>3. nodes' \in [Node -> [link : {"up", "silent", "gone"},
                               vm   : {"none", "running", "suspended"},
                               mem  : Version,
                               disk : Version]]
      BY <1>0, <1>2, SetTyped DEF OpSuspendLocal, NodeTypeOK
    <2>4. latest' \in Version /\ s3' \in Version
      BY <1>2 DEF OpSuspendLocal, NodeTypeOK
    <2>5. QED
      BY <2>1, <2>2, <2>3, <2>4 DEF NodeTypeOK
  <1>3. ASSUME NEW c \in calls, OpSuspendUpload(c)
        PROVE  NodeTypeOK'
    <2>1. calls' \in SUBSET Call
      BY <1>0, <1>3, AnswerTyped DEF OpSuspendUpload
    <2>2. budget' \in [Fault -> Nat]
      BY <1>0, <1>3, SpendTyped, FaultKinds DEF OpSuspendUpload
    <2>3. nodes' = nodes /\ latest' = latest /\ s3' \in Version
      BY <1>0, <1>3 DEF OpSuspendUpload, NodeTypeOK
    <2>4. QED
      BY <2>1, <2>2, <2>3 DEF NodeTypeOK
  <1>4. ASSUME NEW c \in calls, OpResume(c)
        PROVE  NodeTypeOK'
    <2>1. calls' \in SUBSET Call
      BY <1>0, <1>4, AnswerTyped DEF OpResume
    <2>2. budget' \in [Fault -> Nat]
      BY <1>0, <1>4, SpendTyped, FaultKinds DEF OpResume
    <2>3. nodes' \in [Node -> [link : {"up", "silent", "gone"},
                               vm   : {"none", "running", "suspended"},
                               mem  : Version,
                               disk : Version]]
      BY <1>0, <1>4, SetTyped DEF OpResume, NodeTypeOK
    <2>4. latest' \in Version /\ s3' \in Version
      BY <1>4 DEF OpResume, NodeTypeOK
    <2>5. QED
      BY <2>1, <2>2, <2>3, <2>4 DEF NodeTypeOK
  <1>5. ASSUME NEW c \in calls, OpDestroy(c)
        PROVE  NodeTypeOK'
    <2>1. calls' \in SUBSET Call
      BY <1>0, <1>5, AnswerTyped DEF OpDestroy
    <2>2. nodes' \in [Node -> [link : {"up", "silent", "gone"},
                               vm   : {"none", "running", "suspended"},
                               mem  : Version,
                               disk : Version]]
      BY <1>0, <1>5, SetTyped DEF OpDestroy
    <2>3. QED
      BY <1>5, <2>1, <2>2 DEF OpDestroy, NodeTypeOK
  <1>6. ASSUME NEW n \in Node, GuestWrite(n)
        PROVE  NodeTypeOK'
    <2>1. latest + 1 \in Version
      BY <1>6 DEF GuestWrite, NodeTypeOK, Version
    <2>2. QED
      BY <1>6, <2>1 DEF GuestWrite, NodeTypeOK
  <1>7. ASSUME NEW n \in Node, AgentRestart(n)
        PROVE  NodeTypeOK'
    <2>1. calls' \in SUBSET Call /\ budget' \in [Fault -> Nat]
      BY <1>0, <1>7, CutTyped, SpendTyped, FaultKinds DEF AgentRestart
    <2>2. QED
      BY <1>7, <2>1 DEF AgentRestart, NodeTypeOK
  <1>8. ASSUME NEW n \in Node, Partition(n)
        PROVE  NodeTypeOK'
    <2>1. budget' \in [Fault -> Nat]
      BY <1>0, <1>8, SpendTyped, FaultKinds DEF Partition
    <2>2. QED
      BY <1>8, <2>1 DEF Partition, NodeTypeOK
  <1>9. ASSUME NEW n \in Node, Death(n)
        PROVE  NodeTypeOK'
    <2>1. calls' \in SUBSET Call /\ budget' \in [Fault -> Nat]
      BY <1>0, <1>9, CutTyped, SpendTyped, FaultKinds DEF Death
    <2>2. QED
      BY <1>0, <1>9, <2>1 DEF Death, NodeTypeOK
  <1>10. ASSUME NEW n \in Node, HeartbeatExpire(n) \/ NodeReturn(n)
         PROVE  NodeTypeOK'
    BY <1>10 DEF HeartbeatExpire, NodeReturn, NodeTypeOK
  <1>11. QED
    BY <1>1, <1>2, <1>3, <1>4, <1>5, <1>6, <1>7, <1>8, <1>9, <1>10
       DEF NodeNext, Handler, NodeFault

-----------------------------------------------------------------------------
(* Types of the control plane. *)

WorkerRec == [pc : PC, job : Job, cr : CR, rec : Rec, full : SUBSET Node]

LEMMA Literals ==
    /\ NoCR \in CR /\ NoRec \in Rec /\ Idle \in WorkerRec
    /\ {"creating", "running", "suspending", "suspended", "slept", "resuming",
         "failed", "orphaned", "destroying"} = State
    /\ {"suspended", "slept"} = Target
    /\ {"none", "create", "suspend", "recover", "resume", "delete"} = Job
    /\ {"idle", "record", "drift", "settle", "lease", "unlist", "work", "mark",
         "call", "wait"} = PC
    /\ {"create", "suspend", "resume", "destroy"} = Kind
  <1> USE LifecycleAssumption
  <1>1. NoCR \in CR
    BY DEF NoCR, CR, Target, State
  <1>2. NoRec \in Rec
    BY DEF NoRec, Rec, State
  <1>3. Idle \in WorkerRec
    BY <1>1, <1>2 DEF Idle, WorkerRec, PC, Job
  <1>4. QED
    BY <1>1, <1>2, <1>3 DEF State, Target, Job, PC, Leased, Kind

LEMMA WorkerTyped ==
    ASSUME TypeOK, NEW w \in Worker
    PROVE  /\ worker \in [Worker -> WorkerRec]
           /\ worker[w] \in WorkerRec
           /\ worker[w].pc \in PC
           /\ worker[w].job \in Job
           /\ worker[w].cr \in CR
           /\ worker[w].cr.target \in State
           /\ worker[w].rec \in Rec
           /\ worker[w].full \in SUBSET Node
  <1>1. worker \in [Worker -> WorkerRec]
    BY DEF TypeOK, WorkerRec
  <1>2. worker[w] \in WorkerRec
    BY <1>1
  <1>3. /\ worker[w].pc \in PC /\ worker[w].job \in Job
        /\ worker[w].cr \in CR /\ worker[w].rec \in Rec
        /\ worker[w].full \in SUBSET Node
    BY <1>2 DEF WorkerRec
  <1>4. worker[w].cr.target \in State
    BY <1>3 DEF CR, Target, State
  <1>5. QED
    BY <1>1, <1>2, <1>3, <1>4

LEMMA DoneTyped ==
    ASSUME TypeOK, NEW w \in Worker, Done(w)
    PROVE  worker' \in [Worker -> WorkerRec]
  BY WorkerTyped, Literals DEF Done

LEMMA GotoTyped ==
    ASSUME TypeOK, NEW w \in Worker, NEW pc \in PC, Goto(w, pc)
    PROVE  worker' \in [Worker -> WorkerRec]
  <1>1. [worker[w] EXCEPT !.pc = pc] \in WorkerRec
    BY WorkerTyped DEF WorkerRec
  <1>2. worker' = [worker EXCEPT ![w] = [worker[w] EXCEPT !.pc = pc]]
    BY WorkerTyped DEF Goto
  <1>3. QED
    BY <1>1, <1>2, WorkerTyped

LEMMA ReleaseTyped ==
    ASSUME TypeOK, NEW w \in Worker, Release(w)
    PROVE  holder' \in Worker \cup {None}
  BY DEF TypeOK, Release

LEMMA ForceStateTyped ==
    ASSUME TypeOK, NEW state \in State, ForceState(state)
    PROVE  rec' \in Rec
  BY DEF TypeOK, ForceState, Rec

LEMMA ApiFailureTyped ==
    ASSUME TypeOK, ApiFailure
    PROVE  apiFails' \in 0 .. MaxApiFail
  BY LifecycleAssumption DEF TypeOK, ApiFailure

LEMMA PublishTyped ==
    ASSUME TypeOK, NEW w \in Worker, NEW term \in BOOLEAN,
           NEW phase \in State, Publish(w, term, phase)
    PROVE  cr' \in CR /\ apiFails' \in 0 .. MaxApiFail
  <1>1. worker[w].cr.op \in 0 .. MaxOp
    BY WorkerTyped DEF CR
  <1>2. cr \in CR /\ apiFails \in 0 .. MaxApiFail
    BY DEF TypeOK
  <1>3. [cr EXCEPT !.obs = worker[w].cr.op, !.term = term, !.phase = phase] \in CR
    BY <1>1, <1>2 DEF CR
  <1>4. QED
    BY <1>2, <1>3, ApiFailureTyped DEF Publish

LEMMA ReportTyped ==
    ASSUME TypeOK, NEW w \in Worker, NEW state \in State,
           NEW term \in BOOLEAN, Report(w, state, term)
    PROVE  /\ cr' \in CR
           /\ apiFails' \in 0 .. MaxApiFail
           /\ holder' \in Worker \cup {None}
           /\ worker' \in [Worker -> WorkerRec]
  BY PublishTyped, ReleaseTyped, DoneTyped DEF Report

LEMMA ConcludeTyped ==
    ASSUME TypeOK, NEW w \in Worker, NEW state \in State,
           NEW term \in BOOLEAN, Conclude(w, state, term)
    PROVE  /\ cr' \in CR
           /\ apiFails' \in 0 .. MaxApiFail
           /\ rec' \in Rec
           /\ holder' \in Worker \cup {None}
           /\ worker' \in [Worker -> WorkerRec]
  BY ReportTyped, ForceStateTyped DEF Conclude

LEMMA FailedTyped ==
    ASSUME TypeOK, NEW w \in Worker, Failed(w)
    PROVE  /\ cr' \in CR
           /\ apiFails' \in 0 .. MaxApiFail
           /\ rec' \in Rec
           /\ holder' \in Worker \cup {None}
           /\ worker' \in [Worker -> WorkerRec]
  <1>1. \/ Conclude(w, "failed", TRUE)
        \/ Conclude(w, "running", TRUE)
        \/ Conclude(w, "failed", FALSE)
    BY DEF Failed
  <1>2. "failed" \in State /\ "running" \in State
    BY DEF State
  <1>3. QED
    BY <1>1, <1>2, ConcludeTyped

LEMMA SendTyped ==
    ASSUME TypeOK, NEW w \in Worker, NEW kind \in Kind, NEW n \in Node,
           Send(w, kind, n)
    PROVE  calls' \in SUBSET Call
  <1>1. PICK i \in 1 .. MaxCall :
           calls' = calls \cup {[id |-> i, by |-> w, kind |-> kind, node |-> n,
                                 step |-> "queued", res |-> ""]}
    BY DEF Send
  <1>2. [id |-> i, by |-> w, kind |-> kind, node |-> n,
         step |-> "queued", res |-> ""] \in Call
    BY DEF Call
  <1>3. QED
    BY <1>1, <1>2 DEF TypeOK, NodeTypeOK

LEMMA KnownTyped ==
    ASSUME TypeOK, NEW w \in Worker
    PROVE  Known(w) \in Rec
  <1>1. worker[w].cr.phase \in State
    BY WorkerTyped DEF CR
  <1>2. QED
    BY <1>1, Literals DEF Known, Rec, TypeOK

LEMMA UpTyped ==
    ASSUME TypeOK, NEW w \in Worker, NEW n \in Node, Up(w, n)
    PROVE  /\ cr' \in CR
           /\ apiFails' \in 0 .. MaxApiFail
           /\ rec' \in Rec
           /\ holder' \in Worker \cup {None}
           /\ worker' \in [Worker -> WorkerRec]
  <1>1. rec' \in Rec
    BY DEF Up, TypeOK, Rec, State
  <1>2. QED
    BY <1>1, ReportTyped, Literals DEF Up

LEMMA DeletedTyped ==
    ASSUME TypeOK, NEW w \in Worker, Deleted(w)
    PROVE  /\ cr' \in CR
           /\ apiFails' \in 0 .. MaxApiFail
           /\ rec' \in Rec
           /\ holder' \in Worker \cup {None}
           /\ worker' \in [Worker -> WorkerRec]
  <1>1. worker' \in [Worker -> WorkerRec]
    BY GotoTyped, Literals DEF Deleted
  <1>2. QED
    BY <1>1, Literals DEF Deleted, TypeOK

\* Requests change the resource only; CreateRefused drops the record.
LEMMA ApiTyped ==
    ASSUME TypeOK, Api
    PROVE  TypeOK'
  <1> USE LifecycleAssumption
  <1>1. ASSUME NEW desired \in {"Running", "Suspended"}, NEW target \in Target,
               RequestState(desired, target)
        PROVE  TypeOK'
    <2>1. ops + 1 \in 0 .. MaxOp
      BY <1>1 DEF RequestState, TypeOK
    <2>2. cr' \in CR
      BY <1>1, <2>1 DEF RequestState, TypeOK, CR
    <2>3. NodeTypeOK'
      BY <1>1 DEF RequestState, TypeOK, NodeTypeOK, nodeVars
    <2>4. QED
      BY <1>1, <2>1, <2>2, <2>3 DEF RequestState, TypeOK
  <1>2. CASE EnsureCR
    <2>1. cr' \in CR
      BY <1>2, Literals DEF EnsureCR, CR, Target
    <2>2. NodeTypeOK'
      BY <1>2 DEF EnsureCR, TypeOK, NodeTypeOK, nodeVars
    <2>3. QED
      BY <1>2, <2>1, <2>2 DEF EnsureCR, TypeOK
  <1>3. CASE CreateRefused
    <2>1. NodeTypeOK'
      BY <1>3 DEF CreateRefused, TypeOK, NodeTypeOK, nodeVars
    <2>2. QED
      BY <1>3, <2>1, ApiFailureTyped, Literals DEF CreateRefused, TypeOK
  <1>4. CASE ApiSuspend \/ ApiResume \/ RequestIdle
    BY <1>1, <1>4 DEF ApiSuspend, ApiResume, RequestIdle, Target
  <1>5. CASE ApiDelete
    <2>1. cr' \in CR
      BY <1>5 DEF ApiDelete, TypeOK, CR
    <2>2. NodeTypeOK'
      BY <1>5 DEF ApiDelete, TypeOK, NodeTypeOK, nodeVars
    <2>3. QED
      BY <1>5, <2>1, <2>2 DEF ApiDelete, TypeOK
  <1>6. QED
    BY <1>2, <1>3, <1>4, <1>5 DEF Api

LEMMA CancelIdleCounts ==
    ASSUME ops \in 0 .. MaxOp, NEW w \in Worker, CancelIdle(w)
    PROVE  ops' \in 0 .. MaxOp
  <1>1. ops' = ops \/ (ops < MaxOp /\ ops' = ops + 1)
    BY DEF CancelIdle
  <1>2. QED
    BY <1>1, LifecycleAssumption

\* The steps of a reconcile that leave the nodes alone.
LEMMA LocalStepTyped ==
    ASSUME TypeOK, NEW w \in Worker,
           \/ Fetch(w) \/ Reconcile(w) \/ ReconcileDelete(w) \/ Drift(w)
           \/ Settle(w) \/ Lease(w) \/ WorkCreate(w) \/ WorkRecover(w)
           \/ WorkSuspend(w) \/ Mark(w) \/ WorkResume(w) \/ WorkDelete(w)
           \/ Unlist(w)
    PROVE  TypeOK'
  <1> USE LifecycleAssumption
  <1> DEFINE Control ==
        /\ cr' \in CR
        /\ ops' \in 0 .. MaxOp
        /\ apiFails' \in 0 .. MaxApiFail
        /\ rec' \in Rec
        /\ holder' \in Worker \cup {None}
        /\ worker' \in [Worker -> WorkerRec]
  <1>0. /\ cr \in CR
        /\ ops \in 0 .. MaxOp
        /\ apiFails \in 0 .. MaxApiFail
        /\ rec \in Rec
        /\ holder \in Worker \cup {None}
        /\ worker \in [Worker -> WorkerRec]
    BY DEF TypeOK, WorkerRec
  <1>1. ASSUME Control, UNCHANGED nodeVars
        PROVE  TypeOK'
    BY <1>1 DEF TypeOK, NodeTypeOK, nodeVars, WorkerRec
  <1>2. CASE Fetch(w)
    <2>1. [Idle EXCEPT !.pc = "record", !.cr = cr] \in WorkerRec
      BY <1>0, Literals DEF WorkerRec
    <2>2. QED
      BY <1>0, <1>1, <1>2, <2>1 DEF Fetch
  <1>3. CASE Reconcile(w)
    <2> DEFINE r == Known(w)
               job == JobFor(worker[w].cr, r)
    <2>1. r \in Rec
      BY KnownTyped
    <2>2. job \in Job
      BY DEF JobFor, Job
    <2>3. /\ r.state \in State
          /\ StateFor(worker[w].cr, r) \in State
      BY <2>1 DEF Rec, StateFor, State
    <2>4. ASSUME NEW pc \in PC, NEW settled \in Rec
          PROVE  [worker EXCEPT ![w].pc = pc, ![w].job = job, ![w].rec = settled]
                     \in [Worker -> WorkerRec]
      <3> HIDE DEF job
      <3>1. [worker[w] EXCEPT !.pc = pc, !.job = job, !.rec = settled] \in WorkerRec
        BY <2>2, WorkerTyped DEF WorkerRec
      <3>2. QED
        BY <1>0, <3>1
    <2>5. \A state \in State : [r EXCEPT !.state = state] \in Rec
      BY <2>1 DEF Rec
    <2>6. "drift" \in PC /\ "lease" \in PC /\ "settle" \in PC
      BY DEF PC
    <2>7. \/ Done(w)
          \/ Proceed(w, "drift", r, r.state)
          \/ Proceed(w, "lease", r, r.state)
          \/ Proceed(w, "settle", r, StateFor(worker[w].cr, r))
      BY <1>3 DEF Reconcile
    <2>8. ASSUME NEW pc \in PC, NEW state \in State, Proceed(w, pc, r, state)
          PROVE  worker' \in [Worker -> WorkerRec]
      <3> DEFINE settled == [r EXCEPT !.state = state]
      <3>1. settled \in Rec
        BY <2>5
      <3>2. worker' = [worker EXCEPT ![w].pc = pc, ![w].job = job, ![w].rec = settled]
        BY <2>8 DEF Proceed
      <3> HIDE DEF settled, job
      <3>3. QED
        BY <2>4, <3>1, <3>2
    <2>9. worker' \in [Worker -> WorkerRec]
      BY <2>3, <2>6, <2>7, <2>8, DoneTyped
    <2>10. cr' \in CR /\ apiFails' \in 0 .. MaxApiFail
      BY <1>0, <1>3, <2>3, PublishTyped DEF Reconcile, Proceed
    <2>11. rec' \in Rec /\ ops' = ops /\ holder' = holder /\ UNCHANGED nodeVars
      BY <1>3, <2>1 DEF Reconcile
    <2>12. QED
      BY <1>0, <1>1, <2>9, <2>10, <2>11
  <1>4. CASE ReconcileDelete(w)
    <2>1. \A pc \in PC : [worker[w] EXCEPT !.pc = pc, !.job = "delete",
                                          !.rec = rec] \in WorkerRec
      BY <1>0, Literals, WorkerTyped DEF WorkerRec
    <2>2. "lease" \in PC /\ "unlist" \in PC
      BY DEF PC
    <2>3. worker' \in [Worker -> WorkerRec]
      BY <1>0, <1>4, <2>1, <2>2 DEF ReconcileDelete
    <2>4. QED
      BY <1>0, <1>1, <1>4, <2>3 DEF ReconcileDelete
  <1>5. CASE Drift(w)
    <2>1. worker[w].rec.state \in State /\ "orphaned" \in State /\ "settle" \in PC
      BY WorkerTyped DEF Rec, State, PC
    <2> DEFINE lost == [worker[w].rec EXCEPT !.state = "orphaned"]
    <2>2. [worker EXCEPT ![w].pc = "settle", ![w].rec = lost] \in [Worker -> WorkerRec]
      <3>1. lost \in Rec
        BY <2>1, WorkerTyped DEF Rec
      <3> HIDE DEF lost
      <3>2. [worker[w] EXCEPT !.pc = "settle", !.rec = lost] \in WorkerRec
        BY <2>1, <3>1, WorkerTyped DEF WorkerRec
      <3>3. QED
        BY <1>0, <3>2
    <2>3. worker' \in [Worker -> WorkerRec]
      BY <1>5, <2>2, DoneTyped DEF Drift
    <2>4. cr' \in CR /\ apiFails' \in 0 .. MaxApiFail
      BY <1>0, <1>5, <2>1, PublishTyped DEF Drift
    <2>5. QED
      BY <1>0, <1>1, <1>5, <2>3, <2>4 DEF Drift
  <1>6. CASE Settle(w)
    <2>1. worker[w].rec.state \in State
      BY WorkerTyped DEF Rec
    <2>2. QED
      BY <1>0, <1>1, <1>6, <2>1, ForceStateTyped, PublishTyped, DoneTyped DEF Settle
  <1>7. CASE Lease(w)
    <2>1. worker' \in [Worker -> WorkerRec]
      BY <1>7, DoneTyped, GotoTyped, Literals DEF Lease
    <2>2. QED
      BY <1>0, <1>1, <1>7, <2>1 DEF Lease
  <1>8. ASSUME NEW state \in State, Engage(w, state)
        PROVE  /\ rec' \in Rec
               /\ cr' \in CR
               /\ apiFails' \in 0 .. MaxApiFail
               /\ worker' \in [Worker -> WorkerRec]
               /\ holder' \in Worker \cup {None}
    <2>1. [worker[w] EXCEPT !.pc = "call", !.rec = rec] \in WorkerRec
      BY <1>0, Literals, WorkerTyped DEF WorkerRec
    <2>2. worker' \in [Worker -> WorkerRec]
      BY <1>0, <1>8, <2>1 DEF Engage
    <2>3. QED
      BY <1>0, <1>8, <2>2, ForceStateTyped, PublishTyped DEF Engage
  <1>9. CASE WorkCreate(w)
    BY <1>0, <1>1, <1>8, <1>9, ReportTyped, Literals DEF WorkCreate
  <1>10. CASE WorkRecover(w)
    <2>1. "running" \in State /\ "suspending" \in State /\ worker[w].cr.target \in State
      BY WorkerTyped DEF State
    <2>2. Control
      BY <1>0, <1>10, <2>1, ReportTyped, ConcludeTyped, ForceStateTyped,
         ReleaseTyped, DoneTyped DEF WorkRecover
    <2>3. QED
      BY <1>1, <1>10, <2>2 DEF WorkRecover
  <1>11. CASE WorkSuspend(w)
    <2>1. ASSUME CancelIdle(w)
          PROVE  /\ cr' \in CR
                 /\ ops' \in 0 .. MaxOp
                 /\ apiFails' \in 0 .. MaxApiFail
                 /\ holder' \in Worker \cup {None}
                 /\ worker' \in [Worker -> WorkerRec]
      <3>1. ops' \in 0 .. MaxOp
        BY <1>0, <2>1, CancelIdleCounts
      <3>2. cr' \in CR /\ apiFails' \in 0 .. MaxApiFail
        <4>1. worker[w].cr.op \in 0 .. MaxOp
          BY WorkerTyped DEF CR
        <4>2. ASSUME ops < MaxOp
              PROVE  [cr EXCEPT !.desired = "Running", !.target = "suspended",
                                !.op = ops + 1, !.obs = worker[w].cr.op,
                                !.term = FALSE, !.phase = "running"] \in CR
          <5>1. ops + 1 \in 0 .. MaxOp
            BY <1>0, <4>2
          <5>2. "running" \in State /\ "suspended" \in Target
            BY DEF State, Target
          <5>3. QED
            BY <1>0, <4>1, <5>1, <5>2 DEF CR
        <4>3. "running" \in State
          BY DEF State
        <4>4. QED
          BY <1>0, <2>1, <4>2, <4>3, PublishTyped, ApiFailureTyped DEF CancelIdle
      <3>3. QED
        BY <1>0, <2>1, <3>1, <3>2, ReleaseTyped, DoneTyped DEF CancelIdle
    <2>2. [worker[w] EXCEPT !.pc = "mark", !.rec = rec] \in WorkerRec
      BY <1>0, Literals, WorkerTyped DEF WorkerRec
    <2>3. [worker EXCEPT ![w].pc = "mark", ![w].rec = rec] \in [Worker -> WorkerRec]
      BY <1>0, <2>2
    <2>4. rec' = rec /\ UNCHANGED nodeVars
      BY <1>11 DEF WorkSuspend
    <2>5. CASE CancelIdle(w)
      BY <1>0, <1>1, <2>1, <2>4, <2>5
    <2>6. CASE ~CancelIdle(w)
      <3>1. /\ UNCHANGED <<cr, ops, apiFails>>
            /\ holder' \in Worker \cup {None}
            /\ worker' \in [Worker -> WorkerRec]
        BY <1>0, <1>11, <2>3, <2>6, ReleaseTyped, DoneTyped DEF WorkSuspend
      <3>2. QED
        BY <1>0, <1>1, <2>4, <3>1
    <2>7. QED
      BY <2>5, <2>6
  <1>12. CASE Mark(w)
    <2>1. Control
      BY <1>0, <1>12, ForceStateTyped, PublishTyped, GotoTyped, ConcludeTyped, Literals
         DEF Mark
    <2>2. QED
      BY <1>1, <1>12, <2>1 DEF Mark
  <1>13. CASE WorkResume(w)
    <2>1. "running" \in State /\ "failed" \in State /\ "resuming" \in State
      BY DEF State
    <2>2. Control
      BY <1>0, <1>8, <1>13, <2>1, ReportTyped, ConcludeTyped DEF WorkResume
    <2>3. QED
      BY <1>1, <1>13, <2>2 DEF WorkResume
  <1>14. CASE WorkDelete(w)
    <2>1. Control
      BY <1>0, <1>14, ForceStateTyped, PublishTyped, GotoTyped, Literals DEF WorkDelete
    <2>2. QED
      BY <1>1, <1>14, <2>1 DEF WorkDelete
  <1>15. CASE Unlist(w)
    <2>1. cr' \in CR /\ apiFails' \in 0 .. MaxApiFail
      BY <1>0, <1>15, Literals, ApiFailureTyped DEF Unlist
    <2>2. QED
      BY <1>0, <1>1, <1>15, <2>1, ReleaseTyped, DoneTyped DEF Unlist
  <1>16. QED
    BY <1>2, <1>3, <1>4, <1>5, <1>6, <1>7, <1>9, <1>10, <1>11, <1>12,
       <1>13, <1>14, <1>15

\* How a lifecycle operation ends when its request has succeeded.
LEMMA ReceiveOkOutcome ==
    ASSUME TypeOK, NEW w \in Worker, ReceiveOk(w)
    PROVE  \E c \in calls :
             /\ c.by = w
             /\ calls' = calls \ {c}
             /\ \/ Up(w, c.node) \/ Failed(w) \/ Deleted(w)
                \/ /\ rec' = [rec EXCEPT !.state = worker[w].cr.target, !.snap = TRUE]
                   /\ Report(w, worker[w].cr.target, FALSE)
  <1>1. PICK c \in Replies(w, "ok") :
           /\ calls' = calls \ {c}
           /\ CASE c.kind \in {"create", "resume"} ->
                       IF Probe(c.node) # "unknown" THEN Up(w, c.node) ELSE Failed(w)
                [] c.kind = "suspend" ->
                       IF rec.alive /\ rec.state = "suspending"
                       THEN /\ rec' = [rec EXCEPT !.state = worker[w].cr.target,
                                                  !.snap = TRUE]
                            /\ Report(w, worker[w].cr.target, FALSE)
                       ELSE Failed(w)
                [] c.kind = "destroy" -> Deleted(w)
    BY DEF ReceiveOk
  <1>2. c \in calls /\ c.by = w
    BY DEF Replies
  <1>3. c.kind \in {"create", "suspend", "resume", "destroy"}
    BY <1>2 DEF TypeOK, NodeTypeOK, Call, Kind
  <1>4. \/ Up(w, c.node) \/ Failed(w) \/ Deleted(w)
        \/ /\ rec' = [rec EXCEPT !.state = worker[w].cr.target, !.snap = TRUE]
           /\ Report(w, worker[w].cr.target, FALSE)
    <2>1. CASE c.kind \in {"create", "resume"}
      BY <1>1, <2>1
    <2>2. CASE c.kind = "suspend"
      BY <1>1, <2>2
    <2>3. CASE c.kind = "destroy"
      BY <1>1, <2>3
    <2>4. QED
      BY <1>3, <2>1, <2>2, <2>3
  <1>5. QED
    BY <1>1, <1>2, <1>4

\* The steps that send a request, give up on one or take a reply.
LEMMA DriverStepTyped ==
    ASSUME TypeOK, NEW w \in Worker,
           \/ CallCreate(w) \/ CallSuspend(w) \/ CallResume(w) \/ CallDelete(w)
           \/ ReceiveOk(w) \/ ReceiveFull(w) \/ ReceiveError(w) \/ Timeout(w)
           \/ Crash(w)
    PROVE  TypeOK'
  <1> USE NodeAgentAssumption
  <1> DEFINE Written ==
        /\ cr' \in CR
        /\ apiFails' \in 0 .. MaxApiFail
        /\ rec' \in Rec
        /\ holder' \in Worker \cup {None}
        /\ worker' \in [Worker -> WorkerRec]
  <1>0. /\ cr \in CR
        /\ ops \in 0 .. MaxOp
        /\ apiFails \in 0 .. MaxApiFail
        /\ rec \in Rec
        /\ holder \in Worker \cup {None}
        /\ worker \in [Worker -> WorkerRec]
        /\ calls \in SUBSET Call
        /\ budget \in [Fault -> Nat]
    BY DEF TypeOK, NodeTypeOK, WorkerRec
  <1>1. ASSUME calls' \in SUBSET Call, budget' \in [Fault -> Nat], Written,
               UNCHANGED <<nodes, s3, latest, ops>>
        PROVE  TypeOK'
    BY <1>1 DEF TypeOK, NodeTypeOK, WorkerRec
  <1>2. \A n : Reachable(n) /\ n # None /\ n \in Node \cup {None} => n \in Node
    OBVIOUS
  <1>3. rec.node \in Node \cup {None} /\ worker[w].rec.node \in Node \cup {None}
    BY <1>0, WorkerTyped DEF Rec
  <1>4. ASSUME NEW kind \in Kind, NEW n \in Node, Request(w, kind, n)
        PROVE  /\ calls' \in SUBSET Call
               /\ worker' \in [Worker -> WorkerRec]
    BY <1>4, SendTyped, GotoTyped, Literals DEF Request
  <1>5. CASE CallCreate(w)
    <2>1. CASE Up(w, rec.node) /\ rec.node # None /\ UNCHANGED calls
      BY <1>0, <1>1, <1>3, <1>5, <2>1, UpTyped DEF CallCreate
    <2>2. CASE \E n \in Node : Journal(n) /\ Request(w, "create", n)
                             /\ UNCHANGED <<cr, apiFails, holder>>
      <3>1. PICK n \in Node : Journal(n) /\ Request(w, "create", n)
        BY <2>2
      <3>2. rec' \in Rec
        BY <1>0, <3>1 DEF Journal, Rec
      <3>3. calls' \in SUBSET Call /\ worker' \in [Worker -> WorkerRec]
        BY <1>4, <3>1, Literals
      <3>4. QED
        BY <1>0, <1>1, <1>5, <2>2, <3>2, <3>3 DEF CallCreate
    <2>3. CASE Failed(w) /\ UNCHANGED calls
      BY <1>0, <1>1, <1>5, <2>3, FailedTyped DEF CallCreate
    <2>4. QED
      BY <1>3, <1>5, <2>1, <2>2, <2>3 DEF CallCreate
  <1>6. CASE CallSuspend(w)
    <2>1. CASE \E n \in Node : Request(w, "suspend", n)
                             /\ UNCHANGED <<cr, apiFails, rec, holder>>
      BY <1>0, <1>1, <1>4, <1>6, <2>1, Literals DEF CallSuspend
    <2>2. CASE Failed(w) /\ UNCHANGED calls
      BY <1>0, <1>1, <1>6, <2>2, FailedTyped DEF CallSuspend
    <2>3. QED
      BY <1>3, <1>6, <2>1, <2>2 DEF CallSuspend
  <1>7. CASE CallResume(w)
    <2>1. CASE \E n \in Node : Request(w, "resume", n)
                             /\ UNCHANGED <<cr, apiFails, rec, holder>>
      BY <1>0, <1>1, <1>4, <1>7, <2>1, Literals DEF CallResume
    <2>2. CASE Failed(w) /\ UNCHANGED calls
      BY <1>0, <1>1, <1>7, <2>2, FailedTyped DEF CallResume
    <2>3. QED
      BY <1>3, <1>7, <2>1, <2>2 DEF CallResume
  <1>8. CASE CallDelete(w)
    <2>1. CASE Deleted(w) /\ UNCHANGED calls
      BY <1>0, <1>1, <1>8, <2>1, DeletedTyped DEF CallDelete
    <2>2. CASE \E n \in Node : Request(w, "destroy", n)
                             /\ UNCHANGED <<cr, apiFails, rec, holder>>
      BY <1>0, <1>1, <1>4, <1>8, <2>2, Literals DEF CallDelete
    <2>3. CASE Failed(w) /\ UNCHANGED calls
      BY <1>0, <1>1, <1>8, <2>3, FailedTyped DEF CallDelete
    <2>4. QED
      BY <1>3, <1>8, <2>1, <2>2, <2>3 DEF CallDelete
  <1>9. CASE ReceiveOk(w)
    <2>1. PICK c \in calls :
             /\ calls' = calls \ {c}
             /\ \/ Up(w, c.node) \/ Failed(w) \/ Deleted(w)
                \/ /\ rec' = [rec EXCEPT !.state = worker[w].cr.target, !.snap = TRUE]
                   /\ Report(w, worker[w].cr.target, FALSE)
      BY <1>9, ReceiveOkOutcome
    <2>2. c.node \in Node
      BY <1>0 DEF Call
    <2>3. CASE Up(w, c.node) \/ Failed(w) \/ Deleted(w)
      BY <1>0, <1>1, <1>9, <2>1, <2>2, <2>3, UpTyped, FailedTyped, DeletedTyped
         DEF ReceiveOk
    <2>4. CASE /\ rec' = [rec EXCEPT !.state = worker[w].cr.target, !.snap = TRUE]
               /\ Report(w, worker[w].cr.target, FALSE)
      <3>1. rec' \in Rec
        BY <1>0, <2>4, WorkerTyped DEF Rec
      <3>2. QED
        BY <1>0, <1>1, <1>9, <2>1, <2>4, <3>1, ReportTyped, WorkerTyped DEF ReceiveOk
    <2>5. QED
      BY <2>1, <2>3, <2>4
  <1>10. CASE ReceiveFull(w)
    <2>1. PICK c \in calls :
             /\ calls' = calls \ {c}
             /\ worker' = [worker EXCEPT ![w].pc = "call", ![w].full = @ \cup {c.node}]
      BY <1>10 DEF ReceiveFull, Replies
    <2>2. c.node \in Node
      BY <1>0 DEF Call
    <2>3. [worker[w] EXCEPT !.pc = "call",
                            !.full = worker[w].full \cup {c.node}] \in WorkerRec
      BY <2>2, WorkerTyped, Literals DEF WorkerRec
    <2>4. worker' \in [Worker -> WorkerRec]
      BY <1>0, <2>1, <2>3
    <2>5. QED
      BY <1>0, <1>1, <1>10, <2>1, <2>4 DEF ReceiveFull
  <1>11. CASE ReceiveError(w)
    <2>1. calls' \in SUBSET Call
      BY <1>0, <1>11 DEF ReceiveError
    <2>2. QED
      BY <1>0, <1>1, <1>11, <2>1, FailedTyped DEF ReceiveError
  <1>12. CASE Timeout(w)
    <2>1. \A c \in calls : [c EXCEPT !.by = None] \in Call
      BY <1>0 DEF Call
    <2>2. calls' \in SUBSET Call
      BY <1>0, <1>12, <2>1 DEF Timeout
    <2>3. budget' \in [Fault -> Nat]
      BY <1>0, <1>12, SpendTyped, FaultKinds DEF Timeout
    <2>4. QED
      BY <1>0, <1>1, <1>12, <2>2, <2>3, FailedTyped DEF Timeout
  <1>13. CASE Crash(w)
    <2>1. \A c \in calls : [c EXCEPT !.by = None] \in Call
      BY <1>0 DEF Call
    <2>2. calls' \in SUBSET Call
      BY <1>0, <1>13, <2>1 DEF Crash
    <2>3. budget' \in [Fault -> Nat]
      BY <1>0, <1>13, SpendTyped, FaultKinds DEF Crash
    <2>4. QED
      BY <1>0, <1>1, <1>13, <2>2, <2>3, DoneTyped DEF Crash
  <1>14. QED
    BY <1>5, <1>6, <1>7, <1>8, <1>9, <1>10, <1>11, <1>12, <1>13

\* Every step of the system keeps every type.
LEMMA NextTyped ==
    ASSUME TypeOK, [Next]_vars
    PROVE  TypeOK'
  <1>1. CASE Api
    BY <1>1, ApiTyped
  <1>2. CASE \E w \in Worker : Step(w) \/ Timeout(w) \/ Crash(w)
    BY <1>2, LocalStepTyped, DriverStepTyped DEF Step
  <1>3. CASE ExpireLease
    <2>1. NodeTypeOK'
      BY <1>3 DEF ExpireLease, TypeOK, NodeTypeOK, nodeVars
    <2>2. QED
      BY <1>3, <2>1 DEF ExpireLease, TypeOK
  <1>4. CASE NodeStep
    BY <1>4, NodeTyped DEF NodeStep, TypeOK
  <1>5. CASE UNCHANGED vars
    <2>1. NodeTypeOK'
      BY <1>5 DEF vars, TypeOK, NodeTypeOK
    <2>2. QED
      BY <1>5, <2>1 DEF vars, TypeOK
  <1>6. QED
    BY <1>1, <1>2, <1>3, <1>4, <1>5 DEF Next

LEMMA InitTyped ==
    ASSUME Init
    PROVE  TypeOK
  <1> USE NodeAgentAssumption, LifecycleAssumption
  <1>1. NodeTypeOK
    BY DEF Init, NodeInit, NodeTypeOK, Version
  <1>2. rec \in Rec
    BY Literals DEF Init, Rec
  <1>3. worker \in [Worker -> WorkerRec]
    BY Literals DEF Init
  <1>4. QED
    BY <1>1, <1>2, <1>3, Literals DEF Init, TypeOK, WorkerRec

\* Resource, record, requests and every replica's local copies keep their
\* types, with every fault the budget allows: no operation writes a state the
\* rest of the control plane does not know.
THEOREM LifecycleTypeCorrect == Spec => []TypeOK
  <1>1. Init => TypeOK
    BY InitTyped
  <1>2. TypeOK /\ [Next]_vars => TypeOK'
    BY NextTyped
  <1>3. QED
    BY <1>1, <1>2, PTL DEF Spec

-----------------------------------------------------------------------------
(* The fence. *)

\* What a step of w does to the fence: the other replicas stay where they are;
\* w goes on under its lease, or ends up outside and may have given it back.
Others(w) == \A v \in Worker \ {w} : worker'[v] = worker[v]

Stays(w) ==
    /\ worker[w].pc \in Leased
    /\ worker'[w].pc \in Leased
    /\ holder' = holder

Leaves(w) ==
    /\ worker'[w].pc \notin Leased
    /\ \/ holder' = holder
       \/ holder' = IF holder = w THEN None ELSE holder
       \/ worker[w].pc \in Leased /\ holder' = None

LEMMA EffectKeepsHolder ==
    ASSUME HolderAtWork, NEW w \in Worker, Others(w), Stays(w) \/ Leaves(w)
    PROVE  HolderAtWork'
  <1> SUFFICES ASSUME NEW v \in Worker, worker'[v].pc \in Leased
               PROVE  holder' = v
    BY DEF HolderAtWork
  <1>1. CASE v = w
    <2>1. Stays(w)
      BY <1>1 DEF Leaves
    <2>2. QED
      BY <1>1, <2>1 DEF HolderAtWork, Stays
  <1>2. CASE v # w
    <2>1. worker[v].pc \in Leased /\ holder = v
      BY <1>2 DEF HolderAtWork, Others
    <2>2. holder # w /\ worker[w].pc \notin Leased
      BY <1>2, <2>1 DEF HolderAtWork
    <2>3. QED
      BY <2>1, <2>2 DEF Stays, Leaves
  <1>3. QED
    BY <1>1, <1>2

\* A replica that works under the lease but does not wait is alone: nobody
\* awaits a request.
LEMMA NobodyAwaits ==
    ASSUME TypeOK, FenceInv, NEW w \in Worker,
           worker[w].pc \in Leased, worker[w].pc # "wait"
    PROVE  \A c \in calls : c.by = None
  <1> SUFFICES ASSUME NEW c \in calls, c.by # None
               PROVE  FALSE
    OBVIOUS
  <1>1. c.by \in Worker
    BY DEF TypeOK, NodeTypeOK, Call
  <1>2. worker[c.by].pc = "wait" /\ "wait" \in Leased
    BY DEF FenceInv, AwaitedWaits, Leased
  <1>3. holder = c.by /\ holder = w
    BY <1>1, <1>2 DEF FenceInv, HolderAtWork
  <1>4. QED
    BY <1>2, <1>3

\* A replica that awaits a request is the only one, and awaits only that one.
LEMMA OnlyThisAwaited ==
    ASSUME TypeOK, FenceInv, NEW w \in Worker, NEW c \in calls, c.by = w
    PROVE  /\ worker[w].pc = "wait"
           /\ holder = w
           /\ \A d \in calls : d.by # None => d = c
  <1>1. w # None
    BY NodeAgentAssumption
  <1>2. worker[w].pc = "wait" /\ "wait" \in Leased
    BY <1>1 DEF FenceInv, AwaitedWaits, Leased
  <1>3. holder = w
    BY <1>2 DEF FenceInv, HolderAtWork
  <1>4. ASSUME NEW d \in calls, d.by # None
        PROVE  d = c
    <2>1. d.by \in Worker
      BY <1>4 DEF TypeOK, NodeTypeOK, Call
    <2>2. worker[d.by].pc = "wait"
      BY <1>4 DEF FenceInv, AwaitedWaits
    <2>3. holder = d.by
      BY <1>2, <2>1, <2>2 DEF FenceInv, HolderAtWork
    <2>4. QED
      BY <1>1, <1>3, <2>3 DEF FenceInv, AwaitedWaits
  <1>5. QED
    BY <1>2, <1>3, <1>4

LEMMA DoneEffect ==
    ASSUME TypeOK, NEW w \in Worker, Done(w)
    PROVE  Others(w) /\ worker'[w].pc = "idle" /\ worker'[w].pc \notin Leased
  BY WorkerTyped DEF Done, Others, Idle, Leased

LEMMA GotoEffect ==
    ASSUME TypeOK, NEW w \in Worker, NEW pc, Goto(w, pc)
    PROVE  Others(w) /\ worker'[w].pc = pc
  <1>1. worker' = [worker EXCEPT ![w] = [worker[w] EXCEPT !.pc = pc]]
    BY WorkerTyped DEF Goto
  <1>2. [worker[w] EXCEPT !.pc = pc].pc = pc
    BY WorkerTyped DEF WorkerRec
  <1>3. QED
    BY <1>1, <1>2, WorkerTyped DEF Others

LEMMA ReportEffect ==
    ASSUME TypeOK, NEW w \in Worker, NEW state, NEW term, Report(w, state, term)
    PROVE  Others(w) /\ Leaves(w)
  BY DoneEffect DEF Report, Release, Leaves

LEMMA FailedEffect ==
    ASSUME TypeOK, NEW w \in Worker, Failed(w)
    PROVE  Others(w) /\ Leaves(w)
  BY ReportEffect DEF Failed, Conclude

LEMMA DeletedEffect ==
    ASSUME TypeOK, NEW w \in Worker, worker[w].pc \in Leased, Deleted(w)
    PROVE  Others(w) /\ Leaves(w)
  <1>1. Others(w) /\ worker'[w].pc = "unlist"
    BY GotoEffect DEF Deleted
  <1>2. QED
    BY <1>1 DEF Deleted, Leaves, Leased

\* A step without a request is fenced, and leaves the placement of a create
\* in flight alone: it keeps the record's node, or nobody awaits anything.
LEMMA LocalStepEffect ==
    ASSUME TypeOK, FenceInv, NEW w \in Worker,
           \/ Fetch(w) \/ Reconcile(w) \/ ReconcileDelete(w) \/ Drift(w)
           \/ Settle(w) \/ WorkCreate(w) \/ WorkRecover(w)
           \/ WorkSuspend(w) \/ Mark(w) \/ WorkResume(w) \/ WorkDelete(w)
           \/ Unlist(w)
    PROVE  /\ Others(w)
           /\ Stays(w) \/ Leaves(w)
           /\ worker[w].pc # "wait"
           /\ calls' = calls
           /\ \/ rec.alive => rec'.alive /\ rec'.node = rec.node
              \/ \A c \in calls : c.by = None
  <1> DEFINE Keeps == rec.alive => rec'.alive /\ rec'.node = rec.node
  <1>0. rec \in Rec /\ worker \in [Worker -> WorkerRec]
    BY WorkerTyped DEF TypeOK
  <1>1. ASSUME NEW state, ForceState(state)
        PROVE  Keeps
    BY <1>0, <1>1 DEF ForceState, Rec
  <1>2. CASE Fetch(w)
    <2>1. worker' = [worker EXCEPT ![w] = [Idle EXCEPT !.pc = "record", !.cr = cr]]
      BY <1>2 DEF Fetch
    <2>2. worker'[w].pc = "record" /\ Others(w)
      BY <1>0, <2>1 DEF Others, Idle
    <2>3. QED
      BY <1>2, <2>2 DEF Fetch, Leaves, Leased, nodeVars
  <1>3. CASE Reconcile(w)
    <2>1. ASSUME NEW pc, NEW r, NEW state, Proceed(w, pc, r, state)
          PROVE  Others(w) /\ worker'[w].pc = pc
      <3> DEFINE job == JobFor(worker[w].cr, r)
                 settled == [r EXCEPT !.state = state]
      <3>1. worker' = [worker EXCEPT ![w].pc = pc, ![w].job = job, ![w].rec = settled]
        BY <2>1 DEF Proceed
      <3> HIDE DEF job, settled
      <3>2. worker' = [worker EXCEPT ![w] = [worker[w] EXCEPT !.pc = pc, !.job = job,
                                                            !.rec = settled]]
        BY <1>0, <3>1
      <3>3. [worker[w] EXCEPT !.pc = pc, !.job = job, !.rec = settled].pc = pc
        BY WorkerTyped DEF WorkerRec
      <3>4. QED
        BY <1>0, <3>2, <3>3 DEF Others
    <2>2. \/ Done(w)
          \/ Proceed(w, "drift", Known(w), Known(w).state)
          \/ Proceed(w, "lease", Known(w), Known(w).state)
          \/ Proceed(w, "settle", Known(w), StateFor(worker[w].cr, Known(w)))
      BY <1>3 DEF Reconcile
    <2>3. Others(w) /\ worker'[w].pc \notin Leased
      BY <2>1, <2>2, DoneEffect DEF Leased
    <2>4. Keeps
      BY <1>3 DEF Reconcile, Known
    <2>5. QED
      BY <1>3, <2>3, <2>4 DEF Reconcile, Leaves, nodeVars
  <1>4. CASE ReconcileDelete(w)
    <2> DEFINE pc == IF rec.alive THEN "lease" ELSE "unlist"
    <2>1. worker' = [worker EXCEPT ![w].pc = pc, ![w].job = "delete", ![w].rec = rec]
      BY <1>4 DEF ReconcileDelete
    <2>2. pc \notin Leased
      BY DEF Leased
    <2> HIDE DEF pc
    <2>3. worker' = [worker EXCEPT ![w] = [worker[w] EXCEPT !.pc = pc, !.job = "delete",
                                                          !.rec = rec]]
      BY <1>0, <2>1
    <2>4. [worker[w] EXCEPT !.pc = pc, !.job = "delete", !.rec = rec].pc = pc
      BY WorkerTyped DEF WorkerRec
    <2>5. Others(w) /\ worker'[w].pc = pc
      BY <1>0, <2>3, <2>4 DEF Others
    <2>6. QED
      BY <1>4, <2>2, <2>5 DEF ReconcileDelete, Leaves, nodeVars
  <1>5. CASE Drift(w)
    <2> DEFINE lost == [worker[w].rec EXCEPT !.state = "orphaned"]
    <2>1. Done(w) \/ worker' = [worker EXCEPT ![w].pc = "settle", ![w].rec = lost]
      BY <1>5 DEF Drift
    <2> HIDE DEF lost
    <2>2. CASE worker' = [worker EXCEPT ![w].pc = "settle", ![w].rec = lost]
      <3>1. worker' = [worker EXCEPT ![w] = [worker[w] EXCEPT !.pc = "settle", !.rec = lost]]
        BY <1>0, <2>2
      <3>2. [worker[w] EXCEPT !.pc = "settle", !.rec = lost].pc = "settle"
        BY WorkerTyped DEF WorkerRec
      <3>3. QED
        BY <1>0, <1>5, <3>1, <3>2 DEF Drift, Others, Leaves, Leased, nodeVars
    <2>3. CASE Done(w)
      BY <1>5, <2>3, DoneEffect DEF Drift, Leaves, nodeVars
    <2>4. QED
      BY <2>1, <2>2, <2>3
  <1>6. CASE Settle(w)
    BY <1>1, <1>6, DoneEffect DEF Settle, Leaves, nodeVars
  <1>7. CASE Unlist(w)
    BY <1>7, DoneEffect DEF Unlist, Release, Leaves, nodeVars
  <1>8. CASE \/ WorkCreate(w) \/ WorkRecover(w) \/ WorkSuspend(w) \/ Mark(w)
             \/ WorkResume(w) \/ WorkDelete(w)
    <2>1. worker[w].pc \in Leased /\ worker[w].pc # "wait" /\ calls' = calls
      BY <1>8 DEF WorkCreate, WorkRecover, WorkSuspend, Mark, WorkResume, WorkDelete,
         AtWork, Leased, nodeVars
    <2>2. \A c \in calls : c.by = None
      BY <2>1, NobodyAwaits
    <2>3. ASSUME NEW state, Engage(w, state)
          PROVE  Others(w) /\ Stays(w)
      <3>1. worker' = [worker EXCEPT ![w] = [worker[w] EXCEPT !.pc = "call", !.rec = rec]]
        BY <1>0, <2>3 DEF Engage
      <3>2. [worker[w] EXCEPT !.pc = "call", !.rec = rec].pc = "call"
        BY WorkerTyped DEF WorkerRec
      <3>3. QED
        BY <1>0, <2>1, <2>3, <3>1, <3>2 DEF Engage, Others, Stays, Leased
    <2>4. ASSUME Release(w), Done(w)
          PROVE  Others(w) /\ Leaves(w)
      BY <2>4, DoneEffect DEF Release, Leaves
    <2>5. CASE WorkCreate(w) \/ WorkResume(w)
      BY <2>1, <2>2, <2>3, <2>5, ReportEffect DEF WorkCreate, WorkResume, Conclude
    <2>6. CASE WorkRecover(w)
      BY <2>1, <2>2, <2>4, <2>6, ReportEffect DEF WorkRecover, Conclude
    <2>7. CASE WorkSuspend(w)
      <3>1. \/ Release(w) /\ Done(w)
            \/ /\ worker' = [worker EXCEPT ![w].pc = "mark", ![w].rec = rec]
               /\ holder' = holder
        BY <2>7 DEF WorkSuspend, CancelIdle
      <3>2. ASSUME worker' = [worker EXCEPT ![w].pc = "mark", ![w].rec = rec],
                   holder' = holder
            PROVE  Others(w) /\ Stays(w)
        <4>1. worker' = [worker EXCEPT ![w] = [worker[w] EXCEPT !.pc = "mark", !.rec = rec]]
          BY <1>0, <3>2
        <4>2. [worker[w] EXCEPT !.pc = "mark", !.rec = rec].pc = "mark"
          BY WorkerTyped DEF WorkerRec
        <4>3. QED
          BY <1>0, <2>1, <3>2, <4>1, <4>2 DEF Others, Stays, Leased
      <3>3. QED
        BY <2>1, <2>2, <2>4, <3>1, <3>2
    <2>8. CASE Mark(w)
      <3>1. (Goto(w, "call") /\ holder' = holder) \/ Conclude(w, "running", TRUE)
        BY <2>8 DEF Mark
      <3>2. QED
        BY <2>1, <2>2, <3>1, GotoEffect, ReportEffect DEF Conclude, Stays, Leased
    <2>9. CASE WorkDelete(w)
      <3>1. Goto(w, "call") /\ holder' = holder
        BY <2>9 DEF WorkDelete
      <3>2. QED
        BY <2>1, <2>2, <3>1, GotoEffect DEF Stays, Leased
    <2>10. QED
      BY <1>8, <2>5, <2>6, <2>7, <2>8, <2>9
  <1>9. QED
    BY <1>2, <1>3, <1>4, <1>5, <1>6, <1>7, <1>8

\* What is awaited after a step was awaited before it, by the same replica for
\* the same request, and still nobody awaits two.
Inherited ==
    /\ \A e \in calls' : e.by # None =>
          \E d \in calls : d.by = e.by /\ d.kind = e.kind /\ d.node = e.node
    /\ \A e, f \in calls' : e.by # None /\ e.by = f.by => e = f

LEMMA AnswerInherits ==
    ASSUME calls \in SUBSET Call, AwaitedWaits, NEW c \in calls, NEW res,
           Answer(c, res)
    PROVE  Inherited
  <1> DEFINE reply == [c EXCEPT !.step = "done",
                                !.res = IF Reachable(c.node) THEN res ELSE "error"]
  <1>1. reply.by = c.by /\ reply.kind = c.kind /\ reply.node = c.node
    BY DEF Call
  <1>2. \/ calls' = calls \ {c}
        \/ calls' = (calls \ {c}) \cup {reply}
    BY DEF Answer
  <1> HIDE DEF reply
  <1>3. QED
    BY <1>1, <1>2 DEF Inherited, AwaitedWaits

LEMMA CutInherits ==
    ASSUME calls \in SUBSET Call, AwaitedWaits, NEW n, Cut(n)
    PROVE  Inherited
  <1> DEFINE lost == {c \in calls : c.node = n /\ c.step # "done"}
             told(c) == [c EXCEPT !.step = "done", !.res = "error"]
  <1>1. \A c \in calls : /\ told(c).by = c.by /\ told(c).kind = c.kind
                         /\ told(c).node = c.node
    BY DEF Call
  <1>2. calls' = (calls \ lost) \cup {told(c) : c \in {d \in lost : d.by # None}}
    BY DEF Cut
  <1> HIDE DEF told
  <1>3. \A e \in calls' :
           \E d \in calls : /\ d.by = e.by /\ d.kind = e.kind /\ d.node = e.node
                            /\ \/ e = d /\ d \notin lost
                               \/ e = told(d) /\ d \in lost
    BY <1>1, <1>2
  <1>4. QED
    BY <1>3 DEF Inherited, AwaitedWaits

LEMMA NodeInherits ==
    ASSUME TypeOK, AwaitedWaits, NodeNext
    PROVE  Inherited
  <1>0. calls \in SUBSET Call
    BY DEF TypeOK, NodeTypeOK
  <1>1. CASE Handler
    <2>1. PICK c \in calls :
             \/ \E res : Answer(c, res)
             \/ calls' = (calls \ {c}) \cup {[c EXCEPT !.step = "upload"]}
      BY <1>1 DEF Handler, OpCreate, OpSuspendLocal, OpSuspendUpload, OpResume, OpDestroy
    <2>2. CASE \E res : Answer(c, res)
      BY <1>0, <2>2, AnswerInherits
    <2>3. CASE calls' = (calls \ {c}) \cup {[c EXCEPT !.step = "upload"]}
      <3> DEFINE next == [c EXCEPT !.step = "upload"]
      <3>1. next.by = c.by /\ next.kind = c.kind /\ next.node = c.node
        BY <1>0 DEF Call
      <3>2. calls' = (calls \ {c}) \cup {next}
        BY <2>3
      <3> HIDE DEF next
      <3>3. QED
        BY <3>1, <3>2 DEF Inherited, AwaitedWaits
    <2>4. QED
      BY <2>1, <2>2, <2>3
  <1>2. CASE (\E n \in Node : AgentRestart(n) \/ Death(n))
    BY <1>0, <1>2, CutInherits DEF AgentRestart, Death
  <1>3. CASE calls' = calls
    BY <1>3 DEF Inherited, AwaitedWaits
  <1>4. QED
    BY <1>1, <1>2, <1>3 DEF NodeNext, NodeFault, Partition, HeartbeatExpire, NodeReturn,
       GuestWrite

\* A step that sends, receives or gives up a request is fenced; nobody awaits
\* anything afterwards, or the replica awaits the one request it has just sent.
LEMMA DriverStepEffect ==
    ASSUME TypeOK, FenceInv, NEW w \in Worker,
           \/ CallCreate(w) \/ CallSuspend(w) \/ CallResume(w) \/ CallDelete(w)
           \/ ReceiveOk(w) \/ ReceiveFull(w) \/ ReceiveError(w) \/ Timeout(w)
    PROVE  /\ Others(w)
           /\ Stays(w) \/ Leaves(w)
           /\ \/ \A c \in calls' : c.by = None
              \/ /\ worker'[w].pc = "wait"
                 /\ \E c \in calls' :
                       /\ c.by = w
                       /\ c.kind = "create" => rec'.alive /\ rec'.node = c.node
                       /\ \A d \in calls' : d.by # None => d = c
  <1>0. rec \in Rec /\ calls \in SUBSET Call /\ worker \in [Worker -> WorkerRec]
    BY WorkerTyped DEF TypeOK, NodeTypeOK
  <1>1. w # None
    BY NodeAgentAssumption
  <1>2. CASE CallCreate(w) \/ CallSuspend(w) \/ CallResume(w) \/ CallDelete(w)
    <2>1. worker[w].pc \in Leased /\ worker[w].pc # "wait"
      BY <1>2 DEF CallCreate, CallSuspend, CallResume, CallDelete, Calling, Leased
    <2>2. \A c \in calls : c.by = None
      BY <2>1, NobodyAwaits
    <2>3. ASSUME NEW kind, NEW n, Request(w, kind, n), holder' = holder,
                 kind = "create" => rec'.alive /\ rec'.node = n
          PROVE  /\ Others(w)
                 /\ Stays(w)
                 /\ worker'[w].pc = "wait"
                 /\ \E c \in calls' :
                       /\ c.by = w
                       /\ c.kind = "create" => rec'.alive /\ rec'.node = c.node
                       /\ \A d \in calls' : d.by # None => d = c
      <3>1. Others(w) /\ worker'[w].pc = "wait"
        BY <2>3, GotoEffect DEF Request
      <3>2. PICK i \in 1 .. MaxCall :
               calls' = calls \cup {[id |-> i, by |-> w, kind |-> kind, node |-> n,
                                     step |-> "queued", res |-> ""]}
        BY <2>3 DEF Request, Send
      <3>3. Stays(w)
        BY <2>1, <2>3, <3>1 DEF Stays, Leased
      <3> DEFINE sent == [id |-> i, by |-> w, kind |-> kind, node |-> n,
                          step |-> "queued", res |-> ""]
      <3>4. sent.by = w /\ sent.kind = kind /\ sent.node = n
        OBVIOUS
      <3>5. calls' = calls \cup {sent}
        BY <3>2
      <3> HIDE DEF sent
      <3>6. sent \in calls' /\ \A d \in calls' : d.by # None => d = sent
        BY <2>2, <3>5
      <3>7. sent.kind = "create" => rec'.alive /\ rec'.node = sent.node
        BY <2>3, <3>4
      <3>8. QED
        BY <3>1, <3>3, <3>4, <3>6, <3>7
    <2>4. CASE Failed(w) /\ UNCHANGED calls
      BY <2>2, <2>4, FailedEffect
    <2>5. CASE Deleted(w) /\ UNCHANGED calls
      BY <2>1, <2>2, <2>5, DeletedEffect
    <2>6. CASE CallCreate(w)
      <3>1. \/ (\E n \in Node : /\ Journal(n) /\ Request(w, "create", n)
                                /\ UNCHANGED <<cr, apiFails, holder>>)
            \/ Up(w, rec.node) /\ UNCHANGED calls
            \/ Failed(w) /\ UNCHANGED calls
        <4>1. rec.node # None => rec.node \in Node
          BY <1>0 DEF Rec
        <4>2. QED
          BY <2>6, <4>1 DEF CallCreate
      <3>2. CASE Up(w, rec.node) /\ UNCHANGED calls
        BY <2>2, <3>2, ReportEffect DEF Up
      <3>3. CASE \E n \in Node : /\ Journal(n) /\ Request(w, "create", n)
                                /\ UNCHANGED <<cr, apiFails, holder>>
        <4>1. PICK n \in Node : Journal(n) /\ Request(w, "create", n) /\ holder' = holder
          BY <3>3
        <4>2. rec'.alive /\ rec'.node = n
          BY <1>0, <4>1 DEF Journal, Rec
        <4>3. QED
          BY <2>3, <4>1, <4>2
      <3>4. QED
        BY <2>4, <3>1, <3>2, <3>3
    <2>7. CASE CallSuspend(w) \/ CallResume(w) \/ CallDelete(w)
      <3>1. \/ (\E n, kind : /\ Request(w, kind, n) /\ kind # "create"
                             /\ holder' = holder)
            \/ Failed(w) /\ UNCHANGED calls
            \/ Deleted(w) /\ UNCHANGED calls
        <4>1. ASSUME NEW n, Request(w, "suspend", n) \/ Request(w, "resume", n)
                              \/ Request(w, "destroy", n), holder' = holder
              PROVE  \E m, kind : /\ Request(w, kind, m) /\ kind # "create"
                                  /\ holder' = holder
          BY <4>1
        <4>2. QED
          BY <2>7, <4>1 DEF CallSuspend, CallResume, CallDelete
      <3>2. QED
        BY <2>3, <2>4, <2>5, <3>1
    <2>8. QED
      BY <1>2, <2>6, <2>7
  <1>3. ASSUME NEW c \in calls, c.by = w
        PROVE  /\ worker[w].pc = "wait"
               /\ worker[w].pc \in Leased
               /\ \A d \in calls \ {c} : d.by = None
    <2>1. worker[w].pc = "wait" /\ \A d \in calls : d.by # None => d = c
      BY <1>3, OnlyThisAwaited
    <2>2. QED
      BY <2>1 DEF Leased
  <1>4. CASE ReceiveOk(w)
    <2>1. PICK c \in calls :
             /\ c.by = w
             /\ calls' = calls \ {c}
             /\ \/ Up(w, c.node) \/ Failed(w) \/ Deleted(w)
                \/ Report(w, worker[w].cr.target, FALSE)
      BY <1>4, ReceiveOkOutcome
    <2>2. Others(w) /\ Leaves(w)
      BY <1>3, <2>1, FailedEffect, DeletedEffect, ReportEffect DEF Up
    <2>3. QED
      BY <1>3, <2>1, <2>2
  <1>5. CASE ReceiveError(w)
    <2>1. PICK c \in calls : c.by = w /\ calls' = calls \ {c} /\ Failed(w)
      BY <1>5 DEF ReceiveError, Replies
    <2>2. QED
      BY <1>3, <2>1, FailedEffect
  <1>6. CASE ReceiveFull(w)
    <2>1. PICK c \in calls :
             /\ c.by = w
             /\ calls' = calls \ {c}
             /\ worker' = [worker EXCEPT ![w].pc = "call", ![w].full = @ \cup {c.node}]
             /\ holder' = holder
      BY <1>6 DEF ReceiveFull, Replies
    <2> DEFINE full == worker[w].full \cup {c.node}
    <2>2. worker' = [worker EXCEPT ![w] = [worker[w] EXCEPT !.pc = "call", !.full = full]]
      BY <1>0, <2>1
    <2> HIDE DEF full
    <2>3. [worker[w] EXCEPT !.pc = "call", !.full = full].pc = "call"
      BY WorkerTyped DEF WorkerRec
    <2>4. Others(w) /\ worker'[w].pc = "call"
      BY <1>0, <2>2, <2>3 DEF Others
    <2>5. Stays(w)
      BY <1>3, <2>1, <2>4 DEF Stays, Leased
    <2>6. QED
      BY <1>3, <2>1, <2>4, <2>5
  <1>7. CASE Timeout(w)
    <2>1. PICK c \in calls :
             /\ c.by = w
             /\ calls' = (calls \ {c}) \cup {[c EXCEPT !.by = None]}
             /\ Failed(w)
      BY <1>7 DEF Timeout
    <2>2. [c EXCEPT !.by = None].by = None
      BY <1>0 DEF Call
    <2>3. \A d \in calls' : d.by = None
      BY <1>3, <2>1, <2>2
    <2>4. QED
      BY <2>1, <2>3, FailedEffect
  <1>8. QED
    BY <1>2, <1>4, <1>5, <1>6, <1>7
-----------------------------------------------------------------------------
LEMMA FenceInitially == Init => FenceInv
  BY DEF Init, NodeInit, Idle, FenceInv, HolderAtWork, AwaitedWaits, Leased

\* Nobody is past the lease when nobody holds it, or when its holder is not.
LEMMA NobodyLeased ==
    ASSUME TypeOK, HolderAtWork,
           holder = None \/ worker[holder].pc \notin Leased
    PROVE  \A w \in Worker : worker[w].pc \notin Leased
  BY NodeAgentAssumption DEF HolderAtWork

\* What was awaited still is, by replicas this step does not touch.
LEMMA InheritedWaits ==
    ASSUME TypeOK, AwaitedWaits, Inherited, worker' = worker
    PROVE  AwaitedWaits'
  BY DEF Inherited, AwaitedWaits

\* A replica that is not waiting moves, and every request stays as it is.
LEMMA OthersWait ==
    ASSUME TypeOK, AwaitedWaits, NEW w \in Worker, Others(w),
           worker[w].pc # "wait", calls' = calls
    PROVE  AwaitedWaits'
  <1>1. \A c \in calls : c.by \in Worker \cup {None}
    BY DEF TypeOK, NodeTypeOK, Call
  <1>2. \A c \in calls : c.by # None => worker'[c.by].pc = "wait"
    BY <1>1 DEF AwaitedWaits, Others
  <1>3. QED
    BY <1>2 DEF AwaitedWaits

\* A crash leaves the requests of the others and orphans those of w.
LEMMA CrashCalls ==
    ASSUME TypeOK, NEW w \in Worker, Crash(w)
    PROVE  \A e \in calls' : e.by # None => e \in calls /\ e.by # w
  <1> DEFINE cut(c) == [c EXCEPT !.by = None]
  <1>1. \A c \in calls : cut(c).by = None
    BY DEF TypeOK, NodeTypeOK, Call
  <1>2. \A e \in calls' : \/ e \in calls /\ e.by # w
                          \/ \E c \in calls : e = cut(c)
    BY DEF Crash
  <1> HIDE DEF cut
  <1>3. QED
    BY <1>1, <1>2

LEMMA FenceStep == TypeOK /\ FenceInv /\ [Next]_vars => FenceInv'
  <1> SUFFICES ASSUME TypeOK, FenceInv, [Next]_vars
               PROVE  FenceInv'
    OBVIOUS
  <1>0. HolderAtWork /\ AwaitedWaits
    BY DEF FenceInv
  <1>1. CASE Api
    <2>1. worker' = worker /\ holder' = holder /\ calls' = calls
      BY <1>1 DEF Api, EnsureCR, CreateRefused, ApiSuspend, ApiResume, RequestIdle,
         ApiDelete, RequestState, nodeVars
    <2>2. QED
      BY <1>0, <2>1 DEF FenceInv, HolderAtWork, AwaitedWaits
  <1>2. ASSUME NEW w \in Worker,
               \/ Fetch(w) \/ Reconcile(w) \/ ReconcileDelete(w) \/ Drift(w)
               \/ Settle(w) \/ WorkCreate(w) \/ WorkRecover(w)
               \/ WorkSuspend(w) \/ Mark(w) \/ WorkResume(w) \/ WorkDelete(w)
               \/ Unlist(w)
        PROVE  FenceInv'
    <2>1. /\ Others(w)
          /\ Stays(w) \/ Leaves(w)
          /\ worker[w].pc # "wait"
          /\ calls' = calls
      BY <1>2, LocalStepEffect
    <2>2. HolderAtWork'
      BY <1>0, <2>1, EffectKeepsHolder
    <2>3. AwaitedWaits'
      BY <1>0, <2>1, OthersWait
    <2>4. QED
      BY <2>2, <2>3 DEF FenceInv
  <1>3. ASSUME NEW w \in Worker, Lease(w)
        PROVE  FenceInv'
    <2>1. worker[w].pc = "lease" /\ calls' = calls
      BY <1>3 DEF Lease, nodeVars
    <2>2. Others(w)
      BY <1>3, GotoEffect, DoneEffect DEF Lease
    <2>3. CASE rec.alive /\ holder = None
      <3>1. holder' = w
        BY <1>3, <2>3 DEF Lease
      <3>2. HolderAtWork'
        BY <1>0, <2>2, <2>3, <3>1, NobodyLeased DEF HolderAtWork, Others
      <3>3. QED
        BY <1>0, <2>1, <2>2, <3>2, OthersWait DEF FenceInv
    <2>4. CASE ~(rec.alive /\ holder = None)
      <3>1. Done(w) /\ holder' = holder
        BY <1>3, <2>4 DEF Lease
      <3>2. HolderAtWork'
        BY <1>0, <3>1, DoneEffect, EffectKeepsHolder DEF Leaves
      <3>3. QED
        BY <1>0, <2>1, <2>2, <3>2, OthersWait DEF FenceInv
    <2>5. QED
      BY <2>3, <2>4
  <1>4. ASSUME NEW w \in Worker,
               \/ CallCreate(w) \/ CallSuspend(w) \/ CallResume(w) \/ CallDelete(w)
               \/ ReceiveOk(w) \/ ReceiveFull(w) \/ ReceiveError(w) \/ Timeout(w)
        PROVE  FenceInv'
    <2>1. /\ Others(w)
          /\ Stays(w) \/ Leaves(w)
          /\ \/ \A c \in calls' : c.by = None
             \/ /\ worker'[w].pc = "wait"
                /\ \E c \in calls' : /\ c.by = w
                                     /\ \A d \in calls' : d.by # None => d = c
      BY <1>4, DriverStepEffect
    <2>2. HolderAtWork'
      BY <1>0, <2>1, EffectKeepsHolder
    <2>3. AwaitedWaits'
      BY <2>1 DEF AwaitedWaits
    <2>4. QED
      BY <2>2, <2>3 DEF FenceInv
  <1>5. ASSUME NEW w \in Worker, Crash(w)
        PROVE  FenceInv'
    <2>1. Done(w) /\ holder' = holder
      BY <1>5 DEF Crash
    <2>2. Others(w) /\ worker'[w].pc \notin Leased
      BY <2>1, DoneEffect
    <2>3. HolderAtWork'
      BY <1>0, <2>1, <2>2, EffectKeepsHolder DEF Leaves
    <2>4. \A e \in calls' : e.by # None => e \in calls /\ e.by # w
      BY <1>5, CrashCalls
    <2>5. \A c \in calls : c.by \in Worker \cup {None}
      BY DEF TypeOK, NodeTypeOK, Call
    <2>6. AwaitedWaits'
      BY <1>0, <2>2, <2>4, <2>5 DEF AwaitedWaits, Others
    <2>7. QED
      BY <2>3, <2>6 DEF FenceInv
  <1>6. CASE ExpireLease
    <2>1. worker' = worker /\ calls' = calls
      BY <1>6 DEF ExpireLease, nodeVars
    <2>2. \A w \in Worker : worker[w].pc \notin Leased
      BY <1>0, <1>6, NobodyLeased DEF ExpireLease
    <2>3. QED
      BY <1>0, <2>1, <2>2 DEF FenceInv, HolderAtWork, AwaitedWaits
  <1>7. CASE NodeStep
    <2>1. worker' = worker /\ holder' = holder /\ NodeNext
      BY <1>7 DEF NodeStep
    <2>2. AwaitedWaits'
      BY <1>0, <2>1, NodeInherits, InheritedWaits
    <2>3. QED
      BY <1>0, <2>1, <2>2 DEF FenceInv, HolderAtWork
  <1>8. CASE UNCHANGED vars
    BY <1>0, <1>8 DEF FenceInv, HolderAtWork, AwaitedWaits, vars
  <1>9. QED
    BY <1>1, <1>2, <1>3, <1>4, <1>5, <1>6, <1>7, <1>8 DEF Next, Step

\* In every behaviour, with crashes, timeouts, lost requests and any number of
\* replicas and nodes: a replica past the lease is its holder, and a request
\* anybody waits for is the holder's.
THEOREM LifecycleFenced == Spec => []Fenced
  <1>1. TypeOK /\ FenceInv => Fenced
    <2> SUFFICES ASSUME TypeOK, FenceInv, NEW c \in calls, c.by # None
                 PROVE  holder = c.by
      BY DEF Fenced, FenceInv, HolderAtWork
    <2>1. c.by \in Worker
      BY DEF TypeOK, NodeTypeOK, Call
    <2>2. QED
      BY <2>1, OnlyThisAwaited
  <1>2. QED
    BY <1>1, FenceInitially, FenceStep, LifecycleTypeCorrect, PTL DEF Spec

-----------------------------------------------------------------------------
(* The journal of placements. *)

LEMMA JournalStep ==
    ASSUME TypeOK, FenceInv, Journaled, [Next]_vars
    PROVE  Journaled'
  <1>0. rec \in Rec /\ calls \in SUBSET Call /\ None \notin Node
    BY NodeAgentAssumption DEF TypeOK, NodeTypeOK
  <1>1. CASE Api
    <2>1. calls' = calls
      BY <1>1 DEF Api, EnsureCR, CreateRefused, ApiSuspend, ApiResume, RequestIdle,
         ApiDelete, RequestState, nodeVars
    <2>2. rec' = rec \/ rec.node = None
      BY <1>1 DEF Api, EnsureCR, CreateRefused, ApiSuspend, ApiResume, RequestIdle,
         ApiDelete, RequestState, NoRec
    <2>3. \A c \in calls : c.node # None
      BY <1>0 DEF Call
    <2>4. QED
      BY <2>1, <2>2, <2>3 DEF Journaled
  <1>2. ASSUME NEW w \in Worker,
               \/ Fetch(w) \/ Reconcile(w) \/ ReconcileDelete(w) \/ Drift(w)
               \/ Settle(w) \/ WorkCreate(w) \/ WorkRecover(w)
               \/ WorkSuspend(w) \/ Mark(w) \/ WorkResume(w) \/ WorkDelete(w)
               \/ Unlist(w)
        PROVE  Journaled'
    <2>1. /\ calls' = calls
          /\ \/ rec.alive => rec'.alive /\ rec'.node = rec.node
             \/ \A c \in calls : c.by = None
      BY <1>2, LocalStepEffect
    <2>2. QED
      BY <2>1 DEF Journaled
  <1>3. ASSUME NEW w \in Worker,
               \/ CallCreate(w) \/ CallSuspend(w) \/ CallResume(w) \/ CallDelete(w)
               \/ ReceiveOk(w) \/ ReceiveFull(w) \/ ReceiveError(w) \/ Timeout(w)
        PROVE  Journaled'
    <2>1. \/ \A c \in calls' : c.by = None
          \/ \E c \in calls' :
                /\ c.kind = "create" => rec'.alive /\ rec'.node = c.node
                /\ \A d \in calls' : d.by # None => d = c
      BY <1>3, DriverStepEffect
    <2>2. QED
      BY <2>1 DEF Journaled
  <1>4. ASSUME NEW w \in Worker, Lease(w) \/ Crash(w)
        PROVE  Journaled'
    <2>1. rec' = rec
      BY <1>4 DEF Lease, Crash
    <2>2. \A e \in calls' : e.by # None => e \in calls
      BY <1>4, CrashCalls DEF Lease, nodeVars
    <2>3. QED
      BY <2>1, <2>2 DEF Journaled
  <1>5. CASE ExpireLease \/ UNCHANGED vars
    <2>1. rec' = rec /\ calls' = calls
      BY <1>5 DEF ExpireLease, nodeVars, vars
    <2>2. QED
      BY <2>1 DEF Journaled
  <1>6. CASE NodeStep
    <2>1. rec' = rec /\ Inherited
      BY <1>6, NodeInherits DEF NodeStep, FenceInv
    <2>2. QED
      BY <2>1 DEF Journaled, Inherited
  <1>7. QED
    BY <1>1, <1>2, <1>3, <1>4, <1>5, <1>6 DEF Next, Step

\* The node of every create a replica waits for is in the record, whatever
\* the other replicas, clients and nodes do meanwhile: only the holder of the
\* lease could overwrite it, and the holder is the one that waits.
THEOREM PlacementJournaled == Spec => []Journaled
  <1>1. Init => Journaled
    BY DEF Init, NodeInit, Journaled
  <1>2. TypeOK /\ FenceInv /\ Journaled /\ [Next]_vars => Journaled'
    BY JournalStep
  <1>3. QED
    BY <1>1, <1>2, FenceInitially, FenceStep, LifecycleTypeCorrect, PTL DEF Spec
=============================================================================
