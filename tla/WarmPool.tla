------------------------------ MODULE WarmPool ------------------------------
(***************************************************************************)
(* The warm pool: the leader of several operator replicas keeps suspended  *)
(* members ready, and a creation takes one over instead of booting a VM    *)
(* (sandbox-api/warm_pool.py, the creation and the maintenance of          *)
(* operator.py, the create and resume of drivers/firecracker.py, the       *)
(* leader lock and the pool's items of db.py).                             *)
(*                                                                         *)
(* A sandbox is created or deleted under its lease, by one replica at a    *)
(* time (SandboxLease); the lease of a replica that died has run out when  *)
(* the next one begins.                                                    *)
(***************************************************************************)
EXTENDS PoolNode

CONSTANTS
    Worker,     \* operator replicas
    PoolSize    \* WARM_POOL_SIZE

ASSUME WarmPoolAssumption ==
    /\ None \notin Worker \cup Sandbox
    /\ IsFiniteSet(Worker)
    /\ PoolSize \in Nat

VARIABLES
    lock,       \* owner of the leader lock, None when absent or expired
    leads,      \* the replicas that believe they lead (is_leader)
    item,       \* per member: its item in the table
    rec,        \* per sandbox: its record
    job,        \* per replica: the creation or deletion it is at
    refill,     \* per replica: its warm-pool-refill thread
    lost        \* ids whose VM, running or coming up, was let go of: see the
                \* four actions that add to it

vars == <<nodeVars, lock, leads, item, rec, job, refill, lost>>

\* pool: pool_state; "unused" is an id not drawn yet, "drawn" one without an item.
Item == [pool : {"unused", "drawn", "running", "warm", "claimed", "deleted"},
         node : Node \cup {None}]

\* src: warm_source_id.
Rec == [state : {"creating", "running", "failed", "destroying", "deleted"},
        node : Node \cup {None}, src : Member \cup {None}]

Job == [pc : {"idle", "claim", "journal", "resume", "place", "boot", "destroy"},
        sb : Sandbox \cup {None}, src : Member \cup {None}, full : SUBSET Node,
        again : BOOLEAN]

Refill == [pc : {"idle", "make", "boot", "suspend"}, need : 0 .. PoolSize,
           id : Member \cup {None}, node : Node \cup {None}, full : SUBSET Node]

\* A refill and a creation at work, and the fields of a record.
Filling(pc, need, id, node, full) ==
    [pc |-> pc, need |-> need, id |-> id, node |-> node, full |-> full]
Working(pc, s, m, full) ==
    [pc |-> pc, sb |-> s, src |-> m, full |-> full, again |-> FALSE]
Entry(state, node, src) == [state |-> state, node |-> node, src |-> src]

Gone == [pool |-> "deleted", node |-> None]
Free == Working("idle", None, None, {})
Rest == Filling("idle", 0, None, None, {})

Init ==
    /\ NodeInit
    /\ lock = None
    /\ leads = {}
    /\ item = [m \in Member |-> [pool |-> "unused", node |-> None]]
    /\ rec = [s \in Sandbox |-> Entry("creating", None, None)]
    /\ job = [w \in Worker |-> Free]
    /\ refill = [w \in Worker |-> Rest]
    /\ lost = {}

leaderVars == <<lock, leads>>
Warm == {m \in Member : item[m].pool = "warm"}

\* No node has, or may still get, a VM of the id.
NoVm(id) == \A n \in Node : vm[n][id] # "running" /\ ~Pending(n, id)

-----------------------------------------------------------------------------
(* The leader lock. *)

\* acquire_leader_lock: free, expired, or one's own.
CanLead(w) == lock \in {None, w}

\* _leadership_loop: a replica that gets the lock leads, and renews it from
\* then on, which changes nothing here.
Lead(w) ==
    /\ CanLead(w) /\ (lock = w => w \notin leads)
    /\ lock' = w
    /\ leads' = leads \cup {w}
    /\ UNCHANGED <<nodeVars, item, rec, job, refill, lost>>

\* It gets no lock, and knows that it does not lead; an exception is no lock.
LeadFails(w) ==
    /\ w \in leads
    /\ IF CanLead(w) THEN Spend ELSE UNCHANGED budget
    /\ leads' = leads \ {w}
    /\ UNCHANGED <<vm, from, used, calls, lock, item, rec, job, refill, lost>>

\* The lock runs out: its owner died or failed to renew it, or is late and
\* believes that it leads.
LockExpires ==
    /\ lock # None
    /\ IF lock \in leads THEN Spend ELSE UNCHANGED budget
    /\ lock' = None
    /\ UNCHANGED <<vm, from, used, calls, leads, item, rec, job, refill, lost>>

-----------------------------------------------------------------------------
(* Replenishment. *)

\* Faulty: whether anything is missing is not looked at.
ReplenishAlways(w) ==
    /\ refill[w] = Rest
    /\ w \in leads
    /\ refill' = [refill EXCEPT ![w] =
                     Filling("make", PoolSize - Cardinality(Warm), None, None, {})]
    /\ UNCHANGED <<nodeVars, leaderVars, item, rec, job, lost>>

\* Faulty: every replica refills.
ReplenishAnywhere(w) ==
    /\ refill[w] = Rest
    /\ Cardinality(Warm) < PoolSize
    /\ refill' = [refill EXCEPT ![w] =
                     Filling("make", PoolSize - Cardinality(Warm), None, None, {})]
    /\ UNCHANGED <<nodeVars, leaderVars, item, rec, job, lost>>

\* _replenish_warm_pool: one thread per replica (_warm_refill_lock); it asks
\* once whether it leads, and counts once.
Replenish(w) ==
    /\ refill[w] = Rest
    /\ w \in leads
    /\ Cardinality(Warm) < PoolSize
    /\ refill' = [refill EXCEPT ![w] =
                     Filling("make", PoolSize - Cardinality(Warm), None, None, {})]
    /\ UNCHANGED <<nodeVars, leaderVars, item, rec, job, lost>>

\* The refill goes on with the next member, if any is missing.
NextMember(w) ==
    refill' = [refill EXCEPT ![w] =
                 IF @.need <= 1 THEN Rest
                 ELSE Filling("make", @.need - 1, None, None, {})]

\* driver.create of a member: no record, no journal.
MakeMember(w) ==
    /\ refill[w].pc = "make"
    /\ \E n \in Node \ refill[w].full, m \in Member :
        /\ IF refill[w].id = None THEN item[m].pool = "unused" ELSE m = refill[w].id
        /\ item' = [item EXCEPT ![m].pool = "drawn"]
        /\ calls' = calls \cup {Asked(m, n, "create", None)}
        /\ refill' = [refill EXCEPT ![w] = Filling("boot", @.need, m, n, @.full)]
    /\ UNCHANGED <<vm, from, used, budget, leaderVars, rec, job, lost>>

\* The member runs: its item is put, and it is suspended.
MemberRuns(w) ==
    LET r == refill[w] IN
    /\ r.pc = "boot"
    /\ \E c \in Answer(r.id, "ok") :
        calls' = (calls \ {c}) \cup {Asked(r.id, r.node, "suspend", None)}
    /\ item' = [item EXCEPT ![r.id] = [pool |-> "running", node |-> r.node]]
    /\ refill' = [refill EXCEPT ![w].pc = "suspend"]
    /\ UNCHANGED <<vm, from, used, budget, leaderVars, rec, job, lost>>

\* The node is full: another one is tried.
MemberElsewhere(w) ==
    LET r == refill[w] IN
    /\ r.pc = "boot" /\ r.full \cup {r.node} # Node
    /\ \E c \in Answer(r.id, "full") : calls' = calls \ {c}
    /\ refill' = [refill EXCEPT ![w] =
                     Filling("make", r.need, r.id, r.node, r.full \cup {r.node})]
    /\ UNCHANGED <<vm, from, used, budget, leaderVars, item, rec, job, lost>>

MemberWarm(w) ==
    LET r == refill[w] IN
    /\ r.pc = "suspend"
    /\ \E c \in Answer(r.id, "ok") : calls' = calls \ {c}
    /\ item' = [item EXCEPT ![r.id].pool = "warm"]
    /\ NextMember(w)
    /\ UNCHANGED <<vm, from, used, budget, leaderVars, rec, job, lost>>

\* Any exception deletes the item, and nothing else: a VM that runs, or comes
\* up late, is let go of.
MemberFails(w) ==
    LET r == refill[w] IN
    /\ r.pc \in {"boot", "suspend"}
    /\ \/ \E c \in Answer(r.id, "error") : calls' = calls \ {c}
       \/ /\ r.full \cup {r.node} = Node
          /\ \E c \in Answer(r.id, "full") : calls' = calls \ {c}
    /\ item' = [item EXCEPT ![r.id] = Gone]
    /\ lost' = IF NoVm(r.id) THEN lost ELSE lost \cup {r.id}
    /\ NextMember(w)
    /\ UNCHANGED <<vm, from, used, budget, leaderVars, rec, job>>

-----------------------------------------------------------------------------
(* Creation. *)

Goto(w, pc) == job' = [job EXCEPT ![w].pc = pc]
Finish(w) == job' = [job EXCEPT ![w] = Free]

\* The lease.
Begins(w, s, pc) ==
    /\ job[w] = Free
    /\ \A v \in Worker : job[v].sb # s
    /\ job' = [job EXCEPT ![w] = Working(pc, s, None, {})]

\* _create up to the claim.  A failed creation is repeated when the status of
\* its failure was not published.
Create(w, s) ==
    /\ Begins(w, s, "claim")
    /\ \/ rec[s].state = "creating" /\ UNCHANGED budget
       \/ rec[s].state = "failed" /\ Spend
    /\ rec' = [rec EXCEPT ![s].state = "creating"]
    /\ UNCHANGED <<vm, from, used, calls, leaderVars, item, refill, lost>>

\* claim with a source that an earlier attempt journaled.
ClaimAgain(w) ==
    LET s == job[w].sb IN
    /\ job[w].pc = "claim" /\ rec[s].src # None
    /\ job' = [job EXCEPT ![w] = Working("journal", s, rec[s].src, {})]
    /\ UNCHANGED <<nodeVars, leaderVars, item, rec, refill, lost>>

\* Faulty: a member is claimed by whoever lists it.
CanClaimListed(m) == item[m].pool \in {"warm", "claimed"}

\* claim_warm_item: a conditional update of one candidate after the other.
CanClaim(m) == item[m].pool = "warm"

ClaimMember(w) ==
    /\ job[w].pc = "claim" /\ rec[job[w].sb].src = None
    /\ \E m \in Member :
        /\ CanClaim(m)
        /\ item' = [item EXCEPT ![m].pool = "claimed"]
        /\ job' = [job EXCEPT ![w] = Working("journal", @.sb, m, {})]
    /\ UNCHANGED <<nodeVars, leaderVars, rec, refill, lost>>

\* Faulty: the placement is left to the end.
JournalSource(s, m) == rec' = [rec EXCEPT ![s].src = m]

Journal(s, m) == rec' = [rec EXCEPT ![s] = Entry(@.state, item[m].node, m)]

\* get_runtime_state, or the probe of driver.create.
Runs(s) == rec[s].node # None /\ vm[rec[s].node][s] = "running"

NoMember(w) == job' = [job EXCEPT ![w] = Working("place", @.sb, None, {})]

\* The journal and the request, unless the member's item is gone.  The journal
\* goes over whatever placement an earlier boot has left: its VM, on another
\* node, is let go of.
ClaimJournal(w) ==
    LET s == job[w].sb  m == job[w].src  old == rec[s].node IN
    /\ job[w].pc = "journal"
    /\ IF item[m] = Gone
       THEN /\ rec' = [rec EXCEPT ![s].src = None]
            /\ NoMember(w)
            /\ UNCHANGED <<calls, lost>>
       ELSE /\ Journal(s, m)
            /\ calls' = calls \cup {Asked(s, item[m].node, "resume", m)}
            /\ Goto(w, "resume")
            /\ lost' = IF old \in {None, item[m].node} \/ (~Runs(s) /\ ~Pending(old, s))
                       THEN lost ELSE lost \cup {s}
    /\ UNCHANGED <<vm, from, used, budget, leaderVars, item, refill>>

\* A first failure: get_runtime_state finds the VM running at the journaled
\* node, and the resume is sent again.
ClaimRetries(w) ==
    LET s == job[w].sb IN
    /\ job[w].pc = "resume" /\ ~job[w].again
    /\ Runs(s)
    /\ \E c \in Answer(s, "error") :
        calls' = (calls \ {c}) \cup {Asked(s, rec[s].node, "resume", job[w].src)}
    /\ job' = [job EXCEPT ![w].again = TRUE]
    /\ UNCHANGED <<vm, from, used, budget, leaderVars, item, rec, refill, lost>>

\* The VM does not run, the probe fails, or the second attempt has failed, too:
\* the journal is cleared, whatever became of the requests, and the member
\* deleted; a VM is to be booted.  (A crash between the two writes leaves an
\* item that is claimed for ever: no one reads it.)
ClaimClear(w) ==
    LET s == job[w].sb IN
    /\ job[w].pc = "resume"
    /\ \E c \in Answer(s, "error") : calls' = calls \ {c}
    /\ IF ~job[w].again /\ Runs(s) THEN Spend ELSE UNCHANGED budget
    /\ rec' = [rec EXCEPT ![s] = Entry(@.state, None, None)]
    /\ item' = [item EXCEPT ![job[w].src] = Gone]
    /\ lost' = IF NoVm(s) THEN lost ELSE lost \cup {s}
    /\ NoMember(w)
    /\ UNCHANGED <<vm, from, used, leaderVars, refill>>

\* finish: the record first, then the member's item (the same holds here).
ClaimFinish(w) ==
    LET s == job[w].sb IN
    /\ job[w].pc = "resume"
    /\ \E c \in Answer(s, "ok") : calls' = calls \ {c}
    /\ rec' = [rec EXCEPT ![s] = Entry("running", @.node, None)]
    /\ item' = [item EXCEPT ![job[w].src] = Gone]
    /\ Finish(w)
    /\ UNCHANGED <<vm, from, used, budget, leaderVars, refill, lost>>

\* No member is claimed: none may be listed (the index lags), or be of the
\* image and the pool.
NoClaim(w) == job[w].pc = "claim" /\ rec[job[w].sb].src = None

\* driver.create: the journaled node, unless it was full, else any other one.
Place(w) ==
    LET s == job[w].sb
        journaled == rec[s].node # None /\ job[w].full = {}
        runs == journaled /\ Runs(s)
    IN
    /\ NoClaim(w) \/ job[w].pc = "place"
    /\ \/ /\ runs
          /\ rec' = [rec EXCEPT ![s].state = "running"]
          /\ Finish(w)
          /\ UNCHANGED calls
       \/ /\ ~runs
          /\ \E n \in IF journaled THEN {rec[s].node} ELSE Node \ job[w].full :
               /\ rec' = [rec EXCEPT ![s].node = n]
               /\ calls' = calls \cup {Asked(s, n, "create", None)}
          /\ Goto(w, "boot")
    /\ UNCHANGED <<vm, from, used, budget, leaderVars, item, refill, lost>>

Booted(w) ==
    /\ job[w].pc = "boot"
    /\ \E c \in Answer(job[w].sb, "ok") : calls' = calls \ {c}
    /\ rec' = [rec EXCEPT ![job[w].sb].state = "running"]
    /\ Finish(w)
    /\ UNCHANGED <<vm, from, used, budget, leaderVars, item, refill, lost>>

Elsewhere(w) ==
    LET n == rec[job[w].sb].node IN
    /\ job[w].pc = "boot" /\ job[w].full \cup {n} # Node
    /\ \E c \in Answer(job[w].sb, "full") : calls' = calls \ {c}
    /\ job' = [job EXCEPT ![w] = Working("place", @.sb, None, @.full \cup {n})]
    /\ UNCHANGED <<vm, from, used, budget, leaderVars, item, rec, refill, lost>>

\* _operation_failed.
BootFails(w) ==
    LET s == job[w].sb IN
    /\ job[w].pc = "boot"
    /\ \/ \E c \in Answer(s, "error") : calls' = calls \ {c}
       \/ /\ job[w].full \cup {rec[s].node} = Node
          /\ \E c \in Answer(s, "full") : calls' = calls \ {c}
    /\ rec' = [rec EXCEPT ![s].state = "failed"]
    /\ Finish(w)
    /\ UNCHANGED <<vm, from, used, budget, leaderVars, item, refill, lost>>

-----------------------------------------------------------------------------
(* Deletion. *)

\* _reconcile_delete, with the record as it is under the lease
\* (OperatorLifecycle has it read before).  "destroying" stays until the
\* record is deleted: after a failure no creation follows, since the resource
\* is marked for deletion.
Delete(w, s) ==
    /\ rec[s].node # None
    /\ Begins(w, s, "destroy")
    /\ calls' = calls \cup {Asked(s, rec[s].node, "destroy", None)}
    /\ rec' = [rec EXCEPT ![s].state = "destroying"]
    /\ UNCHANGED <<vm, from, used, budget, leaderVars, item, refill, lost>>

\* A record without a node has nothing to destroy.
DeleteUnplaced(s) ==
    /\ rec[s].state # "deleted" /\ rec[s].node = None
    /\ \A w \in Worker : job[w].sb # s
    /\ rec' = [rec EXCEPT ![s] = Entry("deleted", None, None)]
    /\ UNCHANGED <<nodeVars, leaderVars, item, job, refill, lost>>

Destroyed(w) ==
    /\ job[w].pc = "destroy"
    /\ \E c \in Answer(job[w].sb, "ok") : calls' = calls \ {c}
    /\ rec' = [rec EXCEPT ![job[w].sb] = Entry("deleted", None, None)]
    /\ Finish(w)
    /\ UNCHANGED <<vm, from, used, budget, leaderVars, item, refill, lost>>

DestroyFails(w) ==
    /\ job[w].pc = "destroy"
    /\ \E c \in Answer(job[w].sb, "error") : calls' = calls \ {c}
    /\ Finish(w)
    /\ UNCHANGED <<vm, from, used, budget, leaderVars, item, rec, refill, lost>>

-----------------------------------------------------------------------------
\* The replica dies with its threads, and is replaced.  A member that has no
\* item yet is let go of.
Crash(w) ==
    /\ job[w] # Free \/ refill[w] # Rest \/ w \in leads
    /\ Spend
    /\ job' = [job EXCEPT ![w] = Free]
    /\ refill' = [refill EXCEPT ![w] = Rest]
    /\ leads' = leads \ {w}
    /\ LET mine == {c \in calls : c.heard /\ c.id \in {job[w].sb, refill[w].id}} IN
       calls' = (calls \ mine) \cup
           {[c EXCEPT !.heard = FALSE] :
                c \in {d \in mine : d.step \in {"queued", "begun"}}}
    /\ lost' = IF refill[w].pc = "boot" /\ ~NoVm(refill[w].id)
               THEN lost \cup {refill[w].id} ELSE lost
    /\ UNCHANGED <<vm, from, used, lock, item, rec>>

Refilling(w) ==
    \/ Replenish(w)
    \/ MakeMember(w)
    \/ MemberRuns(w)
    \/ MemberElsewhere(w)
    \/ MemberWarm(w)
    \/ MemberFails(w)

Creating(w) ==
    \/ ClaimAgain(w)
    \/ ClaimMember(w)
    \/ ClaimJournal(w)
    \/ ClaimRetries(w)
    \/ ClaimClear(w)
    \/ ClaimFinish(w)
    \/ Place(w)
    \/ Booted(w)
    \/ Elsewhere(w)
    \/ BootFails(w)
    \/ Destroyed(w)
    \/ DestroyFails(w)

Next ==
    \/ /\ Handler
       /\ UNCHANGED <<leaderVars, item, rec, job, refill, lost>>
    \/ LockExpires
    \/ \E s \in Sandbox : DeleteUnplaced(s)
    \/ \E w \in Worker :
        \/ Lead(w)
        \/ LeadFails(w)
        \/ Refilling(w)
        \/ Creating(w)
        \/ Crash(w)
        \/ \E s \in Sandbox : Create(w, s) \/ Delete(w, s)

Spec == Init /\ [][Next]_vars

-----------------------------------------------------------------------------
(* Properties. *)

\* Every variable keeps its type; in particular a refill never counts below
\* zero, though two leaders may have filled the pool above its size.
TypeOK ==
    /\ NodeTypeOK
    /\ lock \in Worker \cup {None}
    /\ leads \subseteq Worker
    /\ item \in [Member -> Item]
    /\ rec \in [Sandbox -> Rec]
    /\ job \in [Worker -> Job]
    /\ refill \in [Worker -> Refill]
    /\ lost \subseteq Id

\* A member's directory is handed over once: never are two sandboxes restored
\* from one member, and never does one run beside the member it came from.
SourceOnce ==
    \A m \in Member :
        /\ Cardinality({ns \in Node \X Sandbox : from[ns[1]][ns[2]] = m}) <= 1
        /\ \A n \in Node, s \in Sandbox :
              from[n][s] = m => \A k \in Node : vm[k][m] # "running"

\* Whatever crashes, and whatever answer gets lost, each VM that was not let go
\* of is found: a sandbox's on the node of its record, where a retry and a
\* deletion look for it; a member's through its item or its refill.
Accounted ==
    \A n \in Node :
        /\ \A s \in Sandbox \ lost : vm[n][s] = "running" => rec[s].node = n
        /\ \A m \in Member \ lost : vm[n][m] = "running" =>
              \/ item[m].pool = "running" /\ item[m].node = n
              \/ \E w \in Worker : refill[w].id = m /\ refill[w].node = n

Committed(n) == MapThenSumSet(LAMBDA i : used[n][i], Id)

\* A node never commits more vCPUs than it has; it commits some for a VM if and
\* only if it runs or is being started, so that nothing leaks; and all it takes,
\* except for a claimed member, which is admitted on a hint.
Reserved ==
    \A n \in Node :
        /\ Committed(n) <= Capacity
        /\ \A i \in Id :
            /\ used[n][i] > 0 <=>
                 \/ vm[n][i] = "running"
                 \/ \E c \in calls : c.node = n /\ c.id = i /\ c.step = "begun"
            /\ vm[n][i] = "running" /\ used[n][i] < Size =>
                 i \in Sandbox /\ from[n][i] # None

\* Leaders of different terms overfill the pool by no more than one pool for
\* each fault that made them two.
PoolBounded == Cardinality(Warm) <= PoolSize * (1 + Budget - budget)
=============================================================================
