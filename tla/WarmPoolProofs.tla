--------------------------- MODULE WarmPoolProofs ---------------------------
(***************************************************************************)
(* Proofs about the warm pool: whoever dies, gives up or leads twice, a    *)
(* member's directory is handed to one sandbox, on one node, and no VM of  *)
(* the member runs any more.                                               *)
(*                                                                         *)
(* The inductive invariant comes in three layers, each preserved on the    *)
(* strength of those before it.  Control relates items, records, creations *)
(* and refills; the requests and VMs do not matter to it.  Custody says    *)
(* who may run in a member's directory, and where: it holds because a      *)
(* request only restores what its sandbox was given (Kept, which every     *)
(* step is shown to satisfy).  MemberInv and QuietInv say that the VM of a *)
(* member is over before the member waits to be claimed.                   *)
(***************************************************************************)
EXTENDS WarmPool, FiniteSetTheorems, TLAPS

-----------------------------------------------------------------------------
(* The control state. *)

\* s was given m: journaled, or claimed and about to be.
Given(s, m) ==
    \/ rec[s].src = m
    \/ \E w \in Worker : job[w].sb = s /\ job[w].src = m

\* A member that has an item is somewhere, unless the item is gone.
ItemInv ==
    \A m \in Member :
        /\ item[m].pool \in {"running", "warm", "claimed"} => item[m].node # None
        /\ item[m].pool = "deleted" => item[m] = Gone

\* A refill makes one member, which no other refill makes.
RefillInv ==
    \A w \in Worker :
        /\ refill[w].pc \in {"boot", "suspend"} => refill[w].id # None /\ refill[w].node # None
        /\ refill[w].pc = "idle" => refill[w].id = None
        /\ refill[w].id # None =>
              item[refill[w].id].pool = IF refill[w].pc = "suspend" THEN "running" ELSE "drawn"
        /\ \A v \in Worker : refill[w].id # None /\ refill[v].id = refill[w].id => v = w

\* A replica at work has a sandbox, which no other replica is at, and while it
\* claims also a source.
JobInv ==
    \A w \in Worker :
        /\ job[w].pc # "idle" => job[w].sb # None
        /\ job[w].sb # None /\ job[w].src # None => job[w].pc \in {"journal", "resume"}
        /\ job[w].pc \in {"journal", "resume"} => job[w].src # None
        /\ \A v \in Worker : job[w].sb # None /\ job[v].sb = job[w].sb => v = w

\* A source stays claimed as long as some sandbox was given it...
GivenInv ==
    \A s \in Sandbox, m \in Member : Given(s, m) => item[m].pool = "claimed"

\* ...and that is one sandbox.
OneGiven ==
    \A s, t \in Sandbox, m \in Member : Given(s, m) /\ Given(t, m) => s = t

\* A request was sent to the node of the record, a resume to the member's.
PlaceInv ==
    \A w \in Worker :
        /\ job[w].pc = "boot" => rec[job[w].sb].node # None
        /\ job[w].pc = "resume" => rec[job[w].sb].node = item[job[w].src].node

Control == TypeOK /\ ItemInv /\ RefillInv /\ JobInv /\ GivenInv /\ PlaceInv /\ OneGiven

-----------------------------------------------------------------------------
(* The handlers of the node-agents. *)

\* A new request is a request.
LEMMA AskedType ==
    ASSUME NEW i \in Id, NEW n \in Node, NEW m \in Member \cup {None},
           NEW k \in {"create", "resume", "suspend", "destroy"}
    PROVE  Asked(i, n, k, m) \in Call
BY DEF Asked, Call

\* What is reserved is no more than a guest's size.
LEMMA HintType ==
    ASSUME NodeTypeOK, NEW n \in Node, NEW i \in Id
    PROVE  Hint(n, i) \in 0 .. Size /\ Size \in 0 .. Size /\ 0 \in 0 .. Size
BY PoolNodeAssumption DEF Hint, NodeTypeOK

\* A request that goes a step further, or is given up, is a request.
LEMMA ReplyType ==
    ASSUME NEW c \in Call, NEW k \in {"queued", "begun", "ok", "full", "error"}
    PROVE  [c EXCEPT !.step = k] \in Call /\ [c EXCEPT !.heard = FALSE] \in Call
BY DEF Call

\* What a nested EXCEPT changes.
LEMMA TwoLevels ==
    ASSUME NEW A, NEW B, NEW C, NEW f \in [A -> [B -> C]], NEW a, NEW b, NEW v,
           NEW n \in A, NEW s \in B
    PROVE  [f EXCEPT ![a][b] = v][n][s] = IF n = a /\ s = b THEN v ELSE f[n][s]
<1>1. CASE n = a
    BY <1>1
<1>2. CASE n # a
    BY <1>2
<1> QED BY <1>1, <1>2

\* A sandbox that comes up from a member: the types, and where it may run.
LEMMA AdoptType ==
    ASSUME NodeTypeOK, NEW c \in Call, Adopt(c)
    PROVE  /\ vm' \in [Node -> [Id -> {"none", "running", "suspended"}]]
           /\ from' \in [Node -> [Sandbox -> Member \cup {None}]]
           /\ \A n \in Node, s \in Sandbox, m \in Member :
                from'[n][s] = m => from[n][s] = m \/ (c.id = s /\ c.src = m /\ c.node = n)
<1>1. c.node \in Node /\ c.id \in Id /\ c.src \in Member \cup {None}
    BY DEF Call
<1>2. vm' = [vm EXCEPT ![c.node] =
                 [i \in Id |-> IF i = c.id THEN "running"
                               ELSE IF i = c.src /\ vm[c.node][i] = "suspended" THEN "none"
                               ELSE vm[c.node][i]]]
    BY DEF Adopt
<1>3. [i \in Id |-> IF i = c.id THEN "running"
                     ELSE IF i = c.src /\ vm[c.node][i] = "suspended" THEN "none"
                     ELSE vm[c.node][i]] \in [Id -> {"none", "running", "suspended"}]
    BY <1>1 DEF NodeTypeOK
<1>4. from' = [from EXCEPT ![c.node][c.id] = c.src]
    BY DEF Adopt
<1>5. from' \in [Node -> [Sandbox -> Member \cup {None}]]
    BY <1>1, <1>4 DEF NodeTypeOK
<1>6. vm' \in [Node -> [Id -> {"none", "running", "suspended"}]]
    BY <1>1, <1>2, <1>3 DEF NodeTypeOK
<1>7. \A n \in Node, s \in Sandbox, m \in Member :
        from'[n][s] = m => from[n][s] = m \/ (c.id = s /\ c.src = m /\ c.node = n)
    <2>1. ASSUME NEW n \in Node, NEW s \in Sandbox
          PROVE  from'[n][s] = IF n = c.node /\ s = c.id THEN c.src ELSE from[n][s]
        BY <1>4, TwoLevels DEF NodeTypeOK
    <2> QED BY <2>1
<1> QED BY <1>5, <1>6, <1>7

\* The handlers keep the types of the node's state.
LEMMA HandlerTypes ==
    ASSUME NodeTypeOK, Handler
    PROVE  NodeTypeOK'
<1>1. PICK c \in calls :
        \/ AdmitCreate(c)
        \/ Boot(c)
        \/ AdmitResume(c)
        \/ ResumeDone(c)
        \/ Fails(c)
        \/ OpSuspend(c)
        \/ OpDestroy(c)
        \/ Timeout(c)
    BY DEF Handler
<1>2. /\ c \in Call /\ calls \subseteq Call
      /\ c.node \in Node /\ c.id \in Id /\ c.src \in Member \cup {None}
    BY DEF NodeTypeOK, Call
<1>3. vm' \in [Node -> [Id -> {"none", "running", "suspended"}]]
    <2>1. \A k \in {"none", "running", "suspended"} :
            [vm EXCEPT ![c.node][c.id] = k] \in [Node -> [Id -> {"none", "running", "suspended"}]]
        BY <1>2 DEF NodeTypeOK
    <2> QED BY <1>1, <1>2, <2>1, AdoptType DEF NodeTypeOK, AdmitCreate, Boot, AdmitResume,
        ResumeDone, Fails, OpSuspend, OpDestroy, Timeout, Become
<1>4. from' \in [Node -> [Sandbox -> Member \cup {None}]]
    <2>1. [from EXCEPT ![c.node][c.id] = None] \in [Node -> [Sandbox -> Member \cup {None}]]
        BY <1>2 DEF NodeTypeOK
    <2> QED BY <1>1, <1>2, <2>1, AdoptType DEF NodeTypeOK, AdmitCreate, Boot, AdmitResume,
        ResumeDone, Fails, OpSuspend, OpDestroy, Timeout
<1>5. used' \in [Node -> [Id -> 0 .. Size]]
    <2>1. \A k \in 0 .. Size :
            [used EXCEPT ![c.node][c.id] = k] \in [Node -> [Id -> 0 .. Size]]
        BY <1>2 DEF NodeTypeOK
    <2>2. \E k \in 0 .. Size : used' = used \/ used' = [used EXCEPT ![c.node][c.id] = k]
        BY <1>1, <1>2, HintType DEF AdmitCreate, Boot, AdmitResume,
            ResumeDone, Fails, OpSuspend, OpDestroy, Timeout, Reserve
    <2> QED BY <2>1, <2>2 DEF NodeTypeOK
<1>6. calls' \subseteq Call
    BY <1>1, <1>2, ReplyType DEF AdmitCreate, Boot, AdmitResume,
        ResumeDone, Fails, OpSuspend, OpDestroy, Timeout, Reply
<1>7. budget' \in 0 .. Budget
    BY <1>1, PoolNodeAssumption DEF NodeTypeOK, AdmitCreate, Boot, AdmitResume,
        ResumeDone, Fails, OpSuspend, OpDestroy, Timeout, Spend
<1> QED BY <1>3, <1>4, <1>5, <1>6, <1>7 DEF NodeTypeOK

\* The handlers make no requests, and a sandbox runs in what it ran in or was
\* asked to be restored from.
LEMMA HandlerTraces ==
    ASSUME NodeTypeOK, Handler
    PROVE  /\ \A d \in calls' : \E c \in calls :
                /\ d.id = c.id /\ d.node = c.node /\ d.kind = c.kind /\ d.src = c.src
                /\ d.heard => c.heard
           /\ \A n \in Node, s \in Sandbox, m \in Member :
                from'[n][s] = m =>
                    \/ from[n][s] = m
                    \/ \E c \in calls : c.id = s /\ c.src = m /\ c.node = n
<1>1. PICK c \in calls :
        \/ AdmitCreate(c)
        \/ Boot(c)
        \/ AdmitResume(c)
        \/ ResumeDone(c)
        \/ Fails(c)
        \/ OpSuspend(c)
        \/ OpDestroy(c)
        \/ Timeout(c)
    BY DEF Handler
<1>2. /\ c \in Call /\ calls \subseteq Call
      /\ c.node \in Node /\ c.id \in Id /\ c.src \in Member \cup {None}
    BY DEF NodeTypeOK, Call
<1>3. \A d \in calls' : 
        \/ d \in calls
        \/ d = [c EXCEPT !.heard = FALSE]
        \/ \E k \in {"begun", "ok", "full", "error"} : d = [c EXCEPT !.step = k]
    BY <1>1 DEF AdmitCreate, Boot, AdmitResume, ResumeDone, Fails, OpSuspend,
        OpDestroy, Timeout, Reply
<1>4. \A d \in calls' : \E b \in calls :
        /\ d.id = b.id /\ d.node = b.node /\ d.kind = b.kind /\ d.src = b.src
        /\ d.heard => b.heard
    BY <1>2, <1>3 DEF Call
<1>5. ASSUME NEW n \in Node, NEW s \in Sandbox, NEW m \in Member, from'[n][s] = m
      PROVE  from[n][s] = m \/ (c.id = s /\ c.src = m /\ c.node = n)
    <2>1. [from EXCEPT ![c.node][c.id] = None][n][s] \in {from[n][s], None}
        BY TwoLevels DEF NodeTypeOK
    <2>2. \/ Adopt(c)
          \/ from' = [from EXCEPT ![c.node][c.id] = None]
          \/ from' = from
        BY <1>1 DEF AdmitCreate, Boot, AdmitResume, ResumeDone, Fails, OpSuspend,
            OpDestroy, Timeout
    <2>3. CASE Adopt(c)
        BY <1>2, <1>5, <2>3, AdoptType
    <2>4. CASE from' = [from EXCEPT ![c.node][c.id] = None]
        BY <1>5, <2>1, <2>4, PoolNodeAssumption
    <2> QED BY <1>5, <2>2, <2>3, <2>4
<1> QED BY <1>4, <1>5

-----------------------------------------------------------------------------
(* Each step of a replica keeps the control state. *)

LEMMA ReplenishControl ==
    ASSUME Control, NEW w \in Worker, Replenish(w)
    PROVE  Control'
<1>1. UNCHANGED <<vm, from, used, calls, budget, lock, leads, item, rec, job, lost>>
    BY DEF Replenish, nodeVars, leaderVars
<1>2. refill' \in [Worker -> Refill]
    <2>1. Cardinality(Warm) \in Nat
        BY FS_Subset, FS_CardinalityType, PoolNodeAssumption DEF Warm
    <2>2. Filling("make", PoolSize - Cardinality(Warm), None, None, {}) \in Refill
        BY <2>1, WarmPoolAssumption DEF Replenish, Filling, Refill
    <2> QED BY <2>2 DEF Replenish, Control, TypeOK
<1>3. RefillInv'
    BY PoolNodeAssumption DEF Control, TypeOK, Replenish, Rest, Filling,
        RefillInv, Item, Refill
<1> QED BY <1>1, <1>2, <1>3 DEF Control, TypeOK, NodeTypeOK, ItemInv, JobInv,
    GivenInv, PlaceInv, OneGiven, Given

LEMMA MakeMemberControl ==
    ASSUME Control, NEW w \in Worker, MakeMember(w)
    PROVE  Control'
<1>1. UNCHANGED <<vm, from, used, budget, lock, leads, rec, job, lost>>
    BY DEF MakeMember, nodeVars, leaderVars
<1>2. item' \in [Member -> Item]
    BY DEF Control, TypeOK, MakeMember, Filling, Item
<1>3. refill' \in [Worker -> Refill]
    BY WarmPoolAssumption DEF Control, TypeOK, MakeMember, Filling, Refill
<1>4. calls' \subseteq Call
    <2>1. PICK n \in Node, m \in Member : calls' = calls \cup {Asked(m, n, "create", None)}
        BY DEF MakeMember
    <2> QED BY <2>1, AskedType DEF Control, TypeOK, NodeTypeOK, Id
<1>5. ItemInv'
    BY DEF Control, TypeOK, MakeMember, Filling, ItemInv, Item
<1>6. RefillInv'
    BY PoolNodeAssumption DEF Control, TypeOK, MakeMember, Filling, RefillInv,
        Item, Refill
<1>7. GivenInv'
    BY WarmPoolAssumption, PoolNodeAssumption DEF Control, TypeOK, MakeMember,
        Filling, GivenInv, Given, Item, Rec, Job, RefillInv
<1>8. PlaceInv'
    BY DEF Control, TypeOK, MakeMember, Filling, PlaceInv, JobInv, GivenInv,
        Given, Item, Rec, Job, RefillInv
<1> QED BY <1>1, <1>2, <1>3, <1>4, <1>5, <1>6, <1>7, <1>8 DEF Control, TypeOK,
    NodeTypeOK, JobInv, OneGiven, Given

LEMMA MemberRunsControl ==
    ASSUME Control, NEW w \in Worker, MemberRuns(w)
    PROVE  Control'
<1>1. UNCHANGED <<vm, from, used, budget, lock, leads, rec, job, lost>>
    BY DEF MemberRuns, nodeVars, leaderVars
<1>2. item' \in [Member -> Item]
    <2>1. refill[w].node \in Node \cup {None}
        BY DEF Control, TypeOK, Refill
    <2>2. [pool |-> "running", node |-> refill[w].node] \in Item
        BY <2>1 DEF Item
    <2> QED BY <2>2 DEF MemberRuns, Control, TypeOK
<1>3. refill' \in [Worker -> Refill]
    BY WarmPoolAssumption DEF Control, TypeOK, MemberRuns, Filling, Refill
<1>4. calls' \subseteq Call
    <2>1. refill[w].id \in Member /\ refill[w].node \in Node
        BY DEF MemberRuns, Control, TypeOK, RefillInv, Refill
    <2>2. Asked(refill[w].id, refill[w].node, "suspend", None) \in Call
        BY <2>1, AskedType DEF Id
    <2> QED BY <2>2 DEF MemberRuns, Control, TypeOK, NodeTypeOK
<1>5. ItemInv'
    <2>1. refill[w].node # None
        BY DEF MemberRuns, Control, RefillInv
    <2>2. item' = [item EXCEPT ![refill[w].id] = [pool |-> "running", node |-> refill[w].node]]
        BY DEF MemberRuns
    <2> QED BY <2>1, <2>2 DEF Control, TypeOK, ItemInv, Gone
<1>6. RefillInv'
    BY PoolNodeAssumption DEF Control, TypeOK, MemberRuns, Filling, RefillInv,
        Item, Refill
<1>7. GivenInv'
    BY WarmPoolAssumption, PoolNodeAssumption DEF Control, TypeOK, MemberRuns,
        Filling, GivenInv, Given, Item, Rec, Job, RefillInv
<1>8. PlaceInv'
    <2>1. item' = [item EXCEPT ![refill[w].id] = [pool |-> "running", node |-> refill[w].node]]
        BY DEF MemberRuns
    <2>2. refill[w].id \in Member /\ item[refill[w].id].pool = "drawn"
        BY DEF MemberRuns, Control, TypeOK, RefillInv, Refill
    <2>3. \A v \in Worker : job[v].pc = "resume" =>
            job[v].src \in Member /\ item[job[v].src].pool = "claimed"
        BY DEF Control, TypeOK, JobInv, Job, GivenInv, Given
    <2> QED BY <1>1, <2>1, <2>2, <2>3 DEF Control, TypeOK, PlaceInv
<1> QED BY <1>1, <1>2, <1>3, <1>4, <1>5, <1>6, <1>7, <1>8 DEF Control, TypeOK,
    NodeTypeOK, JobInv, OneGiven, Given

LEMMA MemberElsewhereControl ==
    ASSUME Control, NEW w \in Worker, MemberElsewhere(w)
    PROVE  Control'
<1>1. UNCHANGED <<vm, from, used, budget, lock, leads, item, rec, job, lost>>
    BY DEF MemberElsewhere, nodeVars, leaderVars
<1>2. refill' \in [Worker -> Refill]
    BY WarmPoolAssumption DEF Control, TypeOK, MemberElsewhere, Filling,
        Refill, RefillInv
<1>3. calls' \subseteq Call
    BY DEF Control, TypeOK, MemberElsewhere, Filling, Answer, NodeTypeOK
<1>4. RefillInv'
    BY PoolNodeAssumption DEF Control, TypeOK, MemberElsewhere, Filling,
        RefillInv, Item, Refill
<1> QED BY <1>1, <1>2, <1>3, <1>4 DEF Control, TypeOK, NodeTypeOK, ItemInv,
    JobInv, GivenInv, PlaceInv, OneGiven, Given

LEMMA MemberWarmControl ==
    ASSUME Control, NEW w \in Worker, MemberWarm(w)
    PROVE  Control'
<1>1. UNCHANGED <<vm, from, used, budget, lock, leads, rec, job, lost>>
    BY DEF MemberWarm, nodeVars, leaderVars
<1>2. item' \in [Member -> Item]
    BY DEF Control, TypeOK, MemberWarm, NextMember, Filling, Rest, Item
<1>3. refill' \in [Worker -> Refill]
    BY WarmPoolAssumption DEF Control, TypeOK, MemberWarm, NextMember,
        Filling, Rest, Refill
<1>4. calls' \subseteq Call
    BY DEF Control, TypeOK, MemberWarm, NextMember, Filling, Rest, Answer,
        NodeTypeOK
<1>5. ItemInv'
    <2>1. refill[w].id \in Member => item[refill[w].id].pool = "running"
        BY PoolNodeAssumption DEF MemberWarm, Control, RefillInv
    <2>2. item' = [item EXCEPT ![refill[w].id].pool = "warm"]
        BY DEF MemberWarm
    <2> QED BY <2>1, <2>2 DEF Control, TypeOK, ItemInv, Item, Gone
<1>6. RefillInv'
    BY PoolNodeAssumption DEF Control, TypeOK, MemberWarm, NextMember,
        Filling, Rest, RefillInv, Item, Refill
<1>7. GivenInv'
    BY WarmPoolAssumption, PoolNodeAssumption DEF Control, TypeOK, MemberWarm,
        NextMember, Filling, Rest, GivenInv, Given, Item, Rec, Job, RefillInv
<1>8. PlaceInv'
    BY DEF Control, TypeOK, MemberWarm, NextMember, Filling, Rest, PlaceInv,
        JobInv, GivenInv, Given, Item, Rec, Job, RefillInv
<1> QED BY <1>1, <1>2, <1>3, <1>4, <1>5, <1>6, <1>7, <1>8 DEF Control, TypeOK,
    NodeTypeOK, JobInv, OneGiven, Given

LEMMA MemberFailsControl ==
    ASSUME Control, NEW w \in Worker, MemberFails(w)
    PROVE  Control'
<1>1. UNCHANGED <<vm, from, used, budget, lock, leads, rec, job>>
    BY DEF MemberFails, nodeVars, leaderVars
<1>2. item' \in [Member -> Item]
    BY DEF Control, TypeOK, MemberFails, NextMember, Filling, Rest, Gone, Item
<1>3. refill' \in [Worker -> Refill]
    BY WarmPoolAssumption DEF Control, TypeOK, MemberFails, NextMember,
        Filling, Rest, Gone, Refill
<1>4. calls' \subseteq Call
    BY DEF Control, TypeOK, MemberFails, NextMember, Filling, Rest, Gone,
        Answer, NodeTypeOK
<1>5. lost' \subseteq Id
    <2>1. refill[w].id \in Member
        BY DEF MemberFails, Control, TypeOK, RefillInv, Refill
    <2> QED BY <2>1 DEF MemberFails, Control, TypeOK, Id
<1>6. ItemInv'
    BY DEF Control, TypeOK, MemberFails, NextMember, Filling, Rest, Gone,
        ItemInv, Item
<1>7. RefillInv'
    BY PoolNodeAssumption DEF Control, TypeOK, MemberFails, NextMember,
        Filling, Rest, Gone, RefillInv, Item, Refill
<1>8. GivenInv'
    BY WarmPoolAssumption, PoolNodeAssumption DEF Control, TypeOK,
        MemberFails, NextMember, Filling, Rest, Gone, GivenInv, Given, Item,
        Rec, Job, RefillInv
<1>9. PlaceInv'
    BY DEF Control, TypeOK, MemberFails, NextMember, Filling, Rest, Gone,
        PlaceInv, JobInv, GivenInv, Given, Item, Rec, Job, RefillInv
<1> QED BY <1>1, <1>2, <1>3, <1>4, <1>5, <1>6, <1>7, <1>8, <1>9 DEF Control,
    TypeOK, NodeTypeOK, JobInv, OneGiven, Given

LEMMA ClaimAgainControl ==
    ASSUME Control, NEW w \in Worker, ClaimAgain(w)
    PROVE  Control'
<1>1. UNCHANGED <<vm, from, used, calls, budget, lock, leads, item, rec, refill, lost>>
    BY DEF ClaimAgain, nodeVars, leaderVars
<1>2. job' \in [Worker -> Job]
    BY DEF Control, TypeOK, ClaimAgain, Working, Job, JobInv, Rec
<1>3. JobInv'
    BY WarmPoolAssumption DEF Control, TypeOK, ClaimAgain, Working, JobInv,
        Job
<1>4. GivenInv'
    BY WarmPoolAssumption, PoolNodeAssumption DEF Control, TypeOK, ClaimAgain,
        Working, GivenInv, Given, Item, Rec, Job
<1>5. PlaceInv'
    BY DEF Control, TypeOK, ClaimAgain, Working, PlaceInv, JobInv, GivenInv,
        Given, Item, Rec, Job, Rec
<1>6. OneGiven'
    BY WarmPoolAssumption, PoolNodeAssumption DEF Control, TypeOK, ClaimAgain,
        Working, OneGiven, Given, Rec, Job
<1> QED BY <1>1, <1>2, <1>3, <1>4, <1>5, <1>6 DEF Control, TypeOK, NodeTypeOK,
    ItemInv, RefillInv

LEMMA ClaimMemberControl ==
    ASSUME Control, NEW w \in Worker, ClaimMember(w)
    PROVE  Control'
<1>1. UNCHANGED <<vm, from, used, calls, budget, lock, leads, rec, refill, lost>>
    BY DEF ClaimMember, nodeVars, leaderVars
<1>2. item' \in [Member -> Item]
    BY DEF Control, TypeOK, ClaimMember, CanClaim, Working, Item
<1>3. job' \in [Worker -> Job]
    BY DEF Control, TypeOK, ClaimMember, CanClaim, Working, Job
<1>4. ItemInv'
    BY DEF Control, TypeOK, ClaimMember, CanClaim, Working, ItemInv, Item
<1>5. RefillInv'
    BY PoolNodeAssumption DEF Control, TypeOK, ClaimMember, CanClaim, Working,
        RefillInv, Item, Refill
<1>6. JobInv'
    <2>1. PICK m \in Member : job' = [job EXCEPT ![w] = Working("journal", job[w].sb, m, {})]
        BY DEF ClaimMember
    <2>2. job[w].pc = "claim" /\ m # None
        BY PoolNodeAssumption DEF ClaimMember
    <2> QED BY <2>1, <2>2 DEF Control, TypeOK, JobInv, Job, Working
<1>7. GivenInv'
    BY WarmPoolAssumption, PoolNodeAssumption DEF Control, TypeOK,
        ClaimMember, CanClaim, Working, GivenInv, Given, Item, Rec, Job
<1>8. PlaceInv'
    BY DEF Control, TypeOK, ClaimMember, CanClaim, Working, PlaceInv, JobInv,
        GivenInv, Given, Item, Rec, Job
<1>9. OneGiven'
    <2>1. PICK m \in Member :
            /\ item[m].pool = "warm"
            /\ job' = [job EXCEPT ![w] = Working("journal", job[w].sb, m, {})]
        BY DEF ClaimMember, CanClaim
    <2>2. \A s \in Sandbox : ~Given(s, m)
        BY <2>1 DEF Control, GivenInv
    <2>3. \A s \in Sandbox, k \in Member \ {m} : Given(s, k)' => Given(s, k)
        BY <1>1, <2>1 DEF Control, TypeOK, Given, Job, Working
    <2>4. \A s \in Sandbox : Given(s, m)' => s = job[w].sb
        BY <1>1, <2>1, <2>2 DEF Control, TypeOK, Given, Job, Working
    <2> QED BY <2>3, <2>4 DEF Control, OneGiven
<1> QED BY <1>1, <1>2, <1>3, <1>4, <1>5, <1>6, <1>7, <1>8, <1>9 DEF Control,
    TypeOK, NodeTypeOK

LEMMA ClaimJournalControl ==
    ASSUME Control, NEW w \in Worker, ClaimJournal(w)
    PROVE  Control'
<1>0. /\ job[w].sb \in Sandbox /\ job[w].src \in Member /\ job[w].pc = "journal"
      /\ item[job[w].src].pool = "claimed" /\ item[job[w].src].node \in Node
      /\ item[job[w].src] # Gone
    BY DEF ClaimJournal, Control, TypeOK, JobInv, Job, GivenInv, Given, ItemInv, Item, Gone
<1>a. /\ rec' = [rec EXCEPT ![job[w].sb] =
                    Entry(rec[job[w].sb].state, item[job[w].src].node, job[w].src)]
      /\ job' = [job EXCEPT ![w].pc = "resume"]
      /\ calls' = calls \cup {Asked(job[w].sb, item[job[w].src].node, "resume", job[w].src)}
      /\ lost' \in {lost, lost \cup {job[w].sb}}
    BY <1>0 DEF ClaimJournal, Journal, Goto
<1>1. UNCHANGED <<vm, from, used, budget, lock, leads, item, refill>>
    BY DEF ClaimJournal, nodeVars, leaderVars
<1>2. rec' \in [Sandbox -> Rec]
    BY <1>0, <1>a DEF Control, TypeOK, Rec, Entry
<1>3. job' \in [Worker -> Job]
    BY <1>a DEF Control, TypeOK, Job
<1>4. calls' \subseteq Call
    BY <1>0, <1>a, AskedType DEF Control, TypeOK, NodeTypeOK, Id
<1>5. lost' \subseteq Id
    BY <1>0, <1>a DEF Control, TypeOK, Id
<1>6. JobInv'
    BY <1>0, <1>a DEF Control, TypeOK, JobInv, Job
<1>7. GivenInv'
    <2>1. \A s \in Sandbox, m \in Member : Given(s, m)' => Given(s, m)
        BY <1>0, <1>a DEF Control, TypeOK, Given, Job, Rec, Entry
    <2> QED BY <1>1, <2>1 DEF Control, GivenInv
<1>8. PlaceInv'
    BY <1>0, <1>1, <1>a DEF Control, TypeOK, PlaceInv, JobInv, Job, Rec, Entry
<1>9. OneGiven'
    <2>1. \A s \in Sandbox, m \in Member : Given(s, m)' => Given(s, m)
        BY <1>0, <1>a DEF Control, TypeOK, Given, Job, Rec, Entry
    <2> QED BY <2>1 DEF Control, OneGiven
<1> QED BY <1>1, <1>2, <1>3, <1>4, <1>5, <1>6, <1>7, <1>8, <1>9 DEF Control,
    TypeOK, NodeTypeOK, ItemInv, RefillInv

LEMMA ClaimRetriesControl ==
    ASSUME Control, NEW w \in Worker, ClaimRetries(w)
    PROVE  Control'
<1>1. UNCHANGED <<vm, from, used, budget, lock, leads, item, rec, refill, lost>>
    BY DEF ClaimRetries, nodeVars, leaderVars
<1>2. job' \in [Worker -> Job]
    BY DEF Control, TypeOK, ClaimRetries, Runs, Job
<1>3. calls' \subseteq Call
    <2>1. job[w].sb \in Sandbox /\ job[w].src \in Member \cup {None}
        BY DEF ClaimRetries, Control, TypeOK, JobInv, Job
    <2>2. rec[job[w].sb].node \in Node
        BY <2>1 DEF ClaimRetries, Runs, Control, TypeOK, Rec
    <2>3. Asked(job[w].sb, rec[job[w].sb].node, "resume", job[w].src) \in Call
        BY <2>1, <2>2, AskedType DEF Id
    <2> QED BY <2>3 DEF ClaimRetries, Control, TypeOK, NodeTypeOK
<1>4. JobInv'
    BY WarmPoolAssumption DEF Control, TypeOK, ClaimRetries, Runs, JobInv, Job
<1>5. GivenInv'
    BY WarmPoolAssumption, PoolNodeAssumption DEF Control, TypeOK,
        ClaimRetries, Runs, GivenInv, Given, Item, Rec, Job
<1>6. PlaceInv'
    BY DEF Control, TypeOK, ClaimRetries, Runs, PlaceInv, JobInv, GivenInv,
        Given, Item, Rec, Job
<1>7. OneGiven'
    BY WarmPoolAssumption, PoolNodeAssumption DEF Control, TypeOK,
        ClaimRetries, Runs, OneGiven, Given, Rec, Job
<1> QED BY <1>1, <1>2, <1>3, <1>4, <1>5, <1>6, <1>7 DEF Control, TypeOK,
    NodeTypeOK, ItemInv, RefillInv

LEMMA ClaimClearControl ==
    ASSUME Control, NEW w \in Worker, ClaimClear(w)
    PROVE  Control'
<1>0. /\ job[w].sb \in Sandbox /\ job[w].src \in Member /\ job[w].pc = "resume"
      /\ item[job[w].src].pool = "claimed" /\ Given(job[w].sb, job[w].src)
    BY DEF ClaimClear, Control, TypeOK, JobInv, Job, GivenInv, Given
<1>a. /\ \A s \in Sandbox \ {job[w].sb} : rec'[s] = rec[s]
      /\ rec'[job[w].sb].src = None
      /\ \A v \in Worker \ {w} : job'[v] = job[v]
      /\ job'[w].src = None /\ job'[w].pc \in {"idle", "place"}
      /\ item' = [item EXCEPT ![job[w].src] = Gone]
    BY <1>0 DEF ClaimClear, NoMember, Working, Entry, Gone, Control, TypeOK
<1>1. UNCHANGED <<vm, from, used, lock, leads, refill>>
    BY DEF ClaimClear, nodeVars, leaderVars
<1>2. rec' \in [Sandbox -> Rec]
    BY DEF Control, TypeOK, ClaimClear, NoMember, Working, Entry, Gone, Rec
<1>3. item' \in [Member -> Item]
    BY DEF Control, TypeOK, ClaimClear, NoMember, Working, Entry, Gone, Item
<1>4. job' \in [Worker -> Job]
    BY DEF Control, TypeOK, ClaimClear, NoMember, Working, Entry, Gone, Job
<1>5. calls' \subseteq Call
    BY DEF Control, TypeOK, ClaimClear, NoMember, Working, Entry, Gone,
        Answer, NodeTypeOK
<1>6. lost' \subseteq Id
    BY DEF Control, TypeOK, ClaimClear, NoMember, Working, Entry, Gone, Id,
        JobInv, Job
<1>7. budget' \in 0 .. Budget
    BY PoolNodeAssumption DEF Control, TypeOK, ClaimClear, NoMember, Working,
        Entry, Gone, Spend, NodeTypeOK
<1>8. ItemInv'
    BY DEF Control, TypeOK, ClaimClear, NoMember, Working, Entry, Gone,
        ItemInv, Item
<1>9. RefillInv'
    BY <1>0, <1>1 DEF Control, TypeOK, RefillInv, Refill, ClaimClear, Item
<1>10. JobInv'
    BY WarmPoolAssumption DEF Control, TypeOK, ClaimClear, NoMember, Working,
        Entry, Gone, JobInv, Job
<1>11. GivenInv'
    <2>1. ASSUME NEW s \in Sandbox, NEW m \in Member, Given(s, m)'
          PROVE  Given(s, m) /\ m # job[w].src
        <3>1. s # job[w].sb
            BY <1>0, <1>a, <2>1, PoolNodeAssumption, WarmPoolAssumption
            DEF Control, JobInv, Given
        <3>2. Given(s, m)
            BY <1>a, <2>1, <3>1, PoolNodeAssumption DEF Given
        <3> QED BY <1>0, <3>1, <3>2 DEF Control, OneGiven
    <2> QED BY <1>0, <1>a, <2>1 DEF Control, TypeOK, GivenInv
<1>12. PlaceInv'
    <2>1. \A v \in Worker \ {w} : job[v].pc \in {"boot", "resume"} =>
            job[v].sb \in Sandbox /\ job[v].sb # job[w].sb
        BY <1>0, WarmPoolAssumption DEF Control, TypeOK, JobInv, Job
    <2>2. \A v \in Worker \ {w} : job[v].pc = "resume" =>
            job[v].src \in Member /\ Given(job[v].sb, job[v].src)
        BY <2>1 DEF Control, TypeOK, JobInv, Job, Given
    <2>3. \A v \in Worker \ {w} : job[v].pc = "resume" => job[v].src # job[w].src
        BY <1>0, <2>1, <2>2 DEF Control, OneGiven
    <2> QED BY <1>0, <1>a, <2>1, <2>2, <2>3 DEF Control, TypeOK, PlaceInv
<1>13. OneGiven'
    BY WarmPoolAssumption, PoolNodeAssumption DEF Control, TypeOK, ClaimClear,
        NoMember, Working, Entry, Gone, OneGiven, Given, Rec, Job
<1> QED BY <1>1, <1>2, <1>3, <1>4, <1>5, <1>6, <1>7, <1>8, <1>9, <1>10, <1>11,
    <1>12, <1>13 DEF Control, TypeOK, NodeTypeOK

LEMMA ClaimFinishControl ==
    ASSUME Control, NEW w \in Worker, ClaimFinish(w)
    PROVE  Control'
<1>0. /\ job[w].sb \in Sandbox /\ job[w].src \in Member /\ job[w].pc = "resume"
      /\ item[job[w].src].pool = "claimed" /\ Given(job[w].sb, job[w].src)
    BY DEF ClaimFinish, Control, TypeOK, JobInv, Job, GivenInv, Given
<1>a. /\ \A s \in Sandbox \ {job[w].sb} : rec'[s] = rec[s]
      /\ rec'[job[w].sb].src = None
      /\ \A v \in Worker \ {w} : job'[v] = job[v]
      /\ job'[w].src = None /\ job'[w].pc \in {"idle", "place"}
      /\ item' = [item EXCEPT ![job[w].src] = Gone]
    BY <1>0 DEF ClaimFinish, Finish, Free, Working, Entry, Gone, Control, TypeOK
<1>1. UNCHANGED <<vm, from, used, budget, lock, leads, refill, lost>>
    BY DEF ClaimFinish, nodeVars, leaderVars
<1>2. rec' \in [Sandbox -> Rec]
    BY DEF Control, TypeOK, ClaimFinish, Finish, Free, Working, Entry, Gone,
        Rec
<1>3. item' \in [Member -> Item]
    BY DEF Control, TypeOK, ClaimFinish, Finish, Free, Working, Entry, Gone,
        Item
<1>4. job' \in [Worker -> Job]
    BY DEF Control, TypeOK, ClaimFinish, Finish, Free, Working, Entry, Gone,
        Job
<1>5. calls' \subseteq Call
    BY DEF Control, TypeOK, ClaimFinish, Finish, Free, Working, Entry, Gone,
        Answer, NodeTypeOK
<1>6. ItemInv'
    BY DEF Control, TypeOK, ClaimFinish, Finish, Free, Working, Entry, Gone,
        ItemInv, Item
<1>7. RefillInv'
    BY <1>0, <1>1 DEF Control, TypeOK, RefillInv, Refill, ClaimFinish, Item
<1>8. JobInv'
    BY WarmPoolAssumption DEF Control, TypeOK, ClaimFinish, Finish, Free,
        Working, Entry, Gone, JobInv, Job
<1>9. GivenInv'
    <2>1. ASSUME NEW s \in Sandbox, NEW m \in Member, Given(s, m)'
          PROVE  Given(s, m) /\ m # job[w].src
        <3>1. s # job[w].sb
            BY <1>0, <1>a, <2>1, PoolNodeAssumption, WarmPoolAssumption
            DEF Control, JobInv, Given
        <3>2. Given(s, m)
            BY <1>a, <2>1, <3>1, PoolNodeAssumption DEF Given
        <3> QED BY <1>0, <3>1, <3>2 DEF Control, OneGiven
    <2> QED BY <1>0, <1>a, <2>1 DEF Control, TypeOK, GivenInv
<1>10. PlaceInv'
    <2>1. \A v \in Worker \ {w} : job[v].pc \in {"boot", "resume"} =>
            job[v].sb \in Sandbox /\ job[v].sb # job[w].sb
        BY <1>0, WarmPoolAssumption DEF Control, TypeOK, JobInv, Job
    <2>2. \A v \in Worker \ {w} : job[v].pc = "resume" =>
            job[v].src \in Member /\ Given(job[v].sb, job[v].src)
        BY <2>1 DEF Control, TypeOK, JobInv, Job, Given
    <2>3. \A v \in Worker \ {w} : job[v].pc = "resume" => job[v].src # job[w].src
        BY <1>0, <2>1, <2>2 DEF Control, OneGiven
    <2> QED BY <1>0, <1>a, <2>1, <2>2, <2>3 DEF Control, TypeOK, PlaceInv
<1>11. OneGiven'
    BY WarmPoolAssumption, PoolNodeAssumption DEF Control, TypeOK,
        ClaimFinish, Finish, Free, Working, Entry, Gone, OneGiven, Given, Rec,
        Job
<1> QED BY <1>1, <1>2, <1>3, <1>4, <1>5, <1>6, <1>7, <1>8, <1>9, <1>10, <1>11
    DEF Control, TypeOK, NodeTypeOK

LEMMA PlaceControl ==
    ASSUME Control, NEW w \in Worker, Place(w)
    PROVE  Control'
<1>0. /\ job[w].sb \in Sandbox /\ job[w].src = None
    BY DEF Place, NoClaim, Control, TypeOK, JobInv, Job
<1>a. PICK n \in Node :
        \/ /\ rec' = [rec EXCEPT ![job[w].sb].state = "running"]
           /\ job' = [job EXCEPT ![w] = Free]
           /\ calls' = calls
        \/ /\ rec' = [rec EXCEPT ![job[w].sb].node = n]
           /\ job' = [job EXCEPT ![w].pc = "boot"]
           /\ calls' = calls \cup {Asked(job[w].sb, n, "create", None)}
    <2>1. rec[job[w].sb].node \in Node \cup {None}
        BY <1>0 DEF Control, TypeOK, Rec
    <2> QED BY <1>0, <2>1 DEF Place, Finish, Goto, Runs
<1>1. UNCHANGED <<vm, from, used, budget, lock, leads, item, refill, lost>>
    BY DEF Place, nodeVars, leaderVars
<1>2. rec' \in [Sandbox -> Rec]
    BY <1>0, <1>a DEF Control, TypeOK, Rec
<1>3. job' \in [Worker -> Job]
    <2>1. Free \in Job
        BY DEF Free, Working, Job
    <2> QED BY <1>a, <2>1 DEF Control, TypeOK, Job
<1>4. calls' \subseteq Call
    BY <1>0, <1>a, AskedType DEF Control, TypeOK, NodeTypeOK, Id
<1>b. \A s \in Sandbox, m \in Member : Given(s, m)' => Given(s, m)
    <2>1. \A s \in Sandbox : rec'[s].src = rec[s].src
        BY <1>0, <1>a DEF Control, TypeOK, Rec
    <2>2. \A v \in Worker :
             job'[v].src # None => job'[v].sb = job[v].sb /\ job'[v].src = job[v].src
        BY <1>0, <1>a DEF Control, TypeOK, Job, Free, Working
    <2>3. \A m \in Member : m # None
        BY PoolNodeAssumption
    <2> QED BY <2>1, <2>2, <2>3 DEF Given
<1>5. JobInv'
    BY <1>0, <1>a, PoolNodeAssumption, WarmPoolAssumption
    DEF Control, TypeOK, JobInv, Job, Free, Working
<1>6. GivenInv'
    BY <1>1, <1>b DEF Control, GivenInv
<1>7. PlaceInv'
    BY <1>0, <1>1, <1>a, PoolNodeAssumption
    DEF Control, TypeOK, PlaceInv, JobInv, Job, Rec, Free, Working
<1>8. OneGiven'
    BY <1>b DEF Control, OneGiven
<1> QED BY <1>1, <1>2, <1>3, <1>4, <1>5, <1>6, <1>7, <1>8 DEF Control, TypeOK,
    NodeTypeOK, ItemInv, RefillInv

LEMMA BootedControl ==
    ASSUME Control, NEW w \in Worker, Booted(w)
    PROVE  Control'
<1>1. UNCHANGED <<vm, from, used, budget, lock, leads, item, refill, lost>>
    BY DEF Booted, nodeVars, leaderVars
<1>2. rec' \in [Sandbox -> Rec]
    BY DEF Control, TypeOK, Booted, Finish, Free, Working, Rec
<1>3. job' \in [Worker -> Job]
    BY DEF Control, TypeOK, Booted, Finish, Free, Working, Job
<1>4. calls' \subseteq Call
    BY DEF Control, TypeOK, Booted, Finish, Free, Working, Answer, NodeTypeOK
<1>5. JobInv'
    BY WarmPoolAssumption DEF Control, TypeOK, Booted, Finish, Free, Working,
        JobInv, Job
<1>6. GivenInv'
    BY WarmPoolAssumption, PoolNodeAssumption DEF Control, TypeOK, Booted,
        Finish, Free, Working, GivenInv, Given, Item, Rec, Job
<1>7. PlaceInv'
    BY DEF Control, TypeOK, Booted, Finish, Free, Working, PlaceInv, JobInv,
        GivenInv, Given, Item, Rec, Job, Rec
<1>8. OneGiven'
    BY WarmPoolAssumption, PoolNodeAssumption DEF Control, TypeOK, Booted,
        Finish, Free, Working, OneGiven, Given, Rec, Job
<1> QED BY <1>1, <1>2, <1>3, <1>4, <1>5, <1>6, <1>7, <1>8 DEF Control, TypeOK,
    NodeTypeOK, ItemInv, RefillInv

LEMMA ElsewhereControl ==
    ASSUME Control, NEW w \in Worker, Elsewhere(w)
    PROVE  Control'
<1>1. UNCHANGED <<vm, from, used, budget, lock, leads, item, rec, refill, lost>>
    BY DEF Elsewhere, nodeVars, leaderVars
<1>2. job' \in [Worker -> Job]
    <2>1. job[w].sb \in Sandbox
        BY DEF Elsewhere, Control, TypeOK, JobInv, Job
    <2>2. rec[job[w].sb].node \in Node
        BY <2>1 DEF Elsewhere, Control, TypeOK, PlaceInv, Rec
    <2> QED BY <2>1, <2>2 DEF Elsewhere, Control, TypeOK, Job, Working
<1>3. calls' \subseteq Call
    BY DEF Control, TypeOK, Elsewhere, Working, Answer, NodeTypeOK
<1>4. JobInv'
    BY WarmPoolAssumption DEF Control, TypeOK, Elsewhere, Working, JobInv, Job
<1>5. GivenInv'
    BY WarmPoolAssumption, PoolNodeAssumption DEF Control, TypeOK, Elsewhere,
        Working, GivenInv, Given, Item, Rec, Job
<1>6. PlaceInv'
    BY DEF Control, TypeOK, Elsewhere, Working, PlaceInv, JobInv, GivenInv,
        Given, Item, Rec, Job, Rec
<1>7. OneGiven'
    BY WarmPoolAssumption, PoolNodeAssumption DEF Control, TypeOK, Elsewhere,
        Working, OneGiven, Given, Rec, Job
<1> QED BY <1>1, <1>2, <1>3, <1>4, <1>5, <1>6, <1>7 DEF Control, TypeOK,
    NodeTypeOK, ItemInv, RefillInv

LEMMA BootFailsControl ==
    ASSUME Control, NEW w \in Worker, BootFails(w)
    PROVE  Control'
<1>1. UNCHANGED <<vm, from, used, budget, lock, leads, item, refill, lost>>
    BY DEF BootFails, nodeVars, leaderVars
<1>2. rec' \in [Sandbox -> Rec]
    <2>1. rec' = [rec EXCEPT ![job[w].sb].state = "failed"]
        BY DEF BootFails
    <2> QED BY <2>1 DEF Control, TypeOK, Rec
<1>3. job' \in [Worker -> Job]
    BY DEF Control, TypeOK, BootFails, Finish, Free, Working, Job
<1>4. calls' \subseteq Call
    BY DEF Control, TypeOK, BootFails, Finish, Free, Working, Answer,
        NodeTypeOK
<1>5. JobInv'
    BY WarmPoolAssumption DEF Control, TypeOK, BootFails, Finish, Free,
        Working, JobInv, Job
<1>6. GivenInv'
    BY WarmPoolAssumption, PoolNodeAssumption DEF Control, TypeOK, BootFails,
        Finish, Free, Working, GivenInv, Given, Item, Rec, Job
<1>7. PlaceInv'
    BY DEF Control, TypeOK, BootFails, Finish, Free, Working, PlaceInv,
        JobInv, GivenInv, Given, Item, Rec, Job, Rec
<1>8. OneGiven'
    BY WarmPoolAssumption, PoolNodeAssumption DEF Control, TypeOK, BootFails,
        Finish, Free, Working, OneGiven, Given, Rec, Job
<1> QED BY <1>1, <1>2, <1>3, <1>4, <1>5, <1>6, <1>7, <1>8 DEF Control, TypeOK,
    NodeTypeOK, ItemInv, RefillInv

LEMMA DestroyedControl ==
    ASSUME Control, NEW w \in Worker, Destroyed(w)
    PROVE  Control'
<1>1. UNCHANGED <<vm, from, used, budget, lock, leads, item, refill, lost>>
    BY DEF Destroyed, nodeVars, leaderVars
<1>2. rec' \in [Sandbox -> Rec]
    BY DEF Control, TypeOK, Destroyed, Finish, Free, Working, Entry, Rec
<1>3. job' \in [Worker -> Job]
    BY DEF Control, TypeOK, Destroyed, Finish, Free, Working, Entry, Job
<1>4. calls' \subseteq Call
    BY DEF Control, TypeOK, Destroyed, Finish, Free, Working, Entry, Answer,
        NodeTypeOK
<1>5. JobInv'
    BY WarmPoolAssumption DEF Control, TypeOK, Destroyed, Finish, Free,
        Working, Entry, JobInv, Job
<1>6. GivenInv'
    BY WarmPoolAssumption, PoolNodeAssumption DEF Control, TypeOK, Destroyed,
        Finish, Free, Working, Entry, GivenInv, Given, Item, Rec, Job
<1>7. PlaceInv'
    BY DEF Control, TypeOK, Destroyed, Finish, Free, Working, Entry, PlaceInv,
        JobInv, GivenInv, Given, Item, Rec, Job, Rec
<1>8. OneGiven'
    BY WarmPoolAssumption, PoolNodeAssumption DEF Control, TypeOK, Destroyed,
        Finish, Free, Working, Entry, OneGiven, Given, Rec, Job
<1> QED BY <1>1, <1>2, <1>3, <1>4, <1>5, <1>6, <1>7, <1>8 DEF Control, TypeOK,
    NodeTypeOK, ItemInv, RefillInv

LEMMA DestroyFailsControl ==
    ASSUME Control, NEW w \in Worker, DestroyFails(w)
    PROVE  Control'
<1>1. UNCHANGED <<vm, from, used, budget, lock, leads, item, rec, refill, lost>>
    BY DEF DestroyFails, nodeVars, leaderVars
<1>2. job' \in [Worker -> Job]
    BY DEF Control, TypeOK, DestroyFails, Finish, Free, Working, Job
<1>3. calls' \subseteq Call
    BY DEF Control, TypeOK, DestroyFails, Finish, Free, Working, Answer,
        NodeTypeOK
<1>4. JobInv'
    BY WarmPoolAssumption DEF Control, TypeOK, DestroyFails, Finish, Free,
        Working, JobInv, Job
<1>5. GivenInv'
    BY WarmPoolAssumption, PoolNodeAssumption DEF Control, TypeOK,
        DestroyFails, Finish, Free, Working, GivenInv, Given, Item, Rec, Job
<1>6. PlaceInv'
    BY DEF Control, TypeOK, DestroyFails, Finish, Free, Working, PlaceInv,
        JobInv, GivenInv, Given, Item, Rec, Job, Rec
<1>7. OneGiven'
    BY WarmPoolAssumption, PoolNodeAssumption DEF Control, TypeOK,
        DestroyFails, Finish, Free, Working, OneGiven, Given, Rec, Job
<1> QED BY <1>1, <1>2, <1>3, <1>4, <1>5, <1>6, <1>7 DEF Control, TypeOK,
    NodeTypeOK, ItemInv, RefillInv

LEMMA CrashControl ==
    ASSUME Control, NEW w \in Worker, Crash(w)
    PROVE  Control'
<1>1. UNCHANGED <<vm, from, used, lock, item, rec>>
    BY DEF Crash, nodeVars, leaderVars
<1>2. job' \in [Worker -> Job]
    BY DEF Control, TypeOK, Crash, Free, Working, Rest, Filling, Job
<1>3. refill' \in [Worker -> Refill]
    BY WarmPoolAssumption DEF Control, TypeOK, Crash, Free, Working, Rest,
        Filling, Refill
<1>4. calls' \subseteq Call
    <2>1. \A c \in Call : [c EXCEPT !.heard = FALSE] \in Call
        BY DEF Call
    <2> QED BY <2>1 DEF Crash, Control, TypeOK, NodeTypeOK
<1>5. lost' \subseteq Id
    BY DEF Control, TypeOK, Crash, Free, Working, Rest, Filling, Id,
        RefillInv, Refill
<1>6. leads' \subseteq Worker
    BY DEF Control, TypeOK, Crash, Free, Working, Rest, Filling
<1>7. budget' \in 0 .. Budget
    BY PoolNodeAssumption DEF Control, TypeOK, Crash, Free, Working, Rest,
        Filling, Spend, NodeTypeOK
<1>8. RefillInv'
    BY PoolNodeAssumption DEF Control, TypeOK, Crash, Free, Working, Rest,
        Filling, RefillInv, Item, Refill
<1>9. JobInv'
    BY WarmPoolAssumption DEF Control, TypeOK, Crash, Free, Working, Rest,
        Filling, JobInv, Job
<1>10. GivenInv'
    BY WarmPoolAssumption, PoolNodeAssumption DEF Control, TypeOK, Crash,
        Free, Working, Rest, Filling, GivenInv, Given, Item, Rec, Job
<1>11. PlaceInv'
    BY DEF Control, TypeOK, Crash, Free, Working, Rest, Filling, PlaceInv,
        JobInv, GivenInv, Given, Item, Rec, Job
<1>12. OneGiven'
    BY WarmPoolAssumption, PoolNodeAssumption DEF Control, TypeOK, Crash,
        Free, Working, Rest, Filling, OneGiven, Given, Rec, Job
<1> QED BY <1>1, <1>2, <1>3, <1>4, <1>5, <1>6, <1>7, <1>8, <1>9, <1>10, <1>11,
    <1>12 DEF Control, TypeOK, NodeTypeOK, ItemInv

LEMMA CreateControl ==
    ASSUME Control, NEW w \in Worker, NEW s \in Sandbox, Create(w, s)
    PROVE  Control'
<1>1. UNCHANGED <<vm, from, used, calls, lock, leads, item, refill, lost>>
    BY DEF Create, nodeVars, leaderVars, Begins
<1>2. rec' \in [Sandbox -> Rec]
    BY DEF Control, TypeOK, Create, Begins, Free, Working, Rec
<1>3. job' \in [Worker -> Job]
    BY DEF Control, TypeOK, Create, Begins, Free, Working, Job
<1>4. budget' \in 0 .. Budget
    BY PoolNodeAssumption DEF Control, TypeOK, Create, Begins, Free, Working,
        Spend, NodeTypeOK
<1>5. JobInv'
    BY WarmPoolAssumption DEF Control, TypeOK, Create, Begins, Free, Working,
        JobInv, Job
<1>6. GivenInv'
    BY WarmPoolAssumption, PoolNodeAssumption DEF Control, TypeOK, Create,
        Begins, Free, Working, GivenInv, Given, Item, Rec, Job
<1>7. PlaceInv'
    BY DEF Control, TypeOK, Create, Begins, Free, Working, PlaceInv, JobInv,
        GivenInv, Given, Item, Rec, Job
<1>8. OneGiven'
    BY WarmPoolAssumption, PoolNodeAssumption DEF Control, TypeOK, Create,
        Begins, Free, Working, OneGiven, Given, Rec, Job
<1> QED BY <1>1, <1>2, <1>3, <1>4, <1>5, <1>6, <1>7, <1>8 DEF Control, TypeOK,
    NodeTypeOK, ItemInv, RefillInv

LEMMA DeleteControl ==
    ASSUME Control, NEW w \in Worker, NEW s \in Sandbox, Delete(w, s)
    PROVE  Control'
<1>1. UNCHANGED <<vm, from, used, budget, lock, leads, item, refill, lost>>
    BY DEF Delete, nodeVars, leaderVars, Begins
<1>2. rec' \in [Sandbox -> Rec]
    BY DEF Control, TypeOK, Delete, Begins, Free, Working, Rec
<1>3. job' \in [Worker -> Job]
    BY DEF Control, TypeOK, Delete, Begins, Free, Working, Job
<1>4. calls' \subseteq Call
    <2>1. Asked(s, rec[s].node, "destroy", None) \in Call
        BY AskedType DEF Delete, Control, TypeOK, Rec, Id
    <2> QED BY <2>1 DEF Delete, Control, TypeOK, NodeTypeOK
<1>5. JobInv'
    BY WarmPoolAssumption DEF Control, TypeOK, Delete, Begins, Free, Working,
        JobInv, Job
<1>6. GivenInv'
    BY WarmPoolAssumption, PoolNodeAssumption DEF Control, TypeOK, Delete,
        Begins, Free, Working, GivenInv, Given, Item, Rec, Job
<1>7. PlaceInv'
    BY DEF Control, TypeOK, Delete, Begins, Free, Working, PlaceInv, JobInv,
        GivenInv, Given, Item, Rec, Job
<1>8. OneGiven'
    BY WarmPoolAssumption, PoolNodeAssumption DEF Control, TypeOK, Delete,
        Begins, Free, Working, OneGiven, Given, Rec, Job
<1> QED BY <1>1, <1>2, <1>3, <1>4, <1>5, <1>6, <1>7, <1>8 DEF Control, TypeOK,
    NodeTypeOK, ItemInv, RefillInv

LEMMA DeleteUnplacedControl ==
    ASSUME Control, NEW s \in Sandbox, DeleteUnplaced(s)
    PROVE  Control'
<1>1. UNCHANGED <<vm, from, used, calls, budget, lock, leads, item, job, refill, lost>>
    BY DEF DeleteUnplaced, nodeVars, leaderVars
<1>2. rec' \in [Sandbox -> Rec]
    BY DEF Control, TypeOK, DeleteUnplaced, Entry, Rec
<1>3. GivenInv'
    BY WarmPoolAssumption, PoolNodeAssumption DEF Control, TypeOK,
        DeleteUnplaced, Entry, GivenInv, Given, Item, Rec, Job
<1>4. PlaceInv'
    BY DEF Control, TypeOK, DeleteUnplaced, Entry, PlaceInv, JobInv, GivenInv,
        Given, Item, Rec, Job
<1>5. OneGiven'
    BY WarmPoolAssumption, PoolNodeAssumption DEF Control, TypeOK,
        DeleteUnplaced, Entry, OneGiven, Given, Rec, Job
<1> QED BY <1>1, <1>2, <1>3, <1>4, <1>5 DEF Control, TypeOK, NodeTypeOK,
    ItemInv, RefillInv, JobInv

LEMMA LeadControl ==
    ASSUME Control, NEW w \in Worker, Lead(w)
    PROVE  Control'
<1>1. UNCHANGED <<vm, from, used, calls, budget, item, rec, job, refill, lost>>
    BY DEF Lead, nodeVars, leaderVars
<1>2. lock' \in Worker \cup {None}
    BY DEF Control, TypeOK, Lead
<1>3. leads' \subseteq Worker
    BY DEF Control, TypeOK, Lead
<1> QED BY <1>1, <1>2, <1>3 DEF Control, TypeOK, NodeTypeOK, ItemInv,
    RefillInv, JobInv, GivenInv, PlaceInv, OneGiven, Given

LEMMA LeadFailsControl ==
    ASSUME Control, NEW w \in Worker, LeadFails(w)
    PROVE  Control'
<1>1. UNCHANGED <<vm, from, used, calls, lock, item, rec, job, refill, lost>>
    BY DEF LeadFails, nodeVars, leaderVars
<1>2. leads' \subseteq Worker
    BY DEF Control, TypeOK, LeadFails
<1>3. budget' \in 0 .. Budget
    BY PoolNodeAssumption DEF Control, TypeOK, LeadFails, Spend, NodeTypeOK
<1> QED BY <1>1, <1>2, <1>3 DEF Control, TypeOK, NodeTypeOK, ItemInv,
    RefillInv, JobInv, GivenInv, PlaceInv, OneGiven, Given

-----------------------------------------------------------------------------
(* Who holds a member's directory. *)

\* s is, or may still be, restored from m on n.
At(s, m, n) ==
    \/ \E c \in calls : c.id = s /\ c.src = m /\ c.node = n
    \/ from[n][s] = m

Used(s, m) == \E n \in Node : At(s, m, n)

\* What is asked for an id.
Proper(c) ==
    /\ c.id \in Member => c.kind \in {"create", "suspend"} /\ c.src = None
    /\ c.id \in Sandbox => c.kind # "suspend"
    /\ c.src # None => c.kind = "resume"

KindInv == \A c \in calls : Proper(c)

UsedInv ==
    \A s \in Sandbox, m \in Member : Used(s, m) => item[m].pool \in {"claimed", "deleted"}

OneUser ==
    \A s, t \in Sandbox, m \in Member :
        (Given(s, m) \/ Used(s, m)) /\ (Given(t, m) \/ Used(t, m)) => s = t

OnePlace ==
    \A s \in Sandbox, m \in Member, k, n \in Node :
        At(s, m, n) =>
            /\ At(s, m, k) => k = n
            /\ item[m].pool = "claimed" => item[m].node = n

Custody == KindInv /\ UsedInv /\ OneUser /\ OnePlace

\* What every step does, as far as custody goes: a member once claimed stays so
\* or is deleted; only a warm one is newly given; each request continues one, or
\* is a proper one for what its sandbox was given; and what a sandbox runs in,
\* it ran in or was restored from.
ItemKept ==
    \A m \in Member : item[m].pool \in {"claimed", "deleted"} => item'[m] \in {item[m], Gone}
GivenKept ==
    \A s \in Sandbox, m \in Member : Given(s, m)' => Given(s, m) \/ item[m].pool = "warm"
Continues(d, c) ==
    /\ d.id = c.id /\ d.node = c.node /\ d.kind = c.kind /\ d.src = c.src
    /\ d.heard => c.heard
CallsKept ==
    \A d \in calls' :
        \/ \E c \in calls : Continues(d, c)
        \/ /\ Proper(d)
           /\ d.src # None => /\ d.id \in Sandbox /\ d.src \in Member
                              /\ Given(d.id, d.src) /\ d.node = item[d.src].node
FromKept ==
    \A n \in Node, s \in Sandbox, m \in Member :
        from'[n][s] = m =>
            from[n][s] = m \/ (\E c \in calls : c.id = s /\ c.src = m /\ c.node = n)
Kept == ItemKept /\ GivenKept /\ CallsKept /\ FromKept

\* What Kept is for.
LEMMA CustodyKept ==
    ASSUME Control, Control', Custody, Kept
    PROVE  Custody'
<1>1. KindInv'
    BY DEF Custody, KindInv, Kept, CallsKept, Continues, Proper
<1>2. ASSUME NEW s \in Sandbox, NEW m \in Member, NEW n \in Node, At(s, m, n)'
      PROVE  \/ At(s, m, n)
             \/ Given(s, m) /\ item[m].pool = "claimed" /\ item[m].node = n
    <2>1. CASE from'[n][s] = m
        BY <2>1 DEF Kept, FromKept, At
    <2>2. CASE \E d \in calls' : d.id = s /\ d.src = m /\ d.node = n
        <3>1. PICK d \in calls' : d.id = s /\ d.src = m /\ d.node = n
            BY <2>2
        <3>2. CASE \E c \in calls : Continues(d, c)
            BY <3>1, <3>2 DEF Continues, At
        <3>3. CASE d.src # None => Given(d.id, d.src) /\ d.node = item[d.src].node
            BY <3>1, <3>3, PoolNodeAssumption DEF Control, GivenInv
        <3> QED BY <3>1, <3>2, <3>3 DEF Kept, CallsKept
    <2> QED BY <1>2, <2>1, <2>2 DEF At
<1>3. ASSUME NEW s \in Sandbox, NEW m \in Member, Used(s, m)'
      PROVE  Used(s, m) \/ (Given(s, m) /\ item[m].pool = "claimed")
    BY <1>2, <1>3 DEF Used
<1>4. \A s \in Sandbox, m \in Member : Used(s, m)' => item[m].pool \in {"claimed", "deleted"}
    BY <1>3 DEF Custody, UsedInv
<1>5. UsedInv'
    BY <1>4 DEF Kept, ItemKept, UsedInv, Gone
<1>6. OneUser'
    <2> SUFFICES ASSUME NEW s \in Sandbox, NEW t \in Sandbox, NEW m \in Member,
                        Given(s, m)' \/ Used(s, m)', Given(t, m)' \/ Used(t, m)'
                 PROVE  s = t
        BY DEF OneUser
    <2>1. CASE Given(s, m)' /\ Given(t, m)'
        BY <2>1 DEF Control, OneGiven
    <2>2. CASE Used(s, m)' \/ Used(t, m)'
        <3>1. item[m].pool # "warm"
            BY <1>4, <2>2
        <3> QED BY <1>3, <3>1 DEF Kept, GivenKept, Custody, OneUser
    <2> QED BY <2>1, <2>2
<1>7. OnePlace'
    <2> SUFFICES ASSUME NEW s \in Sandbox, NEW m \in Member, NEW k \in Node, NEW n \in Node,
                        At(s, m, n)'
                 PROVE  /\ At(s, m, k)' => k = n
                        /\ item'[m].pool = "claimed" => item'[m].node = n
        BY DEF OnePlace
    <2>1. At(s, m, k)' => k = n
        BY <1>2 DEF Custody, OnePlace
    <2>2. item[m].pool \in {"claimed", "deleted"}
        BY <1>4 DEF Used
    <2>3. item'[m].pool = "claimed" => item'[m].node = n
        BY <1>2, <2>2 DEF Kept, ItemKept, Gone, Custody, OnePlace, Control, ItemInv
    <2> QED BY <2>1, <2>3
<1> QED BY <1>1, <1>5, <1>6, <1>7 DEF Custody

-----------------------------------------------------------------------------
(* Each step of a replica does to custody what Kept says. *)

LEMMA MakeMemberKept ==
    ASSUME Control, NEW w \in Worker, MakeMember(w)
    PROVE  Kept
<1>1. UNCHANGED <<from, rec, job>>
    BY DEF MakeMember, nodeVars, leaderVars
<1>2. ItemKept
    BY PoolNodeAssumption DEF Control, TypeOK, ItemKept, MakeMember, Filling,
        RefillInv
<1>3. CallsKept
    <2>1. PICK n \in Node, m \in Member : calls' = calls \cup {Asked(m, n, "create", None)}
        BY DEF MakeMember
    <2> QED BY <2>1, PoolNodeAssumption DEF CallsKept, Continues, Proper, Asked
<1> QED BY <1>1, <1>2, <1>3 DEF GivenKept, Given, FromKept, Kept

LEMMA MemberRunsKept ==
    ASSUME Control, NEW w \in Worker, MemberRuns(w)
    PROVE  Kept
<1>1. UNCHANGED <<from, rec, job>>
    BY DEF MemberRuns, nodeVars, leaderVars
<1>2. ItemKept
    BY PoolNodeAssumption DEF Control, TypeOK, ItemKept, MemberRuns, Filling,
        RefillInv
<1>3. CallsKept
    <2>1. refill[w].id \in Member
        BY DEF MemberRuns, Control, TypeOK, RefillInv, Refill
    <2> QED BY <2>1, PoolNodeAssumption DEF MemberRuns, CallsKept, Continues, Proper, Asked
<1> QED BY <1>1, <1>2, <1>3 DEF GivenKept, Given, FromKept, Kept

LEMMA MemberElsewhereKept ==
    ASSUME Control, NEW w \in Worker, MemberElsewhere(w)
    PROVE  Kept
<1>1. UNCHANGED <<from, item, rec, job>>
    BY DEF MemberElsewhere, nodeVars, leaderVars
<1>2. CallsKept
    BY DEF MemberElsewhere, Answer, CallsKept, Continues
<1> QED BY <1>1, <1>2 DEF ItemKept, GivenKept, Given, FromKept, Kept

LEMMA MemberWarmKept ==
    ASSUME Control, NEW w \in Worker, MemberWarm(w)
    PROVE  Kept
<1>1. UNCHANGED <<from, rec, job>>
    BY DEF MemberWarm, nodeVars, leaderVars
<1>2. ItemKept
    BY PoolNodeAssumption DEF Control, TypeOK, ItemKept, MemberWarm,
        NextMember, Filling, Rest, RefillInv
<1>3. CallsKept
    BY DEF MemberWarm, Answer, CallsKept, Continues
<1> QED BY <1>1, <1>2, <1>3 DEF GivenKept, Given, FromKept, Kept

LEMMA MemberFailsKept ==
    ASSUME Control, NEW w \in Worker, MemberFails(w)
    PROVE  Kept
<1>1. UNCHANGED <<from, rec, job>>
    BY DEF MemberFails, nodeVars, leaderVars
<1>2. ItemKept
    BY PoolNodeAssumption DEF Control, TypeOK, ItemKept, MemberFails,
        NextMember, Filling, Rest, Gone, RefillInv
<1>3. CallsKept
    BY DEF MemberFails, Answer, CallsKept, Continues
<1> QED BY <1>1, <1>2, <1>3 DEF GivenKept, Given, FromKept, Kept

LEMMA ClaimAgainKept ==
    ASSUME Control, NEW w \in Worker, ClaimAgain(w)
    PROVE  Kept
<1>1. UNCHANGED <<from, item, rec, calls>>
    BY DEF ClaimAgain, nodeVars, leaderVars
<1>2. GivenKept
    BY <1>1, WarmPoolAssumption
    DEF ClaimAgain, Control, TypeOK, GivenKept, Given, JobInv, Job, Working
<1> QED BY <1>1, <1>2 DEF ItemKept, CallsKept, Continues, FromKept, Kept

LEMMA ClaimMemberKept ==
    ASSUME Control, NEW w \in Worker, ClaimMember(w)
    PROVE  Kept
<1>1. UNCHANGED <<from, rec, calls>>
    BY DEF ClaimMember, nodeVars, leaderVars
<1>2. ItemKept
    BY PoolNodeAssumption DEF Control, TypeOK, ItemKept, ClaimMember,
        CanClaim, Working
<1>3. GivenKept
    <2>1. PICK m \in Member :
            /\ item[m].pool = "warm"
            /\ job' = [job EXCEPT ![w] = Working("journal", job[w].sb, m, {})]
        BY DEF ClaimMember, CanClaim
    <2> QED BY <1>1, <2>1 DEF Control, TypeOK, GivenKept, Given, Job, Working
<1> QED BY <1>1, <1>2, <1>3 DEF CallsKept, Continues, FromKept, Kept

LEMMA ClaimJournalKept ==
    ASSUME Control, NEW w \in Worker, ClaimJournal(w)
    PROVE  Kept
<1>1. UNCHANGED <<from, item>>
    BY DEF ClaimJournal, nodeVars, leaderVars
<1>2. GivenKept
    <2>1. /\ job[w].sb \in Sandbox /\ job[w].src \in Member /\ item[job[w].src] # Gone
        BY DEF ClaimJournal, Control, TypeOK, JobInv, Job, GivenInv, Given, Gone
    <2>2. /\ rec' = [rec EXCEPT ![job[w].sb] =
                        Entry(rec[job[w].sb].state, item[job[w].src].node, job[w].src)]
          /\ job' = [job EXCEPT ![w].pc = "resume"]
        BY <2>1 DEF ClaimJournal, Journal, Goto
    <2> QED BY <2>1, <2>2 DEF Control, TypeOK, GivenKept, Given, Job, Rec, Entry
<1>3. CallsKept
    <2>1. /\ job[w].sb \in Sandbox /\ job[w].src \in Member
          /\ Given(job[w].sb, job[w].src) /\ item[job[w].src] # Gone
        BY DEF ClaimJournal, Control, TypeOK, JobInv, Job, GivenInv, Given, Gone
    <2> QED BY <2>1, PoolNodeAssumption DEF ClaimJournal, CallsKept, Continues, Proper, Asked
<1> QED BY <1>1, <1>2, <1>3 DEF ItemKept, FromKept, Kept

LEMMA ClaimRetriesKept ==
    ASSUME Control, NEW w \in Worker, ClaimRetries(w)
    PROVE  Kept
<1>1. UNCHANGED <<from, item, rec>>
    BY DEF ClaimRetries, nodeVars, leaderVars
<1>2. GivenKept
    BY <1>1, PoolNodeAssumption, WarmPoolAssumption DEF Control, TypeOK,
        GivenKept, Given, Rec, Job, ClaimRetries, Runs
<1>3. CallsKept
    <2>1. /\ job[w].sb \in Sandbox /\ job[w].src \in Member
          /\ Given(job[w].sb, job[w].src)
          /\ rec[job[w].sb].node = item[job[w].src].node
        BY DEF ClaimRetries, Control, TypeOK, JobInv, Job, PlaceInv, Given
    <2> QED BY <2>1, PoolNodeAssumption DEF ClaimRetries, CallsKept, Continues, Proper, Asked
<1> QED BY <1>1, <1>2, <1>3 DEF ItemKept, FromKept, Kept

LEMMA ClaimClearKept ==
    ASSUME Control, NEW w \in Worker, ClaimClear(w)
    PROVE  Kept
<1>1. UNCHANGED from
    BY DEF ClaimClear, nodeVars, leaderVars
<1>2. ItemKept
    BY PoolNodeAssumption DEF Control, TypeOK, ItemKept, ClaimClear, NoMember,
        Working, Entry, Gone
<1>3. GivenKept
    BY <1>1, PoolNodeAssumption, WarmPoolAssumption DEF Control, TypeOK,
        GivenKept, Given, Rec, Job, ClaimClear, NoMember, Working, Entry, Gone
<1>4. CallsKept
    BY DEF ClaimClear, Answer, CallsKept, Continues
<1> QED BY <1>1, <1>2, <1>3, <1>4 DEF FromKept, Kept

LEMMA ClaimFinishKept ==
    ASSUME Control, NEW w \in Worker, ClaimFinish(w)
    PROVE  Kept
<1>1. UNCHANGED from
    BY DEF ClaimFinish, nodeVars, leaderVars
<1>2. ItemKept
    BY PoolNodeAssumption DEF Control, TypeOK, ItemKept, ClaimFinish, Finish,
        Free, Working, Entry, Gone
<1>3. GivenKept
    BY <1>1, PoolNodeAssumption, WarmPoolAssumption DEF Control, TypeOK,
        GivenKept, Given, Rec, Job, ClaimFinish, Finish, Free, Working, Entry,
        Gone
<1>4. CallsKept
    BY DEF ClaimFinish, Answer, CallsKept, Continues
<1> QED BY <1>1, <1>2, <1>3, <1>4 DEF FromKept, Kept

LEMMA PlaceKept ==
    ASSUME Control, NEW w \in Worker, Place(w)
    PROVE  Kept
<1>1. UNCHANGED <<from, item>>
    BY DEF Place, nodeVars, leaderVars
<1>2. GivenKept
    <2>1. job[w].sb \in Sandbox
        BY DEF Place, NoClaim, Control, TypeOK, JobInv, Job
    <2>2. /\ \E n : \/ rec' = [rec EXCEPT ![job[w].sb].state = "running"]
                    \/ rec' = [rec EXCEPT ![job[w].sb].node = n]
          /\ job' = [job EXCEPT ![w] = Free] \/ job' = [job EXCEPT ![w].pc = "boot"]
        BY DEF Place, Finish, Goto
    <2>3. \A s \in Sandbox : rec'[s].src = rec[s].src
        BY <2>1, <2>2 DEF Control, TypeOK, Rec
    <2>4. \A v \in Worker :
            \/ job'[v].src = job[v].src /\ job'[v].sb = job[v].sb
            \/ job'[v].src = None
        BY <2>2 DEF Control, TypeOK, Job, Free, Working
    <2> QED BY <2>3, <2>4, PoolNodeAssumption DEF GivenKept, Given
<1>3. CallsKept
    <2>1. job[w].sb \in Sandbox
        BY DEF Place, NoClaim, Control, TypeOK, JobInv, Job
    <2>2. \/ calls' = calls
          \/ \E n : calls' = calls \cup {Asked(job[w].sb, n, "create", None)}
        BY DEF Place
    <2> QED BY <2>1, <2>2, PoolNodeAssumption DEF CallsKept, Continues, Proper, Asked
<1> QED BY <1>1, <1>2, <1>3 DEF ItemKept, FromKept, Kept

LEMMA BootedKept ==
    ASSUME Control, NEW w \in Worker, Booted(w)
    PROVE  Kept
<1>1. UNCHANGED <<from, item>>
    BY DEF Booted, nodeVars, leaderVars
<1>2. GivenKept
    BY <1>1, PoolNodeAssumption, WarmPoolAssumption DEF Control, TypeOK,
        GivenKept, Given, Rec, Job, Booted, Finish, Free, Working
<1>3. CallsKept
    BY DEF Booted, Answer, CallsKept, Continues
<1> QED BY <1>1, <1>2, <1>3 DEF ItemKept, FromKept, Kept

LEMMA ElsewhereKept ==
    ASSUME Control, NEW w \in Worker, Elsewhere(w)
    PROVE  Kept
<1>1. UNCHANGED <<from, item, rec>>
    BY DEF Elsewhere, nodeVars, leaderVars
<1>2. GivenKept
    BY <1>1, PoolNodeAssumption, WarmPoolAssumption DEF Control, TypeOK,
        GivenKept, Given, Rec, Job, Elsewhere, Working
<1>3. CallsKept
    BY DEF Elsewhere, Answer, CallsKept, Continues
<1> QED BY <1>1, <1>2, <1>3 DEF ItemKept, FromKept, Kept

LEMMA BootFailsKept ==
    ASSUME Control, NEW w \in Worker, BootFails(w)
    PROVE  Kept
<1>1. UNCHANGED <<from, item>>
    BY DEF BootFails, nodeVars, leaderVars
<1>2. GivenKept
    BY <1>1, PoolNodeAssumption, WarmPoolAssumption DEF Control, TypeOK,
        GivenKept, Given, Rec, Job, BootFails, Finish, Free, Working
<1>3. CallsKept
    BY DEF BootFails, Answer, CallsKept, Continues
<1> QED BY <1>1, <1>2, <1>3 DEF ItemKept, FromKept, Kept

LEMMA DestroyedKept ==
    ASSUME Control, NEW w \in Worker, Destroyed(w)
    PROVE  Kept
<1>1. UNCHANGED <<from, item>>
    BY DEF Destroyed, nodeVars, leaderVars
<1>2. GivenKept
    BY <1>1, PoolNodeAssumption, WarmPoolAssumption DEF Control, TypeOK,
        GivenKept, Given, Rec, Job, Destroyed, Finish, Free, Working, Entry
<1>3. CallsKept
    BY DEF Destroyed, Answer, CallsKept, Continues
<1> QED BY <1>1, <1>2, <1>3 DEF ItemKept, FromKept, Kept

LEMMA DestroyFailsKept ==
    ASSUME Control, NEW w \in Worker, DestroyFails(w)
    PROVE  Kept
<1>1. UNCHANGED <<from, item, rec>>
    BY DEF DestroyFails, nodeVars, leaderVars
<1>2. GivenKept
    BY <1>1, PoolNodeAssumption, WarmPoolAssumption DEF Control, TypeOK,
        GivenKept, Given, Rec, Job, DestroyFails, Finish, Free, Working
<1>3. CallsKept
    BY DEF DestroyFails, Answer, CallsKept, Continues
<1> QED BY <1>1, <1>2, <1>3 DEF ItemKept, FromKept, Kept

LEMMA CrashKept ==
    ASSUME Control, NEW w \in Worker, Crash(w)
    PROVE  Kept
<1>1. UNCHANGED <<from, item, rec>>
    BY DEF Crash, nodeVars, leaderVars
<1>2. GivenKept
    BY <1>1, PoolNodeAssumption, WarmPoolAssumption DEF Control, TypeOK,
        GivenKept, Given, Rec, Job, Crash, Free, Working, Rest, Filling
<1>3. CallsKept
    <2>1. \A d \in calls' : d \in calls \/ \E c \in calls : d = [c EXCEPT !.heard = FALSE]
        BY DEF Crash
    <2> QED BY <2>1 DEF Control, TypeOK, NodeTypeOK, Call, CallsKept, Continues
<1> QED BY <1>1, <1>2, <1>3 DEF ItemKept, FromKept, Kept

LEMMA CreateKept ==
    ASSUME Control, NEW w \in Worker, NEW s \in Sandbox, Create(w, s)
    PROVE  Kept
<1>1. UNCHANGED <<from, item, calls>>
    BY DEF Create, nodeVars, leaderVars, Begins
<1>2. GivenKept
    BY <1>1, PoolNodeAssumption, WarmPoolAssumption DEF Control, TypeOK,
        GivenKept, Given, Rec, Job, Create, Begins, Free, Working
<1> QED BY <1>1, <1>2 DEF ItemKept, CallsKept, Continues, FromKept, Kept

LEMMA DeleteKept ==
    ASSUME Control, NEW w \in Worker, NEW s \in Sandbox, Delete(w, s)
    PROVE  Kept
<1>1. UNCHANGED <<from, item>>
    BY DEF Delete, nodeVars, leaderVars, Begins
<1>2. GivenKept
    BY <1>1, PoolNodeAssumption, WarmPoolAssumption DEF Control, TypeOK,
        GivenKept, Given, Rec, Job, Delete, Begins, Free, Working
<1>3. CallsKept
    BY PoolNodeAssumption DEF Delete, CallsKept, Continues, Proper, Asked
<1> QED BY <1>1, <1>2, <1>3 DEF ItemKept, FromKept, Kept

LEMMA DeleteUnplacedKept ==
    ASSUME Control, NEW s \in Sandbox, DeleteUnplaced(s)
    PROVE  Kept
<1>1. UNCHANGED <<from, item, job, calls>>
    BY DEF DeleteUnplaced, nodeVars, leaderVars
<1>2. GivenKept
    BY <1>1, PoolNodeAssumption, WarmPoolAssumption DEF Control, TypeOK,
        GivenKept, Given, Rec, Job, DeleteUnplaced, Entry
<1> QED BY <1>1, <1>2 DEF ItemKept, CallsKept, Continues, FromKept, Kept

-----------------------------------------------------------------------------
(* Members keep quiet once they wait for a sandbox. *)

\* A request for a member whose refill still waits for it is the only one for
\* that member, and no VM of it runs but the one the request made, or is to
\* suspend.
Alone(c) ==
    /\ \A d \in calls : d.id = c.id => d = c
    /\ c.kind = "suspend" => c.step # "begun"
    /\ \A n \in Node : vm[n][c.id] = "running" =>
          n = c.node /\ c.step = IF c.kind = "create" THEN "ok" ELSE "queued"
    /\ \E w \in Worker :
          /\ refill[w].id = c.id /\ refill[w].node = c.node
          /\ refill[w].pc = IF c.kind = "create" THEN "boot" ELSE "suspend"

MemberInv == \A c \in calls : c.id \in Member /\ c.heard /\ c.step # "error" => Alone(c)

Quiet(m) == (\A n \in Node : vm[n][m] # "running") /\ (\A c \in calls : c.id # m)

Waits(m) ==
    \/ item[m].pool \in {"unused", "warm", "claimed"}
    \/ \E w \in Worker : refill[w].id = m /\ refill[w].pc = "make"
    \/ \E s \in Sandbox : Used(s, m)

QuietInv == \A m \in Member : Waits(m) => Quiet(m)

\* A step makes a sandbox use only what it used or was given.
LEMMA UsedKept ==
    ASSUME Control, Custody, Kept, NEW s \in Sandbox, NEW m \in Member, Used(s, m)'
    PROVE  Used(s, m) \/ item[m].pool = "claimed"
<1>1. PICK n \in Node : At(s, m, n)'
    BY DEF Used
<1>2. CASE from'[n][s] = m
    BY <1>2 DEF Kept, FromKept, At, Used
<1>3. CASE \E d \in calls' : d.id = s /\ d.src = m /\ d.node = n
    <2>1. PICK d \in calls' : d.id = s /\ d.src = m /\ d.node = n
        BY <1>3
    <2>2. CASE \E c \in calls : Continues(d, c)
        BY <2>1, <2>2 DEF Continues, At, Used
    <2>3. CASE d.src # None => Given(d.id, d.src)
        BY <2>1, <2>3, PoolNodeAssumption DEF Control, GivenInv
    <2> QED BY <2>1, <2>2, <2>3 DEF Kept, CallsKept
<1> QED BY <1>1, <1>2, <1>3 DEF At

\* What every step but a refill's, a crash and a handler's does to members.
MembersKept ==
    /\ UNCHANGED <<vm, refill>>
    /\ \A c \in calls : c.id \in Member => c \in calls'
    /\ \A c \in calls' : c.id \in Member => c \in calls
    /\ \A m \in Member : item'[m].pool \in {"unused", "warm", "claimed"} =>
          item[m].pool \in {"unused", "warm", "claimed"}

\* A step that leaves the members alone keeps them quiet.
LEMMA QuietKept ==
    ASSUME Control, Custody, Kept, MemberInv, QuietInv, MembersKept
    PROVE  MemberInv' /\ QuietInv'
<1>1. MemberInv'
    BY DEF MemberInv, Alone, MembersKept
<1>2. QuietInv'
    <2> SUFFICES ASSUME NEW m \in Member, Waits(m)' PROVE Quiet(m)'
        BY DEF QuietInv
    <2>1. Waits(m)
        BY UsedKept DEF Waits, MembersKept
    <2> QED BY <2>1 DEF QuietInv, Quiet, MembersKept
<1> QED BY <1>1, <1>2

\* A creation or deletion that goes on leaves the members' requests alone...
LEMMA CreatingKeepsMembers ==
    ASSUME Control, NEW w \in Worker, Creating(w)
    PROVE  MembersKept
<1>1. job[w].sb \notin Member
    BY PoolNodeAssumption DEF Control, TypeOK, Job
<1>2. /\ \A c \in Answer(job[w].sb, "ok") : c.id \notin Member
      /\ \A c \in Answer(job[w].sb, "full") : c.id \notin Member
      /\ \A c \in Answer(job[w].sb, "error") : c.id \notin Member
    BY <1>1 DEF Answer
<1>3. \A n, k, m : Asked(job[w].sb, n, k, m).id \notin Member
    BY <1>1 DEF Asked
<1>4. CASE ClaimAgain(w)
    BY <1>4 DEF ClaimAgain, MembersKept, nodeVars, leaderVars
<1>5. CASE ClaimMember(w)
    BY <1>5 DEF ClaimMember, MembersKept, nodeVars, leaderVars, Control,
        TypeOK, CanClaim
<1>6. CASE ClaimJournal(w)
    BY <1>6, <1>2, <1>3 DEF ClaimJournal, MembersKept, nodeVars, leaderVars
<1>7. CASE ClaimRetries(w)
    BY <1>7, <1>2, <1>3 DEF ClaimRetries, MembersKept, nodeVars, leaderVars
<1>8. CASE ClaimClear(w)
    BY <1>8, <1>2 DEF ClaimClear, MembersKept, nodeVars, leaderVars, Control,
        TypeOK, Gone
<1>9. CASE ClaimFinish(w)
    BY <1>9, <1>2 DEF ClaimFinish, MembersKept, nodeVars, leaderVars, Control,
        TypeOK, Gone
<1>10. CASE Place(w)
    <2>1. \/ calls' = calls
          \/ \E n : calls' = calls \cup {Asked(job[w].sb, n, "create", None)}
        BY <1>10 DEF Place
    <2>2. UNCHANGED <<vm, refill, item>>
        BY <1>10 DEF Place
    <2> QED BY <1>3, <2>1, <2>2 DEF MembersKept
<1>11. CASE Booted(w)
    BY <1>11, <1>2 DEF Booted, MembersKept, nodeVars, leaderVars
<1>12. CASE Elsewhere(w)
    BY <1>12, <1>2 DEF Elsewhere, MembersKept, nodeVars, leaderVars
<1>13. CASE BootFails(w)
    BY <1>13, <1>2 DEF BootFails, MembersKept, nodeVars, leaderVars
<1>14. CASE Destroyed(w)
    BY <1>14, <1>2 DEF Destroyed, MembersKept, nodeVars, leaderVars
<1>15. CASE DestroyFails(w)
    BY <1>15, <1>2 DEF DestroyFails, MembersKept, nodeVars, leaderVars
<1> QED BY <1>4, <1>5, <1>6, <1>7, <1>8, <1>9, <1>10, <1>11, <1>12, <1>13,
    <1>14, <1>15 DEF Creating

\* ...and so does one that begins.
LEMMA BeginningKeepsMembers ==
    ASSUME Control, NEW w \in Worker, NEW s \in Sandbox,
           Create(w, s) \/ Delete(w, s)
    PROVE  MembersKept
BY PoolNodeAssumption DEF Create, Delete, Begins, Spend, MembersKept, Asked,
    nodeVars, leaderVars

\* A refill that begins has no member yet.
LEMMA ReplenishKeepsQuiet ==
    ASSUME Control, Custody, Kept, MemberInv, QuietInv, NEW w \in Worker, Replenish(w)
    PROVE  MemberInv' /\ QuietInv'
<1>1. UNCHANGED <<vm, from, calls, item>>
    BY DEF Replenish, nodeVars
<1>2. refill[w].id = None /\ refill[w].pc = "idle"
    BY DEF Replenish, Rest, Filling
<1>3. \A v \in Worker \ {w} : refill'[v] = refill[v]
    BY DEF Replenish, Control, TypeOK
<1>4. refill'[w].id = None
    BY DEF Replenish, Control, TypeOK, Filling
<1>5. MemberInv'
    BY <1>1, <1>2, <1>3, PoolNodeAssumption DEF MemberInv, Alone
<1>6. QuietInv'
    BY <1>1, <1>3, <1>4, PoolNodeAssumption DEF QuietInv, Quiet, Waits, Used, At
<1> QED BY <1>5, <1>6

\* A member is made from an id that was quiet: fresh, or turned away by a node.
LEMMA MakeMemberKeepsQuiet ==
    ASSUME Control, Custody, Custody', Kept, MemberInv, QuietInv,
           NEW w \in Worker, MakeMember(w)
    PROVE  MemberInv' /\ QuietInv'
<1>1. PICK n \in Node, m \in Member :
        /\ IF refill[w].id = None THEN item[m].pool = "unused" ELSE m = refill[w].id
        /\ item' = [item EXCEPT ![m].pool = "drawn"]
        /\ calls' = calls \cup {Asked(m, n, "create", None)}
        /\ refill' = [refill EXCEPT ![w] = Filling("boot", refill[w].need, m, n, refill[w].full)]
    BY DEF MakeMember
<1>2. UNCHANGED <<vm, from>> /\ refill[w].pc = "make"
    BY DEF MakeMember
<1>3. Quiet(m)
    BY <1>1, <1>2 DEF QuietInv, Waits
<1>4. /\ \A v \in Worker \ {w} : refill'[v] = refill[v]
      /\ refill'[w].id = m /\ refill'[w].node = n /\ refill'[w].pc = "boot"
      /\ item'[m].pool = "drawn"
      /\ \A k \in Member \ {m} : item'[k] = item[k]
    BY <1>1 DEF Control, TypeOK, Filling, Item
<1>5. \A v \in Worker \ {w} : refill[v].id # m
    BY <1>1, PoolNodeAssumption DEF Control, RefillInv
<1>6. MemberInv'
    <2> SUFFICES ASSUME NEW c \in calls', c.id \in Member, c.heard, c.step # "error"
                 PROVE  Alone(c)'
        BY DEF MemberInv
    <2>1. CASE c.id = m
        <3>1. c = Asked(m, n, "create", None)
            BY <1>1, <1>3, <2>1 DEF Quiet
        <3> QED BY <1>1, <1>2, <1>3, <1>4, <3>1 DEF Alone, Quiet, Asked
    <2>2. CASE c.id # m
        <3>1. c \in calls /\ Alone(c)
            BY <1>1, <2>2 DEF MemberInv, Asked
        <3>2. PICK v \in Worker : /\ refill[v].id = c.id /\ refill[v].node = c.node
                                  /\ refill[v].pc = IF c.kind = "create" THEN "boot" ELSE "suspend"
            BY <3>1 DEF Alone
        <3>3. v # w
            BY <1>2, <3>2
        <3> QED BY <1>1, <1>2, <1>4, <2>2, <3>1, <3>2, <3>3 DEF Alone, Asked
    <2> QED BY <2>1, <2>2
<1>7. QuietInv'
    <2> SUFFICES ASSUME NEW k \in Member, Waits(k)' PROVE Quiet(k)'
        BY DEF QuietInv
    <2>1. k # m
        BY <1>4, <1>5 DEF Waits, Custody, UsedInv
    <2>2. Waits(k)
        BY <1>4, <2>1, UsedKept DEF Waits
    <2> QED BY <1>1, <1>2, <2>1, <2>2 DEF QuietInv, Quiet, Asked
<1> QED BY <1>6, <1>7

\* The answer a refill waits for is that of its member's only request.
LEMMA RefillCall ==
    ASSUME Control, Custody, MemberInv, NEW w \in Worker, refill[w].pc \in {"boot", "suspend"}
    PROVE  /\ refill[w].id \in Member
           /\ \A v \in Worker \ {w} : refill[v].id # refill[w].id
           /\ \A c \in calls : c.id = refill[w].id /\ c.heard /\ c.step # "error" =>
                /\ Alone(c)
                /\ c.node = refill[w].node
                /\ c.kind = IF refill[w].pc = "boot" THEN "create" ELSE "suspend"
<1>1. refill[w].id \in Member
    BY DEF Control, TypeOK, Refill, RefillInv
<1>2. \A v \in Worker \ {w} : refill[v].id # refill[w].id
    BY <1>1, PoolNodeAssumption DEF Control, RefillInv
<1>3. ASSUME NEW c \in calls, c.id = refill[w].id, c.heard, c.step # "error"
      PROVE  /\ Alone(c)
             /\ c.node = refill[w].node
             /\ c.kind = IF refill[w].pc = "boot" THEN "create" ELSE "suspend"
    <2>1. Alone(c)
        BY <1>1, <1>3 DEF MemberInv
    <2>2. c.kind \in {"create", "suspend"}
        BY <1>1, <1>3 DEF Custody, KindInv, Proper
    <2>3. PICK v \in Worker : /\ refill[v].id = c.id /\ refill[v].node = c.node
                              /\ refill[v].pc = IF c.kind = "create" THEN "boot" ELSE "suspend"
        BY <2>1 DEF Alone
    <2>4. v = w
        BY <1>2, <1>3, <2>3
    <2> QED BY <2>1, <2>2, <2>3, <2>4
<1> QED BY <1>1, <1>2, <1>3

\* A step of a refill that changes its own member only, whose request is over,
\* keeps the others as they are.
LEMMA OtherMembers ==
    ASSUME Control, Custody, Custody', Kept, MemberInv, QuietInv, UNCHANGED vm,
           NEW w \in Worker, NEW m \in Member,
           refill[w].id = m, refill[w].pc \in {"boot", "suspend"},
           \A v \in Worker \ {w} : refill'[v] = refill[v],
           refill'[w].id \in {m, None},
           \A k \in Member \ {m} : item'[k] = item[k],
           \A c \in calls : c.id # m => c \in calls',
           \A c \in calls' : c.id # m => c \in calls
    PROVE  /\ \A c \in calls' : c.id \in Member \ {m} /\ c.heard /\ c.step # "error" => Alone(c)'
           /\ \A k \in Member \ {m} : Waits(k)' => Quiet(k)'
<1>1. ASSUME NEW c \in calls', c.id \in Member \ {m}, c.heard, c.step # "error"
      PROVE  Alone(c)'
    <2>1. c \in calls /\ Alone(c)
        BY <1>1 DEF MemberInv
    <2>2. PICK v \in Worker : /\ refill[v].id = c.id /\ refill[v].node = c.node
                              /\ refill[v].pc = IF c.kind = "create" THEN "boot" ELSE "suspend"
        BY <2>1 DEF Alone
    <2>3. v # w
        BY <1>1, <2>2
    <2> QED BY <1>1, <2>1, <2>2, <2>3 DEF Alone
<1>2. ASSUME NEW k \in Member \ {m}, Waits(k)'
      PROVE  Quiet(k)'
    <2>1. Waits(k)
        BY <1>2, UsedKept, PoolNodeAssumption DEF Waits
    <2> QED BY <1>2, <2>1 DEF QuietInv, Quiet
<1> QED BY <1>1, <1>2

\* The member's create is over when its suspend is sent.
LEMMA MemberRunsKeepsQuiet ==
    ASSUME Control, Custody, Custody', Kept, MemberInv, QuietInv,
           NEW w \in Worker, MemberRuns(w)
    PROVE  MemberInv' /\ QuietInv'
<1> DEFINE r == refill[w]
           a == Asked(r.id, r.node, "suspend", None)
<1>1. PICK c \in Answer(r.id, "ok") : calls' = (calls \ {c}) \cup {a}
    BY DEF MemberRuns
<1>2. /\ r.pc = "boot" /\ UNCHANGED <<vm, from>>
      /\ item' = [item EXCEPT ![r.id] = [pool |-> "running", node |-> r.node]]
      /\ refill' = [refill EXCEPT ![w].pc = "suspend"]
    BY DEF MemberRuns
<1>3. /\ r.id \in Member /\ \A v \in Worker \ {w} : refill[v].id # r.id
      /\ c \in calls /\ c.id = r.id /\ c.node = r.node /\ c.kind = "create" /\ Alone(c)
    BY <1>2, RefillCall DEF Answer
<1>4. /\ \A v \in Worker \ {w} : refill'[v] = refill[v]
      /\ refill'[w].id = r.id /\ refill'[w].node = r.node /\ refill'[w].pc = "suspend"
      /\ item'[r.id].pool = "running"
      /\ \A k \in Member \ {r.id} : item'[k] = item[k]
    BY <1>2, <1>3 DEF Control, TypeOK
<1>5. PICK m \in Member : m = r.id
    BY <1>3
<1>6. /\ \A d \in calls' : d.id \in Member \ {m} /\ d.heard /\ d.step # "error" => Alone(d)'
      /\ \A k \in Member \ {m} : Waits(k)' => Quiet(k)'
    BY <1>1, <1>2, <1>3, <1>4, <1>5, OtherMembers DEF Asked
<1>7. \A d \in calls' : d.id = m => d = a
    BY <1>1, <1>3, <1>5 DEF Alone
<1>8. ASSUME NEW d \in calls', d.id = m PROVE Alone(d)'
    <2>0. d = a
        BY <1>7, <1>8
    <2>1. /\ d.id = m /\ d.node = r.node /\ d.kind = "suspend" /\ d.step = "queued"
          /\ \A e \in calls' : e.id = d.id => e = d
        BY <1>5, <1>7, <1>8, <2>0 DEF Asked
    <2>2. \A n \in Node : vm'[n][m] = "running" => n = r.node
        BY <1>2, <1>3, <1>5 DEF Alone
    <2>3. refill'[w].id = d.id /\ refill'[w].node = d.node /\ refill'[w].pc = "suspend"
        BY <1>4, <1>5, <2>1
    <2> QED BY <2>1, <2>2, <2>3 DEF Alone
<1>9. ~Waits(m)'
    BY <1>3, <1>4, <1>5 DEF Waits, Custody, UsedInv
<1> QED BY <1>6, <1>7, <1>8, <1>9 DEF MemberInv, QuietInv

\* A node that is full left no VM of the member behind.
LEMMA MemberElsewhereKeepsQuiet ==
    ASSUME Control, Custody, Custody', Kept, MemberInv, QuietInv,
           NEW w \in Worker, MemberElsewhere(w)
    PROVE  MemberInv' /\ QuietInv'
<1> DEFINE r == refill[w]
<1>1. PICK c \in Answer(r.id, "full") : calls' = calls \ {c}
    BY DEF MemberElsewhere
<1>2. /\ r.pc = "boot" /\ UNCHANGED <<vm, from, item>>
      /\ refill' = [refill EXCEPT ![w] =
                       Filling("make", r.need, r.id, r.node, r.full \cup {r.node})]
    BY DEF MemberElsewhere
<1>3. /\ r.id \in Member /\ \A v \in Worker \ {w} : refill[v].id # r.id
      /\ c \in calls /\ c.id = r.id /\ c.kind = "create" /\ c.step = "full" /\ Alone(c)
    BY <1>2, RefillCall DEF Answer
<1>4. /\ \A v \in Worker \ {w} : refill'[v] = refill[v]
      /\ refill'[w].id = r.id
    BY <1>2 DEF Control, TypeOK, Filling
<1>5. PICK m \in Member : m = r.id
    BY <1>3
<1>6. /\ \A d \in calls' : d.id \in Member \ {m} /\ d.heard /\ d.step # "error" => Alone(d)'
      /\ \A k \in Member \ {m} : Waits(k)' => Quiet(k)'
    BY <1>1, <1>2, <1>3, <1>4, <1>5, OtherMembers
<1>7. Quiet(m)'
    BY <1>1, <1>2, <1>3, <1>5 DEF Alone, Quiet
<1> QED BY <1>6, <1>7 DEF MemberInv, QuietInv, Quiet

\* A member that was suspended is quiet.
LEMMA MemberWarmKeepsQuiet ==
    ASSUME Control, Custody, Custody', Kept, MemberInv, QuietInv,
           NEW w \in Worker, MemberWarm(w)
    PROVE  MemberInv' /\ QuietInv'
<1> DEFINE r == refill[w]
<1>1. PICK c \in Answer(r.id, "ok") : calls' = calls \ {c}
    BY DEF MemberWarm
<1>2. /\ r.pc = "suspend" /\ UNCHANGED <<vm, from>>
      /\ item' = [item EXCEPT ![r.id].pool = "warm"]
      /\ NextMember(w)
    BY DEF MemberWarm
<1>3. /\ r.id \in Member /\ \A v \in Worker \ {w} : refill[v].id # r.id
      /\ c \in calls /\ c.id = r.id /\ c.kind = "suspend" /\ c.step = "ok" /\ Alone(c)
    BY <1>2, RefillCall DEF Answer
<1>4. /\ \A v \in Worker \ {w} : refill'[v] = refill[v]
      /\ refill'[w].id = None
      /\ \A k \in Member \ {r.id} : item'[k] = item[k]
    BY <1>2 DEF Control, TypeOK, NextMember, Filling, Rest
<1>5. PICK m \in Member : m = r.id
    BY <1>3
<1>6. /\ \A d \in calls' : d.id \in Member \ {m} /\ d.heard /\ d.step # "error" => Alone(d)'
      /\ \A k \in Member \ {m} : Waits(k)' => Quiet(k)'
    BY <1>1, <1>2, <1>3, <1>4, <1>5, OtherMembers
<1>7. Quiet(m)'
    BY <1>1, <1>2, <1>3, <1>5 DEF Alone, Quiet
<1> QED BY <1>6, <1>7 DEF MemberInv, QuietInv, Quiet

\* A member that fails may run, but waits for nobody any more.
LEMMA MemberFailsKeepsQuiet ==
    ASSUME Control, Custody, Custody', Kept, MemberInv, QuietInv,
           NEW w \in Worker, MemberFails(w)
    PROVE  MemberInv' /\ QuietInv'
<1> DEFINE r == refill[w]
<1>1. PICK c \in calls : /\ c.id = r.id /\ c.heard
                         /\ calls' = calls \ {c}
    BY DEF MemberFails, Answer
<1>2. /\ r.pc \in {"boot", "suspend"} /\ UNCHANGED <<vm, from>>
      /\ item' = [item EXCEPT ![r.id] = Gone]
      /\ NextMember(w)
    BY DEF MemberFails
<1>3. /\ r.id \in Member /\ \A v \in Worker \ {w} : refill[v].id # r.id
      /\ item[r.id].pool \in {"drawn", "running"}
    BY <1>2, RefillCall, PoolNodeAssumption DEF Control, RefillInv
<1>4. /\ \A v \in Worker \ {w} : refill'[v] = refill[v]
      /\ refill'[w].id = None
      /\ item'[r.id].pool = "deleted"
      /\ \A k \in Member \ {r.id} : item'[k] = item[k]
    BY <1>2, <1>3 DEF Control, TypeOK, NextMember, Filling, Rest, Gone
<1>5. PICK m \in Member : m = r.id
    BY <1>3
<1>6. /\ \A d \in calls' : d.id \in Member \ {m} /\ d.heard /\ d.step # "error" => Alone(d)'
      /\ \A k \in Member \ {m} : Waits(k)' => Quiet(k)'
    BY <1>1, <1>2, <1>3, <1>4, <1>5, OtherMembers
<1>7. \A d \in calls' : d.id = m => ~(d.heard /\ d.step # "error")
    BY <1>1, <1>2, <1>5, RefillCall DEF Alone
<1>8. ~Waits(m)'
    BY <1>3, <1>4, <1>5, UsedKept, PoolNodeAssumption DEF Waits, Custody, UsedInv
<1> QED BY <1>6, <1>7, <1>8 DEF MemberInv, QuietInv

\* After a crash nobody hears the answers to the member's requests.
LEMMA CrashKeepsQuiet ==
    ASSUME Control, Custody, Kept, MemberInv, QuietInv, NEW w \in Worker, Crash(w)
    PROVE  MemberInv' /\ QuietInv'
<1> DEFINE mine == {c \in calls : c.heard /\ c.id \in {job[w].sb, refill[w].id}}
<1>1. /\ UNCHANGED <<vm, from, item>>
      /\ calls' = (calls \ mine) \cup {[c EXCEPT !.heard = FALSE] :
                      c \in {d \in mine : d.step \in {"queued", "begun"}}}
    BY DEF Crash
<1>2. /\ \A v \in Worker \ {w} : refill'[v] = refill[v]
      /\ refill'[w].id = None
    BY DEF Crash, Control, TypeOK, Rest, Filling
<1>3. \A d \in calls' :
        \/ d \in calls /\ d \notin mine
        \/ \E c \in mine : d.id = c.id /\ ~d.heard
    BY <1>1 DEF Control, TypeOK, NodeTypeOK, Call
<1>4. ASSUME NEW c \in calls', c.id \in Member, c.heard, c.step # "error"
      PROVE  Alone(c)'
    <2>1. c \in calls /\ c \notin mine /\ Alone(c)
        BY <1>3, <1>4 DEF MemberInv
    <2>2. PICK v \in Worker : /\ refill[v].id = c.id /\ refill[v].node = c.node
                              /\ refill[v].pc = IF c.kind = "create" THEN "boot" ELSE "suspend"
        BY <2>1 DEF Alone
    <2>3. v # w
        BY <1>4, <2>1, <2>2
    <2>4. \A d \in calls' : d.id = c.id => d = c
        BY <1>3, <2>1 DEF Alone
    <2> QED BY <1>1, <1>2, <2>1, <2>2, <2>3, <2>4 DEF Alone
<1>5. ASSUME NEW m \in Member, Waits(m)'
      PROVE  Quiet(m)'
    <2>1. Waits(m)
        BY <1>1, <1>2, <1>5, UsedKept, PoolNodeAssumption DEF Waits
    <2> QED BY <1>1, <1>3, <2>1 DEF QuietInv, Quiet
<1> QED BY <1>4, <1>5 DEF MemberInv, QuietInv

\* A sandbox that comes up from a member starts no VM of a member.
LEMMA AdoptRuns ==
    ASSUME NodeTypeOK, NEW c \in Call, c.id \notin Member, Adopt(c)
    PROVE  \A n \in Node, m \in Member : vm'[n][m] = "running" => vm[n][m] = "running"
<1>1. vm' = [vm EXCEPT ![c.node] =
                 [i \in Id |-> IF i = c.id THEN "running"
                               ELSE IF i = c.src /\ vm[c.node][i] = "suspended" THEN "none"
                               ELSE vm[c.node][i]]]
    BY DEF Adopt
<1> QED BY <1>1 DEF NodeTypeOK, Id

\* A request of the node-agent changes the requests and VMs of its own id only.
LEMMA HandlerKeepsQuiet ==
    ASSUME Control, Custody, Kept, MemberInv, QuietInv, Handler,
           UNCHANGED <<item, rec, job, refill>>
    PROVE  MemberInv' /\ QuietInv'
<1>1. PICK c \in calls :
        \/ AdmitCreate(c)
        \/ Boot(c)
        \/ AdmitResume(c)
        \/ ResumeDone(c)
        \/ Fails(c)
        \/ OpSuspend(c)
        \/ OpDestroy(c)
        \/ Timeout(c)
    BY DEF Handler
<1>2. /\ c \in Call /\ calls \subseteq Call /\ NodeTypeOK
      /\ c.node \in Node /\ c.id \in Id /\ c.src \in Member \cup {None}
      /\ c.id \in Member => c.kind \in {"create", "suspend"}
      /\ c.step \in {"queued", "begun"}
    BY <1>1 DEF Control, TypeOK, NodeTypeOK, Call, Custody, KindInv, Proper, Starts,
        AdmitCreate, Boot, AdmitResume, ResumeDone, Fails, OpSuspend, OpDestroy, Timeout
<1>3. \A d \in calls' :
        \/ d \in calls /\ d # c
        \/ d = [c EXCEPT !.heard = FALSE]
        \/ \E k \in {"begun", "ok", "full", "error"} : d = [c EXCEPT !.step = k]
    BY <1>1 DEF AdmitCreate, Boot, AdmitResume, ResumeDone, Fails, OpSuspend,
        OpDestroy, Timeout, Reply
<1>4. ASSUME NEW n \in Node, NEW m \in Member, m # c.id, vm'[n][m] = "running"
      PROVE  vm[n][m] = "running"
    <2>1. \A k : [vm EXCEPT ![c.node][c.id] = k][n][m] = vm[n][m]
        BY <1>2, <1>4, TwoLevels DEF NodeTypeOK, Id
    <2>2. \/ vm' = vm
          \/ \E k : vm' = [vm EXCEPT ![c.node][c.id] = k]
          \/ Adopt(c) /\ c.kind = "resume"
        BY <1>1 DEF AdmitCreate, Boot, AdmitResume, ResumeDone, Fails, OpSuspend,
            OpDestroy, Timeout, Become, Starts
    <2>3. CASE Adopt(c) /\ c.kind = "resume"
        BY <1>2, <1>4, <2>3, AdoptRuns
    <2> QED BY <1>4, <2>1, <2>2, <2>3
<1>5. ASSUME NEW m \in Member, Waits(m)'
      PROVE  Quiet(m)'
    <2>1. Quiet(m)
        BY <1>5, UsedKept DEF Waits, QuietInv
    <2>2. c.id # m
        BY <2>1 DEF Quiet
    <2> QED BY <1>2, <1>3, <1>4, <2>1, <2>2 DEF Quiet, Call
<1>6. ASSUME NEW d \in calls', d.id \in Member, d.heard, d.step # "error"
      PROVE  Alone(d)'
    <2>1. CASE d.id # c.id
        <3>1. d \in calls /\ Alone(d)
            BY <1>2, <1>3, <1>6, <2>1 DEF MemberInv, Call
        <3>2. \A e \in calls' : e.id = d.id => e \in calls
            BY <1>2, <1>3, <2>1 DEF Call
        <3> QED BY <1>4, <1>6, <2>1, <3>1, <3>2 DEF Alone
    <2>2. CASE d.id = c.id
        <3>1. c.heard
            BY <1>2, <1>3, <1>6, <2>2 DEF MemberInv, Alone, Call
        <3>2. Alone(c)
            BY <1>2, <1>6, <2>2, <3>1 DEF MemberInv
        <3>3. \A e \in calls' : e.id = c.id =>
                \/ e = [c EXCEPT !.heard = FALSE]
                \/ \E k \in {"begun", "ok", "full", "error"} : e = [c EXCEPT !.step = k]
            BY <1>3, <3>2 DEF Alone
        <3>4. /\ d = [c EXCEPT !.step = d.step] /\ d.step \in {"begun", "ok", "full"}
              /\ d.kind = c.kind /\ d.node = c.node
            BY <1>2, <1>6, <2>2, <3>3 DEF Call
        <3>5. calls' = (calls \ {c}) \cup {d}
            <4>1. d \notin calls \ {c}
                BY <2>2, <3>2 DEF Alone
            <4>2. ~Timeout(c)
                BY <1>2, <1>6, <3>4, <4>1 DEF Timeout, Call
            <4>3. \/ \E k : calls' = (calls \ {c}) \cup {[c EXCEPT !.step = k]}
                  \/ calls' = calls \ {c}
                BY <1>1, <4>2 DEF AdmitCreate, Boot, AdmitResume, ResumeDone, Fails,
                    OpSuspend, OpDestroy, Reply
            <4> QED BY <4>1, <4>3
        <3>6. \A e \in calls' : e.id = d.id => e = d
            BY <2>2, <3>2, <3>5 DEF Alone
        <3>7. CASE c.kind = "create"
            <4>1. \A n \in Node : vm[n][c.id] # "running"
                BY <1>2, <3>2, <3>7 DEF Alone
            <4>2. CASE vm' = vm
                BY <2>2, <3>2, <3>4, <3>6, <3>7, <4>1, <4>2 DEF Alone
            <4>3. CASE Boot(c)
                <5>1. d.step = "ok"
                    <6>1. [c EXCEPT !.step = "ok"] \in calls'
                        BY <3>1, <4>3 DEF Boot, Reply
                    <6> QED BY <1>2, <2>2, <3>6, <6>1 DEF Call
                <5>2. \A n \in Node : vm'[n][c.id] = "running" => n = c.node
                    BY <1>2, <4>1, <4>3, TwoLevels DEF Boot, Become, NodeTypeOK
                <5> QED BY <2>2, <3>2, <3>4, <3>6, <3>7, <5>1, <5>2 DEF Alone
            <4> QED BY <1>1, <3>7, <4>2, <4>3 DEF AdmitCreate, AdmitResume, ResumeDone,
                    Fails, OpSuspend, OpDestroy, Timeout, Starts
        <3>8. CASE c.kind = "suspend"
            <4>1. d.step = "ok" /\ Become(c.node, c.id, "suspended")
                <5>1. OpSuspend(c) \/ Timeout(c)
                    BY <1>1, <3>8 DEF AdmitCreate, Boot, AdmitResume, ResumeDone, Fails,
                        OpDestroy, Starts
                <5>2. ASSUME NEW k \in {"ok", "error"}, Reply(c, k) PROVE d.step = k
                    <6>1. [c EXCEPT !.step = k] \in calls'
                        BY <3>1, <5>2 DEF Reply
                    <6>2. [c EXCEPT !.step = k].id = d.id /\ [c EXCEPT !.step = k].step = k
                        BY <1>2, <2>2 DEF Call
                    <6> QED BY <3>6, <6>1, <6>2
                <5>3. ~Timeout(c)
                    <6>1. Timeout(c) => [c EXCEPT !.heard = FALSE] \in calls'
                        BY DEF Timeout
                    <6> QED BY <1>2, <1>6, <2>2, <3>6, <6>1 DEF Call
                <5> QED BY <3>4, <5>1, <5>2, <5>3 DEF OpSuspend
            <4>2. \A n \in Node : vm'[n][c.id] # "running"
                BY <1>2, <3>2, <4>1, TwoLevels DEF Become, NodeTypeOK, Alone
            <4> QED BY <2>2, <3>2, <3>4, <3>6, <3>8, <4>1, <4>2 DEF Alone
        <3> QED BY <1>2, <1>6, <2>2, <3>7, <3>8
    <2> QED BY <2>1, <2>2
<1> QED BY <1>5, <1>6 DEF MemberInv, QuietInv

-----------------------------------------------------------------------------
(* The steps together. *)

\* A handler of the node-agent leaves the control state alone and, as far as
\* custody goes, makes nothing new.
LEMMA HandlerControl ==
    ASSUME Control, Handler, UNCHANGED <<leaderVars, item, rec, job, refill, lost>>
    PROVE  Control' /\ Kept
<1>1. NodeTypeOK'
    BY HandlerTypes DEF Control, TypeOK
<1>2. UNCHANGED <<lock, leads, item, rec, job, refill, lost>>
    BY DEF leaderVars
<1>3. Control'
    BY <1>1, <1>2 DEF Control, TypeOK, ItemInv, RefillInv, JobInv, GivenInv, Given, PlaceInv,
        OneGiven
<1>4. ItemKept /\ GivenKept
    BY <1>2 DEF ItemKept, GivenKept, Given
<1>5. CallsKept /\ FromKept
    BY HandlerTraces DEF Control, TypeOK, CallsKept, Continues, FromKept
<1> QED BY <1>3, <1>4, <1>5 DEF Kept

\* What every step keeps of the control state, and does to custody.
LEMMA StepControl ==
    ASSUME Control, [Next]_vars
    PROVE  Control' /\ Kept
<1>1. CASE Handler /\ UNCHANGED <<leaderVars, item, rec, job, refill, lost>>
    BY <1>1, HandlerControl
<1>2. CASE LockExpires
    <2>1. UNCHANGED <<vm, from, used, calls, leads, item, rec, job, refill, lost>> /\ lock' = None
        BY <1>2 DEF LockExpires
    <2>2. budget' \in 0 .. Budget
        BY <1>2, PoolNodeAssumption DEF LockExpires, Spend, Control, TypeOK, NodeTypeOK
    <2>3. Control'
        BY <2>1, <2>2 DEF Control, TypeOK, NodeTypeOK, ItemInv, RefillInv, JobInv, GivenInv,
            Given, PlaceInv, OneGiven
    <2> QED BY <2>1, <2>3 DEF Kept, ItemKept, GivenKept, Given, CallsKept, Continues, FromKept
<1>3. ASSUME NEW s \in Sandbox, DeleteUnplaced(s)
      PROVE  Control' /\ Kept
    BY <1>3, DeleteUnplacedControl, DeleteUnplacedKept
<1>4. ASSUME NEW w \in Worker, NEW s \in Sandbox, Create(w, s) \/ Delete(w, s)
      PROVE  Control' /\ Kept
    BY <1>4, CreateControl, CreateKept, DeleteControl, DeleteKept
<1>5. ASSUME NEW w \in Worker, Lead(w) \/ LeadFails(w)
      PROVE  Control' /\ Kept
    <2>1. Control'
        BY <1>5, LeadControl, LeadFailsControl
    <2>2. UNCHANGED <<from, calls, item, rec, job>>
        BY <1>5 DEF Lead, LeadFails, nodeVars
    <2> QED BY <2>1, <2>2 DEF Kept, ItemKept, GivenKept, Given, CallsKept, Continues, FromKept
<1>6. ASSUME NEW w \in Worker, Replenish(w)
      PROVE  Control' /\ Kept
    <2>1. Control'
        BY <1>6, ReplenishControl
    <2>2. UNCHANGED <<from, calls, item, rec, job>>
        BY <1>6 DEF Replenish, nodeVars
    <2> QED BY <2>1, <2>2 DEF Kept, ItemKept, GivenKept, Given, CallsKept, Continues, FromKept
<1>7. ASSUME NEW w \in Worker, Refilling(w), ~Replenish(w)
      PROVE  Control' /\ Kept
    BY <1>7, MakeMemberControl, MakeMemberKept, MemberRunsControl, MemberRunsKept,
        MemberElsewhereControl, MemberElsewhereKept, MemberWarmControl, MemberWarmKept,
        MemberFailsControl, MemberFailsKept DEF Refilling
<1>8. ASSUME NEW w \in Worker, Creating(w)
      PROVE  Control' /\ Kept
    <2>1. CASE ClaimAgain(w) \/ ClaimMember(w) \/ ClaimJournal(w) \/ ClaimRetries(w)
        BY <2>1, ClaimAgainControl, ClaimAgainKept, ClaimMemberControl, ClaimMemberKept,
            ClaimJournalControl, ClaimJournalKept, ClaimRetriesControl, ClaimRetriesKept
    <2>2. CASE ClaimClear(w) \/ ClaimFinish(w) \/ Place(w) \/ Booted(w)
        BY <2>2, ClaimClearControl, ClaimClearKept, ClaimFinishControl, ClaimFinishKept,
            PlaceControl, PlaceKept, BootedControl, BootedKept
    <2>3. CASE Elsewhere(w) \/ BootFails(w) \/ Destroyed(w) \/ DestroyFails(w)
        BY <2>3, ElsewhereControl, ElsewhereKept, BootFailsControl, BootFailsKept,
            DestroyedControl, DestroyedKept, DestroyFailsControl, DestroyFailsKept
    <2> QED BY <1>8, <2>1, <2>2, <2>3 DEF Creating
<1>9. ASSUME NEW w \in Worker, Crash(w)
      PROVE  Control' /\ Kept
    BY <1>9, CrashControl, CrashKept
<1>10. CASE UNCHANGED vars
    <2>1. UNCHANGED <<vm, from, used, calls, budget, lock, leads, item, rec, job, refill, lost>>
        BY <1>10 DEF vars, nodeVars
    <2> QED BY <2>1 DEF Control, TypeOK, NodeTypeOK, ItemInv, RefillInv, JobInv, GivenInv,
            Given, PlaceInv, OneGiven, Kept, ItemKept, GivenKept, CallsKept, Continues, FromKept
<1> QED BY <1>1, <1>2, <1>3, <1>4, <1>5, <1>6, <1>7, <1>8, <1>9, <1>10 DEF Next

\* The inductive invariant.
PoolInv == Control /\ Custody /\ MemberInv /\ QuietInv

\* Every step keeps the members quiet that wait to be claimed or are used.
LEMMA StepQuiet ==
    ASSUME PoolInv, Control', Custody', Kept, [Next]_vars
    PROVE  MemberInv' /\ QuietInv'
<1> USE DEF PoolInv
<1>1. CASE Handler /\ UNCHANGED <<leaderVars, item, rec, job, refill, lost>>
    BY <1>1, HandlerKeepsQuiet
<1>2. CASE MembersKept
    BY <1>2, QuietKept
<1>3. ASSUME NEW w \in Worker, Lead(w) \/ LeadFails(w)
      PROVE  MembersKept
    BY <1>3 DEF Lead, LeadFails, nodeVars, MembersKept
<1>4. LockExpires => MembersKept
    BY DEF LockExpires, MembersKept
<1>5. ASSUME NEW w \in Worker, Refilling(w)
      PROVE  MemberInv' /\ QuietInv'
    BY <1>5, ReplenishKeepsQuiet, MakeMemberKeepsQuiet, MemberRunsKeepsQuiet,
        MemberElsewhereKeepsQuiet, MemberWarmKeepsQuiet, MemberFailsKeepsQuiet DEF Refilling
<1>6. ASSUME NEW w \in Worker, Crash(w)
      PROVE  MemberInv' /\ QuietInv'
    BY <1>6, CrashKeepsQuiet
<1>7. UNCHANGED vars => MembersKept
    BY DEF vars, nodeVars, MembersKept
<1>8. ASSUME NEW w \in Worker, Creating(w)
      PROVE  MembersKept
    BY <1>8, CreatingKeepsMembers
<1>9. ASSUME NEW w \in Worker, NEW s \in Sandbox, Create(w, s) \/ Delete(w, s)
      PROVE  MembersKept
    BY <1>9, BeginningKeepsMembers
<1>10. ASSUME NEW s \in Sandbox, DeleteUnplaced(s)
       PROVE  MembersKept
    BY <1>10 DEF DeleteUnplaced, nodeVars, MembersKept
<1> QED BY <1>1, <1>2, <1>3, <1>4, <1>5, <1>6, <1>7, <1>8, <1>9, <1>10 DEF Next

\* The invariant holds at first,
LEMMA InitPool == Init => PoolInv
<1> SUFFICES ASSUME Init PROVE PoolInv
    OBVIOUS
<1> USE DEF Init, NodeInit
<1>1. TypeOK
    <2>1. Free \in Job /\ Rest \in Refill
        BY WarmPoolAssumption DEF Free, Working, Rest, Filling, Job, Refill
    <2>2. 0 \in 0 .. Size /\ Budget \in 0 .. Budget
        BY PoolNodeAssumption
    <2>3. NodeTypeOK
        BY <2>2 DEF NodeTypeOK
    <2> QED BY <2>1, <2>3 DEF TypeOK, Item, Rec, Entry
<1>2. \A s \in Sandbox, m \in Member : ~Given(s, m)
    BY PoolNodeAssumption DEF Given, Entry, Free, Working
<1>3. ItemInv /\ RefillInv /\ JobInv /\ PlaceInv
    BY PoolNodeAssumption, WarmPoolAssumption
    DEF ItemInv, RefillInv, JobInv, PlaceInv, Free, Working, Rest, Filling
<1>4. Control
    BY <1>1, <1>2, <1>3 DEF Control, GivenInv, OneGiven
<1>5. \A s \in Sandbox, m \in Member, n \in Node : ~At(s, m, n)
    BY PoolNodeAssumption DEF At
<1>6. Custody
    BY <1>2, <1>5 DEF Custody, KindInv, UsedInv, OneUser, OnePlace, Used
<1>7. MemberInv /\ QuietInv
    BY DEF MemberInv, QuietInv, Quiet, Id
<1> QED BY <1>4, <1>6, <1>7 DEF PoolInv

\* every step keeps it,
LEMMA NextPool == PoolInv /\ [Next]_vars => PoolInv'
<1> SUFFICES ASSUME PoolInv, [Next]_vars PROVE PoolInv'
    OBVIOUS
<1>1. Control' /\ Kept
    BY StepControl DEF PoolInv
<1>2. Custody'
    BY <1>1, CustodyKept DEF PoolInv
<1>3. MemberInv' /\ QuietInv'
    BY <1>1, <1>2, StepQuiet
<1> QED BY <1>1, <1>2, <1>3 DEF PoolInv

\* and it says that a directory is handed over once.
LEMMA PoolInvHandsOver == PoolInv => SourceOnce
<1> SUFFICES ASSUME PoolInv, NEW m \in Member
             PROVE  /\ Cardinality({ns \in Node \X Sandbox : from[ns[1]][ns[2]] = m}) <= 1
                    /\ \A n \in Node, s \in Sandbox :
                          from[n][s] = m => \A k \in Node : vm[k][m] # "running"
    BY DEF SourceOnce
<1> DEFINE users == {ns \in Node \X Sandbox : from[ns[1]][ns[2]] = m}
<1>1. Cardinality(users) <= 1
    <2>1. \A a, b \in users : a = b
        <3> SUFFICES ASSUME NEW a \in users, NEW b \in users PROVE a = b
            OBVIOUS
        <3>1. a[2] = b[2]
            BY DEF PoolInv, Custody, OneUser, Used, At
        <3>2. a[1] = b[1]
            BY <3>1 DEF PoolInv, Custody, OnePlace, At
        <3> QED BY <3>1, <3>2
    <2>2. CASE users = {}
        BY <2>2, FS_EmptySet
    <2>3. CASE users # {}
        <3>1. PICK a \in users : users = {a}
            BY <2>1, <2>3
        <3>2. Cardinality({a}) = 1
            BY FS_Singleton
        <3> QED BY <3>1, <3>2
    <2> QED BY <2>2, <2>3
<1>2. \A n \in Node, s \in Sandbox : from[n][s] = m => \A k \in Node : vm[k][m] # "running"
    BY DEF PoolInv, QuietInv, Quiet, Waits, Used, At
<1> QED BY <1>1, <1>2

\* Every variable of the warm pool keeps its type, however many replicas, nodes,
\* members and sandboxes there are and however often one fails.
THEOREM PoolTypeCorrect == Spec => []TypeOK
<1>1. PoolInv => TypeOK
    BY DEF PoolInv, Control
<1> QED BY <1>1, InitPool, NextPool, PTL DEF Spec

\* A member's directory is handed over once.
THEOREM SourceHandedOverOnce == Spec => []SourceOnce
BY InitPool, NextPool, PoolInvHandsOver, PTL DEF Spec
=============================================================================
