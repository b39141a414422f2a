----------------------------- MODULE PoolNode -----------------------------
(***************************************************************************)
(* The nodes as creation and the warm pool see them: many runtimes, user   *)
(* sandboxes and pool members, share a node and its vCPUs                  *)
(* (node-agent/main.py).  A request is admitted against the vCPUs that are *)
(* already committed, then carried out; the requests for one id exclude    *)
(* each other (_vm_operation_lock) and are taken to be handled in the      *)
(* order they were sent.  A caller that gives up does not stop its request.*)
(***************************************************************************)
EXTENDS Integers, FiniteSets, FiniteSetsExt

CONSTANTS
    Sandbox,    \* user sandboxes
    Member,     \* ids of pool members: a fresh uuid each
    Node,       \* nodes; all can be reached
    None,       \* no node, member or replica
    Size,       \* vCPUs of a guest, the same for members and sandboxes
    Capacity,   \* vCPUs a node may commit
    Budget      \* bound: how many faults there may be

Id == Sandbox \cup Member

ASSUME PoolNodeAssumption ==
    /\ IsFiniteSet(Sandbox) /\ IsFiniteSet(Member)
    /\ Sandbox \cap Member = {}
    /\ None \notin Node \cup Member
    /\ Size \in Nat \ {0}
    /\ Capacity \in Nat
    /\ Budget \in Nat

VARIABLES
    vm,         \* per node and id: the entry of _VMS
    from,       \* per node and sandbox: the member whose directory it runs in
    used,       \* per node and id: _COMMITTED_VCPUS
    calls,      \* requests to node-agents
    budget      \* faults still to come

nodeVars == <<vm, from, used, calls, budget>>

\* heard: somebody waits for the answer.
Call == [id : Id, node : Node, kind : {"create", "resume", "suspend", "destroy"},
         src : Member \cup {None}, heard : BOOLEAN,
         step : {"queued", "begun", "ok", "full", "error"}]

NodeTypeOK ==
    /\ vm \in [Node -> [Id -> {"none", "running", "suspended"}]]
    /\ from \in [Node -> [Sandbox -> Member \cup {None}]]
    /\ used \in [Node -> [Id -> 0 .. Size]]
    /\ calls \subseteq Call
    /\ budget \in 0 .. Budget

NodeInit ==
    /\ vm = [n \in Node |-> [i \in Id |-> "none"]]
    /\ from = [n \in Node |-> [s \in Sandbox |-> None]]
    /\ used = [n \in Node |-> [i \in Id |-> 0]]
    /\ calls = {}
    /\ budget = Budget

Spend == budget > 0 /\ budget' = budget - 1

-----------------------------------------------------------------------------
Asked(id, node, kind, src) ==
    [id |-> id, node |-> node, kind |-> kind, src |-> src, heard |-> TRUE,
     step |-> "queued"]

\* The answer somebody waits for.
Answer(id, step) == {c \in calls : c.id = id /\ c.heard /\ c.step = step}

\* A request for the id is under way, or may still begin.
Pending(n, id) ==
    \E c \in calls : c.node = n /\ c.id = id /\ c.step \in {"queued", "begun"}

Reply(c, step) ==
    calls' = (calls \ {c}) \cup (IF c.heard THEN {[c EXCEPT !.step = step]} ELSE {})

\* The request gets the operation lock of its id, after those sent before it:
\* the ones nobody waits for any more and, for a destroy, all others.
Starts(c, kind) ==
    /\ c \in calls /\ c.kind = kind /\ c.step = "queued"
    /\ \A d \in calls : d.id = c.id /\ d.node = c.node =>
          /\ d.step # "begun"
          /\ d.step = "queued" =>
                /\ c.heard => d.heard
                /\ kind = "destroy" => d.kind = "destroy"

\* The caller gives up; the request goes on.  (An answer that gets lost is a
\* request given up while it was carried out.)
Timeout(c) ==
    /\ c \in calls /\ c.heard /\ c.step \in {"queued", "begun"}
    /\ Spend
    /\ calls' = (calls \ {c}) \cup {[c EXCEPT !.step = "error"], [c EXCEPT !.heard = FALSE]}
    /\ UNCHANGED <<vm, from, used>>

\* _reserve_vcpus: the id's earlier reservation does not count.
Fits(n, id, vcpus) ==
    vcpus + MapThenSumSet(LAMBDA i : used[n][i], Id \ {id}) <= Capacity

Reserve(n, id, vcpus) == used' = [used EXCEPT ![n][id] = vcpus]

\* _resume_vcpu_hint: the sandbox's own metadata, of which a member that takes
\* its name has none.
Hint(n, id) == IF vm[n][id] = "running" THEN used[n][id] ELSE 1

Become(n, id, state) == vm' = [vm EXCEPT ![n][id] = state]

\* _register_resumed_vm, and the same for a VM that runs already: the sandbox
\* takes over the member's directory, and the member's entry goes.
Adopt(c) ==
    /\ from' = [from EXCEPT ![c.node][c.id] = c.src]
    /\ vm' = [vm EXCEPT ![c.node] =
                 [i \in Id |-> IF i = c.id THEN "running"
                               ELSE IF i = c.src /\ @[i] = "suspended" THEN "none"
                               ELSE @[i]]]

-----------------------------------------------------------------------------
\* op_create: idempotent while the VM runs; else admitted or turned away.  The
\* ids that are created here are never suspended ones.
AdmitCreate(c) ==
    /\ Starts(c, "create")
    /\ \/ vm[c.node][c.id] = "running" /\ Reply(c, "ok") /\ UNCHANGED used
       \/ /\ vm[c.node][c.id] # "running"
          /\ IF Fits(c.node, c.id, Size)
             THEN /\ Reserve(c.node, c.id, Size)
                  /\ calls' = (calls \ {c}) \cup {[c EXCEPT !.step = "begun"]}
             ELSE Reply(c, "full") /\ UNCHANGED used
    /\ UNCHANGED <<vm, from, budget>>

\* _create_reserved.
Boot(c) ==
    /\ c \in calls /\ c.kind = "create" /\ c.step = "begun"
    /\ Become(c.node, c.id, "running")
    /\ Reply(c, "ok")
    /\ UNCHANGED <<from, used, budget>>

\* op_resume: idempotent while the VM runs; a member may take another's name
\* only when it does not run itself.  Admission goes by the hint.
AdmitResume(c) ==
    /\ Starts(c, "resume")
    /\ \/ /\ vm[c.node][c.id] = "running"
          /\ Reply(c, "ok")
          /\ Adopt(c)
          /\ UNCHANGED used
       \/ /\ vm[c.node][c.id] # "running"
          /\ UNCHANGED <<vm, from>>
          /\ IF vm[c.node][c.src] # "running" /\ Fits(c.node, c.id, Hint(c.node, c.id))
             THEN /\ Reserve(c.node, c.id, Hint(c.node, c.id))
                  /\ calls' = (calls \ {c}) \cup {[c EXCEPT !.step = "begun"]}
             ELSE Reply(c, "error") /\ UNCHANGED used
    /\ UNCHANGED budget

\* _op_resume_impl to its end: the vCPUs are those of the guest that came up,
\* committed if they fit (_pin_vcpu_threads).
ResumeDone(c) ==
    /\ c \in calls /\ c.kind = "resume" /\ c.step = "begun"
    /\ Adopt(c)
    /\ IF Fits(c.node, c.id, Size) THEN Reserve(c.node, c.id, Size) ELSE UNCHANGED used
    /\ Reply(c, "ok")
    /\ UNCHANGED budget

\* Faulty: a failure keeps its vCPUs.
FailsReserved(c) ==
    /\ c \in calls /\ c.kind \in {"create", "resume"} /\ c.step = "begun"
    /\ Spend
    /\ Reply(c, "error")
    /\ UNCHANGED <<vm, from, used>>

\* _with_vcpu_reservation: what fails without leaving a VM gives the vCPUs back.
Fails(c) ==
    /\ c \in calls /\ c.kind \in {"create", "resume"} /\ c.step = "begun"
    /\ Spend
    /\ Reserve(c.node, c.id, 0)
    /\ Reply(c, "error")
    /\ UNCHANGED <<vm, from>>

\* op_suspend of a pool member, after its readiness check.
OpSuspend(c) ==
    /\ Starts(c, "suspend")
    /\ \/ /\ vm[c.node][c.id] = "running"
          /\ Become(c.node, c.id, "suspended")
          /\ Reserve(c.node, c.id, 0)
          /\ Reply(c, "ok")
          /\ UNCHANGED budget
       \/ /\ Spend
          /\ Reply(c, "error")
          /\ UNCHANGED <<vm, used>>
    /\ UNCHANGED from

\* op_destroy: with the runtime goes every directory it owns.
OpDestroy(c) ==
    /\ Starts(c, "destroy")
    /\ Become(c.node, c.id, "none")
    /\ Reserve(c.node, c.id, 0)
    /\ from' = [from EXCEPT ![c.node][c.id] = None]
    /\ Reply(c, "ok")
    /\ UNCHANGED budget

Handler ==
    \E c \in calls :
        \/ AdmitCreate(c)
        \/ Boot(c)
        \/ AdmitResume(c)
        \/ ResumeDone(c)
        \/ Fails(c)
        \/ OpSuspend(c)
        \/ OpDestroy(c)
        \/ Timeout(c)
=============================================================================
