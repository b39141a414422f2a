----------------------------- MODULE NodeAgent -----------------------------
(***************************************************************************)
(* The firecracker nodes as the operator sees them: for one sandbox, the   *)
(* runtime entry each node-agent keeps, its guest memory, the snapshot on  *)
(* the node's state volume, and the copy in S3 (node-agent/main.py).       *)
(*                                                                         *)
(* Guest memory is the version of the last write it contains.  Version 0   *)
(* is "nothing there", 1 a freshly booted guest.  Requests are handled one *)
(* at a time per sandbox and node (_vm_operation_lock), taken to be in the *)
(* order they were sent; GET requests do not take the lock.  An operator   *)
(* that gives up on a request does not stop its handler.                   *)
(***************************************************************************)
EXTENDS Integers, FiniteSets

CONSTANTS
    Worker,     \* operator replicas
    Node,       \* metal nodes
    None,       \* no node, no caller, no lease holder
    MaxVersion, \* bound: the guest stops writing at this version
    MaxCall,    \* bound: requests in flight at once
    Budget      \* bound: how often each kind of fault may happen

Fault == {"crash", "timeout", "upload", "reject", "full", "restart",
          "partition", "death"}

ASSUME NodeAgentAssumption ==
    /\ None \notin Node \cup Worker
    /\ MaxVersion \in Nat \ {0}
    /\ MaxCall \in Nat \ {0}
    /\ Budget \in [Fault -> Nat]

VARIABLES
    nodes,      \* per node: link, runtime entry, guest memory, local snapshot
    s3,         \* version of the S3 copy
    latest,     \* version of the last write any guest made
    calls,      \* requests sent to node-agents
    budget      \* faults still allowed

nodeVars == <<nodes, s3, latest, calls, budget>>

Version == 0 .. MaxVersion
Kind == {"create", "suspend", "resume", "destroy"}

Call == [id : 1 .. MaxCall, by : Worker \cup {None}, kind : Kind, node : Node,
         step : {"queued", "upload", "done"}, res : {"", "ok", "error", "full"}]

\* link: "up"; "silent" when requests fail but the last heartbeat is fresh;
\* "gone" once the heartbeat expired.
NodeTypeOK ==
    /\ nodes \in [Node -> [link : {"up", "silent", "gone"},
                           vm   : {"none", "running", "suspended"},
                           mem  : Version,
                           disk : Version]]
    /\ s3 \in Version
    /\ latest \in Version
    /\ calls \in SUBSET Call
    /\ budget \in [Fault -> Nat]

NodeInit ==
    /\ nodes = [n \in Node |->
                  [link |-> "up", vm |-> "none", mem |-> 0, disk |-> 0]]
    /\ s3 = 0
    /\ latest = 0
    /\ calls = {}
    /\ budget = Budget

-----------------------------------------------------------------------------
Spend(f) == budget[f] > 0 /\ budget' = [budget EXCEPT ![f] = @ - 1]

Reachable(n) == nodes[n].link = "up"

\* list_active_nodes: the heartbeat is younger than its TTL.
Registered(n) == nodes[n].link # "gone"

\* GET /vm/{id}: an entry that is absent is a 404, an exception for the driver.
Probe(n) ==
    IF n # None /\ Reachable(n) /\ nodes[n].vm # "none"
    THEN nodes[n].vm ELSE "unknown"

\* The operator sends a request; ids are in the order of sending.
Send(w, kind, n) ==
    \E i \in 1 .. MaxCall :
        /\ \A c \in calls : c.id < i
        /\ i = 1 \/ \E c \in calls : c.id = i - 1
        /\ calls' = calls \cup
             {[id |-> i, by |-> w, kind |-> kind, node |-> n,
               step |-> "queued", res |-> ""]}

\* The handler returns: nobody hears it if the caller gave up, and the reply
\* is lost if the node cannot be reached.
Answer(c, res) ==
    calls' = (calls \ {c}) \cup
        IF c.by = None THEN {}
        ELSE {[c EXCEPT !.step = "done",
                        !.res = IF Reachable(c.node) THEN res ELSE "error"]}

\* Faulty: a request does not wait for the operation lock.
StartsUnlocked(c, kind) == c \in calls /\ c.kind = kind /\ c.step = "queued"

\* The request gets the sandbox's operation lock on its node: it is free, and
\* no request waits that was sent before.
Starts(c, kind) ==
    /\ c \in calls
    /\ c.kind = kind
    /\ c.step = "queued"
    /\ \A d \in calls : d.node = c.node =>
          d.step # "upload" /\ (d.step = "queued" => c.id <= d.id)

Set(n, vm, mem, disk) ==
    nodes' = [nodes EXCEPT ![n].vm = vm, ![n].mem = mem, ![n].disk = disk]

\* Faulty: a create overwrites what is suspended.
VacantUnlessRunning(n) == nodes[n].vm # "running"

\* A create may start a guest: the sandbox has no runtime entry.
Vacant(n) == nodes[n].vm = "none"

\* What a resume restores: the node's own snapshot, else the one in S3.
Source(n) == IF nodes[n].disk # 0 THEN nodes[n].disk ELSE s3

-----------------------------------------------------------------------------
\* op_create: idempotent while the VM runs, an error on any other entry;
\* otherwise the root disk is copied from its template and a fresh guest
\* boots.
OpCreate(c) ==
    /\ Starts(c, "create")
    /\ \/ /\ nodes[c.node].vm = "running"
          /\ Answer(c, "ok")
          /\ UNCHANGED <<nodes, latest, budget>>
       \/ /\ nodes[c.node].vm = "suspended"
          /\ Answer(c, "error")
          /\ UNCHANGED <<nodes, latest, budget>>
       \/ /\ Vacant(c.node)
          /\ Set(c.node, "running", 1, nodes[c.node].disk)
          /\ latest' = IF latest = 0 THEN 1 ELSE latest
          /\ Answer(c, "ok")
          /\ UNCHANGED budget
       \/ /\ Vacant(c.node)
          /\ \/ Spend("full") /\ Answer(c, "full")
             \/ Spend("reject") /\ Answer(c, "error")
          /\ UNCHANGED <<nodes, latest>>
    /\ UNCHANGED s3

\* op_suspend up to the stopped VM: the guest is paused, its snapshot written
\* to the state volume, the VMM stopped.  A failing snapshot resumes the
\* guest; a VM that does not run has no VMM to pause.
OpSuspendLocal(c) ==
    LET n == c.node IN
    /\ Starts(c, "suspend")
    /\ \/ /\ nodes[n].vm # "running"
          /\ Answer(c, "error")
          /\ UNCHANGED <<nodes, budget>>
       \/ /\ nodes[n].vm = "running"
          /\ Spend("reject")
          /\ Answer(c, "error")
          /\ UNCHANGED nodes
       \/ /\ nodes[n].vm = "running"
          /\ Set(n, "suspended", 0, nodes[n].mem)
          /\ calls' = (calls \ {c}) \cup {[c EXCEPT !.step = "upload"]}
          /\ UNCHANGED budget
    /\ UNCHANGED <<s3, latest>>

\* op_suspend's upload of the snapshot directory, with the VM already stopped.
OpSuspendUpload(c) ==
    /\ c \in calls /\ c.step = "upload"
    /\ \/ /\ s3' = nodes[c.node].disk
          /\ Answer(c, "ok")
          /\ UNCHANGED budget
       \/ /\ Spend("upload")
          /\ Answer(c, "error")
          /\ UNCHANGED s3
    /\ UNCHANGED <<nodes, latest>>

\* op_resume: idempotent while the VM runs; the snapshot is fetched from S3
\* only when the node has none of its own.
OpResume(c) ==
    LET n == c.node IN
    /\ Starts(c, "resume")
    /\ \/ /\ nodes[n].vm = "running"
          /\ Answer(c, "ok")
          /\ UNCHANGED <<nodes, budget>>
       \/ /\ nodes[n].vm # "running" /\ Source(n) = 0
          /\ Answer(c, "error")
          /\ UNCHANGED <<nodes, budget>>
       \/ /\ nodes[n].vm # "running" /\ Source(n) # 0
          /\ Set(n, "running", Source(n), Source(n))
          /\ Answer(c, "ok")
          /\ UNCHANGED budget
       \/ /\ nodes[n].vm # "running" /\ Source(n) # 0
          /\ Spend("reject")
          /\ Set(n, nodes[n].vm, 0, Source(n))
          /\ Answer(c, "error")
    /\ UNCHANGED <<s3, latest>>

\* op_destroy: stops what runs and removes the sandbox's directories; an
\* absent sandbox is a success.
OpDestroy(c) ==
    /\ Starts(c, "destroy")
    /\ Set(c.node, "none", 0, 0)
    /\ Answer(c, "ok")
    /\ UNCHANGED <<s3, latest, budget>>

-----------------------------------------------------------------------------
\* The guest writes: its memory becomes the newest version.
GuestWrite(n) ==
    /\ nodes[n].vm = "running"
    /\ latest < MaxVersion
    /\ latest' = latest + 1
    /\ nodes' = [nodes EXCEPT ![n].mem = latest + 1]
    /\ UNCHANGED <<s3, calls, budget>>

\* What a caller learns when its request's handler is gone.
Cut(n) ==
    LET lost == {c \in calls : c.node = n /\ c.step # "done"} IN
    calls' = (calls \ lost) \cup
             {[c EXCEPT !.step = "done", !.res = "error"] :
                  c \in {d \in lost : d.by # None}}

\* The node-agent restarts: _recover_vms finds live VMs by their sockets, so
\* the entry of a suspended VM is forgotten; handlers are cut short.
AgentRestart(n) ==
    /\ Reachable(n)
    /\ Spend("restart")
    /\ nodes' = [nodes EXCEPT ![n].vm = IF @ = "running" THEN @ ELSE "none"]
    /\ Cut(n)
    /\ UNCHANGED <<s3, latest>>

\* The node is cut off; what it runs goes on running.
Partition(n) ==
    /\ Reachable(n)
    /\ Spend("partition")
    /\ nodes' = [nodes EXCEPT ![n].link = "silent"]
    /\ UNCHANGED <<s3, latest, calls>>

\* The node dies with its VM and its volume.
Death(n) ==
    /\ Spend("death")
    /\ nodes' = [nodes EXCEPT
                   ![n] = [link |-> "silent", vm |-> "none", mem |-> 0, disk |-> 0]]
    /\ Cut(n)
    /\ UNCHANGED <<s3, latest>>

\* The registry notices that heartbeats stopped.
HeartbeatExpire(n) ==
    /\ nodes[n].link = "silent"
    /\ nodes' = [nodes EXCEPT ![n].link = "gone"]
    /\ UNCHANGED <<s3, latest, calls, budget>>

\* The node is back, the same or a replacement under its address.
NodeReturn(n) ==
    /\ ~Reachable(n)
    /\ nodes' = [nodes EXCEPT ![n].link = "up"]
    /\ UNCHANGED <<s3, latest, calls, budget>>

Handler ==
    \E c \in calls :
        \/ OpCreate(c)
        \/ OpSuspendLocal(c)
        \/ OpSuspendUpload(c)
        \/ OpResume(c)
        \/ OpDestroy(c)

NodeFault ==
    \E n \in Node :
        \/ AgentRestart(n)
        \/ Partition(n)
        \/ Death(n)
        \/ HeartbeatExpire(n)
        \/ NodeReturn(n)

NodeNext ==
    \/ Handler
    \/ NodeFault
    \/ \E n \in Node : GuestWrite(n)

-----------------------------------------------------------------------------
Running == {n \in Node : nodes[n].vm = "running"}
=============================================================================
