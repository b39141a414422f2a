---------------------------- MODULE SandboxLease ----------------------------
(***************************************************************************)
(* The per-sandbox operation lease: two attributes of the sandbox's        *)
(* DynamoDB item (db.py acquire_lease, renew_lease, release_lease) and the *)
(* renewer thread that keeps a long lifecycle operation covered            *)
(* (operator.py _LeaseRenewer).                                            *)
(*                                                                         *)
(* An element of Op is one lifecycle operation with the uuid it acquires   *)
(* under, so no lease id is ever used twice.  Time is discrete.  "rem" is  *)
(* lease_expires minus the true time, kept no lower than Floor, below      *)
(* which every replica already sees the lease expired; it lets the clock   *)
(* run forever in a finite state space.  Each operation reads the clock    *)
(* of its own host, which is off by Offset[o].                             *)
(***************************************************************************)
EXTENDS Integers

CONSTANTS
    Op,         \* lifecycle operations, one lease id each
    None,       \* the item carries no lease
    Ttl,        \* OPERATION_LEASE_S
    Interval,   \* the renewer's period
    Latency,    \* how late a healthy host's renewal attempt may complete
    MaxFail,    \* consecutive failed renewals of a healthy host
    Offset,     \* clock error of each operation's host
    MaxSkew     \* bound of that error

\* The longest a healthy holder goes from one renewal attempt to the next.
Period == Interval + Latency

ASSUME LeaseAssumption ==
    /\ None \notin Op
    /\ Ttl \in Nat
    /\ Interval \in Nat \ {0}
    /\ Latency \in Nat
    /\ MaxFail \in Nat
    /\ MaxSkew \in Nat
    /\ Offset \in [Op -> -MaxSkew .. MaxSkew]

\* The timing budget under which a lease protects its holder: the failures
\* a renewer rides out and the clock error of two hosts fit in one lease.
ASSUME LeaseBudget == (MaxFail + 1) * Period + 2 * MaxSkew <= Ttl

VARIABLES
    present,    \* the sandbox item exists
    lease,      \* lease_id of the item, or None
    rem,        \* lease_expires, relative to now
    phase,      \* where each operation is
    renewer,    \* state of each operation's renewer thread
    since,      \* time since the renewer's last attempt, per operation
    fails,      \* consecutive failed attempts, per operation
    stalled     \* operations whose host has stalled or lost DynamoDB

vars == <<present, lease, rem, phase, renewer, since, fails, stalled>>

Phase == {"idle", "working", "releasing", "done", "crashed"}
Renewer == {"off", "on", "lost", "late"}

Floor == -(MaxSkew + 1)

TypeOK ==
    /\ present \in BOOLEAN
    /\ lease \in Op \cup {None}
    /\ rem \in Floor .. (Ttl + MaxSkew)
    /\ phase \in [Op -> Phase]
    /\ renewer \in [Op -> Renewer]
    /\ since \in [Op -> 0 .. Period]
    /\ fails \in [Op -> 0 .. MaxFail]
    /\ stalled \in SUBSET Op

Init ==
    /\ present = TRUE
    /\ lease = None
    /\ rem = Floor
    /\ phase = [o \in Op |-> "idle"]
    /\ renewer = [o \in Op |-> "off"]
    /\ since = [o \in Op |-> 0]
    /\ fails = [o \in Op |-> 0]
    /\ stalled = {}

-----------------------------------------------------------------------------
\* Faulty: a lease that was not just renewed counts as expired.
StaleFor(o) == rem < Ttl

\* lease_expires < now, with the clock of the host that asks.
ExpiredFor(o) == rem < Offset[o]

\* Faulty: the item need not exist.
CanUpsert(o) == lease = None \/ ExpiredFor(o)

\* Faulty: a lease ends only by its release.
CanAcquireReleased(o) == present /\ lease = None

\* acquire_lease's condition: the item exists, and carries no lease or an
\* expired one.
CanAcquire(o) == present /\ (lease = None \/ ExpiredFor(o))

\* Faulty: the lease is extended from its old end.
ExpiryFromOld(o) == rem + Ttl

\* lease_expires of a lease that o's host writes now.
Expiry(o) == Ttl + Offset[o]

\* acquire_lease, then renewer.start().  update_item is an upsert: without
\* the condition it would create the item, hence present' = TRUE.
Acquire(o) ==
    /\ phase[o] = "idle"
    /\ CanAcquire(o)
    /\ present' = TRUE
    /\ lease' = o
    /\ rem' = Expiry(o)
    /\ phase' = [phase EXCEPT ![o] = "working"]
    /\ renewer' = [renewer EXCEPT ![o] = "on"]
    /\ since' = [since EXCEPT ![o] = 0]
    /\ fails' = [fails EXCEPT ![o] = 0]
    /\ UNCHANGED stalled

\* Faulty: any renewer may renew.
CanRenewAny(o) == present

\* renew_lease's condition: the item still carries this operation's id.
CanRenew(o) == lease = o

\* One pass of the renewer's loop that reaches DynamoDB.  A refused renewal
\* is logged and ends the thread; the operation it protected goes on.
Renew(o) ==
    /\ renewer[o] = "on"
    /\ since[o] >= Interval
    /\ since' = [since EXCEPT ![o] = 0]
    /\ \/ /\ CanRenew(o)
          /\ rem' = Expiry(o)
          /\ fails' = [fails EXCEPT ![o] = 0]
          /\ UNCHANGED renewer
       \/ /\ ~CanRenew(o)
          /\ renewer' = [renewer EXCEPT ![o] = "lost"]
          /\ UNCHANGED <<rem, fails>>
    /\ UNCHANGED <<present, lease, phase, stalled>>

\* One pass that raises (throttling, network): logged, and the loop waits
\* for the next interval.  Only a stalled host fails more than MaxFail times.
RenewError(o) ==
    /\ renewer[o] = "on"
    /\ since[o] >= Interval
    /\ o \in stalled \/ fails[o] < MaxFail
    /\ since' = [since EXCEPT ![o] = 0]
    /\ fails' = [fails EXCEPT ![o] =
                    IF fails[o] < MaxFail THEN fails[o] + 1 ELSE MaxFail]
    /\ UNCHANGED <<present, lease, rem, phase, renewer, stalled>>

\* The timers of a stopped renewer mean nothing any more.
TimersReset(o) ==
    /\ since' = [since EXCEPT ![o] = 0]
    /\ fails' = [fails EXCEPT ![o] = 0]

\* The operation's work ends and renewer.stop() joins for at most a second:
\* a renewal in flight may still be written ("late").
Finish(o) ==
    /\ phase[o] = "working"
    /\ phase' = [phase EXCEPT ![o] = "releasing"]
    /\ \E r \in {"off", "late"} :
          /\ r = "late" => renewer[o] = "on"
          /\ renewer' = [renewer EXCEPT ![o] = r]
    /\ TimersReset(o)
    /\ UNCHANGED <<present, lease, rem, stalled>>

\* The delete operation's db.delete: the item goes, and its lease with it.
Delete(o) ==
    /\ phase[o] = "working"
    /\ present' = FALSE
    /\ lease' = None
    /\ rem' = Floor
    /\ phase' = [phase EXCEPT ![o] = "releasing"]
    /\ renewer' = [renewer EXCEPT ![o] = "off"]
    /\ TimersReset(o)
    /\ UNCHANGED stalled

\* release_lease: conditional on the id; an exception is swallowed, and the
\* lease then stays until it expires.
Release(o) ==
    /\ phase[o] = "releasing"
    /\ phase' = [phase EXCEPT ![o] = "done"]
    /\ \/ /\ lease = o
          /\ lease' = None
          /\ rem' = Floor
       \/ UNCHANGED <<lease, rem>>
    /\ UNCHANGED <<present, renewer, since, fails, stalled>>

\* The renewal that outlived stop().
LateRenew(o) ==
    /\ renewer[o] = "late"
    /\ renewer' = [renewer EXCEPT ![o] = "off"]
    /\ rem' = IF CanRenew(o) THEN Expiry(o) ELSE rem
    /\ UNCHANGED <<present, lease, phase, since, fails, stalled>>

\* The replica dies: its threads stop where they are, the item stays.
Crash(o) ==
    /\ phase[o] \in {"working", "releasing"}
    /\ phase' = [phase EXCEPT ![o] = "crashed"]
    /\ renewer' = [renewer EXCEPT ![o] = "off"]
    /\ TimersReset(o)
    /\ UNCHANGED <<present, lease, rem, stalled>>

\* The host of an operation pauses, or loses its way to DynamoDB, for longer
\* than the budget: from now on its renewals keep no deadline.
Stall(o) ==
    /\ phase[o] = "working"
    /\ stalled' = stalled \cup {o}
    /\ UNCHANGED <<present, lease, rem, phase, renewer, since, fails>>

\* A writer without a lease (force_update, or put from a reconcile) creates
\* the item again after its deletion.
Recreate ==
    /\ ~present
    /\ present' = TRUE
    /\ UNCHANGED <<lease, rem, phase, renewer, since, fails, stalled>>

\* Time passes, but not beyond a healthy renewer's next attempt.
Tick ==
    /\ \A o \in Op \ stalled : renewer[o] = "on" => since[o] < Period
    /\ rem' = IF rem > Floor THEN rem - 1 ELSE Floor
    /\ since' = [o \in Op |-> IF renewer[o] = "on" /\ since[o] < Period
                              THEN since[o] + 1 ELSE since[o]]
    /\ UNCHANGED <<present, lease, phase, renewer, fails, stalled>>

Next ==
    \/ \E o \in Op :
          \/ Acquire(o)
          \/ Renew(o)
          \/ RenewError(o)
          \/ Finish(o)
          \/ Delete(o)
          \/ Release(o)
          \/ LateRenew(o)
          \/ Crash(o)
          \/ Stall(o)
    \/ Recreate
    \/ Tick

Spec == Init /\ [][Next]_vars

\* Lifecycle operations end (every driver call has a timeout), a live thread
\* runs, the resync offers a refused operation again, and time passes.
Fairness ==
    /\ WF_vars(Tick)
    /\ \A o \in Op :
          /\ WF_vars(Acquire(o))
          /\ WF_vars(Renew(o))
          /\ WF_vars(Finish(o))
          /\ WF_vars(Release(o))
          /\ WF_vars(LateRenew(o))

FairSpec == Spec /\ Fairness
-----------------------------------------------------------------------------
\* At most one lifecycle operation of a sandbox is at work at any time
\* (crd.tf: "Per-sandbox DynamoDB leases fence lifecycle side effects").
Exclusive ==
    \A o, p \in Op : phase[o] = "working" /\ phase[p] = "working" => o = p

\* What the code provides: Exclusive holds until the first host stalls.
ExclusiveUntilStall == stalled = {} => Exclusive

\* Until a host stalls no holder finds its lease gone: the renewer never
\* writes its "operation_lease_lost" line.
NeverLost == stalled = {} => \A o \in Op : renewer[o] # "lost"

\* Lease writes never bring a deleted item back: the item reappears only
\* without a lease, from a writer of the record (db.py, comment in
\* acquire_lease: never recreate a key-only item after the finalizer).
NoKeyOnlyItem == [][~present /\ present' => lease' = None]_vars

\* The lease of o leaves o only with o's own release, the deletion of the
\* item or its expiry for the next holder, and grows only by o's renewer.
Undisturbed(o) ==
    lease = o =>
      /\ lease' # o =>
            \/ phase[o] = "releasing"
            \/ ~present'
            \/ \E p \in Op : lease' = p /\ ExpiredFor(p)
      /\ lease' = o /\ rem' > rem =>
            /\ renewer[o] \in {"on", "late"}
            /\ since'[o] = 0

\* However late an operation is, it cannot release or renew the lease of the
\* operation that replaced it (release_lease and renew_lease are conditional
\* on the lease id).
NoInterference == [][\A o \in Op : Undisturbed(o)]_vars

\* An operation that waits for the lease gets it, or the sandbox is deleted,
\* whatever happened to earlier holders: a crash, a swallowed release, a
\* renewal that came late.
EventuallyServed ==
    \A o \in Op : phase[o] = "idle" ~> (phase[o] # "idle" \/ ~present)

\* Why Exclusive holds: whoever works holds the record's lease, with enough
\* time left for the failures and delays its renewer may still meet.
Covered(o) ==
    /\ present
    /\ lease = o
    /\ renewer[o] = "on"
    /\ rem >= Ttl + Offset[o] - fails[o] * Period - since[o]

LeaseInv ==
    stalled = {} => \A o \in Op : phase[o] = "working" => Covered(o)

\* A live renewer belongs to an operation at work, so a renewal is never
\* refused while LeaseInv holds.
RenewerInv ==
    \A o \in Op : renewer[o] = "on" => phase[o] = "working"
=============================================================================
