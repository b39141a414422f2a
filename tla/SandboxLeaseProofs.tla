------------------------- MODULE SandboxLeaseProofs -------------------------
(***************************************************************************)
(* The lease excludes for every set of operations, lease length, renewal   *)
(* period, failure budget and clock error that respect LeaseBudget, until  *)
(* the first host stalls.                                                  *)
(***************************************************************************)
EXTENDS SandboxLease, TLAPS

\* The budget is linear in the number of failures still allowed: the only
\* products in the argument are those of Period and a failure count.
LEMMA FailureStep ==
    ASSUME NEW n \in Nat
    PROVE  /\ (n + 1) * Period = n * Period + Period
           /\ n * Period \in Nat
  BY LeaseAssumption DEF Period

LEMMA FailureBound ==
    ASSUME NEW n \in 0 .. MaxFail
    PROVE  (n + 1) * Period + 2 * MaxSkew <= Ttl
  <1>1. PICK k \in Nat : MaxFail = n + k
    <2>1. MaxFail - n \in Nat /\ MaxFail = n + (MaxFail - n)
      BY LeaseAssumption
    <2>2. QED
      BY <2>1
  <1>2. (MaxFail + 1) * Period = (n + 1) * Period + k * Period
    BY <1>1, LeaseAssumption DEF Period
  <1>3. k * Period \in Nat /\ (n + 1) * Period \in Nat
    BY <1>1, LeaseAssumption DEF Period
  <1>4. QED
    BY <1>2, <1>3, LeaseBudget, LeaseAssumption

\* Every variable keeps its type: in particular the lease clock stays
\* between the floor and one full lease as seen by the fastest host.
THEOREM TypeCorrect == Spec => []TypeOK
  <1> USE LeaseAssumption DEF Floor, Period, Phase, Renewer
  <1>1. Init => TypeOK
    BY DEF Init, TypeOK
  <1>2. TypeOK /\ [Next]_vars => TypeOK'
    <2> SUFFICES ASSUME TypeOK, [Next]_vars
                 PROVE  TypeOK'
      OBVIOUS
    <2> USE DEF TypeOK
    <2>1. ASSUME NEW o \in Op, Acquire(o) PROVE TypeOK'
      BY <2>1 DEF Expiry, Acquire
    <2>2. ASSUME NEW o \in Op, Renew(o) PROVE TypeOK'
      BY <2>2 DEF Expiry, Renew
    <2>3. ASSUME NEW o \in Op, RenewError(o) PROVE TypeOK'
      BY <2>3 DEF RenewError
    <2>4. ASSUME NEW o \in Op, Finish(o) PROVE TypeOK'
      BY <2>4 DEF Finish, TimersReset
    <2>5. ASSUME NEW o \in Op, Delete(o) PROVE TypeOK'
      <3>1. /\ Floor \in Floor .. (Ttl + MaxSkew)
            /\ 0 \in 0 .. Period /\ 0 \in 0 .. MaxFail
        OBVIOUS
      <3>2. QED
        BY <2>5, <3>1 DEF Delete, TimersReset
    <2>6. ASSUME NEW o \in Op, Release(o) PROVE TypeOK'
      BY <2>6 DEF Release
    <2>7. ASSUME NEW o \in Op, LateRenew(o) PROVE TypeOK'
      BY <2>7 DEF Expiry, LateRenew
    <2>8. ASSUME NEW o \in Op, Crash(o) PROVE TypeOK'
      BY <2>8 DEF Crash, TimersReset
    <2>9. ASSUME NEW o \in Op, Stall(o) PROVE TypeOK'
      BY <2>9 DEF Stall
    <2>10. CASE Recreate
      BY <2>10 DEF Recreate
    <2>11. CASE Tick
      BY <2>11 DEF Tick
    <2>12. CASE UNCHANGED vars
      BY <2>12 DEF vars
    <2>13. QED
      BY <2>1, <2>2, <2>3, <2>4, <2>5, <2>6, <2>7, <2>8, <2>9, <2>10, <2>11,
         <2>12 DEF Next
  <1>3. QED
    BY <1>1, <1>2, PTL DEF Spec

\* A lease that covers its holder is expired for nobody.
LEMMA CoveredNotExpired ==
    ASSUME TypeOK, NEW o \in Op, Covered(o), NEW p \in Op
    PROVE  ~ExpiredFor(p)
  <1> DEFINE n == fails[o]
  <1>1. n \in 0 .. MaxFail /\ since[o] \in 0 .. Period
    BY DEF TypeOK
  <1>2. (n + 1) * Period + 2 * MaxSkew <= Ttl
    BY <1>1, FailureBound
  <1>3. (n + 1) * Period = n * Period + Period /\ n * Period \in Nat
    BY <1>1, FailureStep, LeaseAssumption
  <1>4. rem >= Ttl + Offset[o] - n * Period - since[o]
    BY DEF Covered
  <1> HIDE DEF n
  <1>5. /\ Period \in Nat
        /\ Offset[o] \in -MaxSkew .. MaxSkew
        /\ Offset[p] \in -MaxSkew .. MaxSkew
    BY LeaseAssumption DEF Period
  <1>6. rem \in Int
    BY LeaseAssumption DEF TypeOK, Floor
  <1>7. rem >= Offset[p]
    BY <1>1, <1>2, <1>3, <1>4, <1>5, <1>6, LeaseAssumption
  <1>8. QED
    BY <1>5, <1>6, <1>7 DEF ExpiredFor

\* While one operation is covered, no other acquires.
LEMMA CoveredExcludes ==
    ASSUME TypeOK, NEW o \in Op, Covered(o), NEW p \in Op, CanAcquire(p)
    PROVE  FALSE
  BY CoveredNotExpired, LeaseAssumption DEF CanAcquire, Covered

\* The inductive invariant: NeverLost is part of it, a renewer that survived
\* the loss of its lease would have to be excluded again at every step.
HealthyInv == TypeOK /\ LeaseInv /\ RenewerInv /\ NeverLost

\* A live renewer always belongs to an operation at work, stalled or not.
LEMMA RenewerStep ==
    ASSUME TypeOK, RenewerInv, [Next]_vars
    PROVE  RenewerInv'
  <1> USE DEF RenewerInv, TypeOK, Phase, Renewer
  <1>1. ASSUME NEW o \in Op, Acquire(o) PROVE RenewerInv'
    BY <1>1 DEF Expiry, Acquire
  <1>2. ASSUME NEW o \in Op, Renew(o) PROVE RenewerInv'
    BY <1>2 DEF Expiry, Renew
  <1>3. ASSUME NEW o \in Op, RenewError(o) PROVE RenewerInv'
    BY <1>3 DEF RenewError
  <1>4. ASSUME NEW o \in Op, Finish(o) PROVE RenewerInv'
    BY <1>4 DEF Finish
  <1>5. ASSUME NEW o \in Op, Delete(o) PROVE RenewerInv'
    BY <1>5 DEF Delete
  <1>6. ASSUME NEW o \in Op, Release(o) PROVE RenewerInv'
    BY <1>6 DEF Release
  <1>7. ASSUME NEW o \in Op, LateRenew(o) PROVE RenewerInv'
    BY <1>7 DEF Expiry, LateRenew
  <1>8. ASSUME NEW o \in Op, Crash(o) PROVE RenewerInv'
    BY <1>8 DEF Crash
  <1>9. ASSUME NEW o \in Op, Stall(o) PROVE RenewerInv'
    BY <1>9 DEF Stall
  <1>10. CASE Recreate
    BY <1>10 DEF Recreate
  <1>11. CASE Tick
    BY <1>11 DEF Tick
  <1>12. CASE UNCHANGED vars
    BY <1>12 DEF vars
  <1>13. QED
    BY <1>1, <1>2, <1>3, <1>4, <1>5, <1>6, <1>7, <1>8, <1>9, <1>10, <1>11,
       <1>12 DEF Next

\* One step that stalls nobody keeps every working operation covered, and
\* finds no renewer whose lease is gone.
LEMMA HealthyStep ==
    ASSUME HealthyInv, [Next]_vars, TypeOK', stalled' = {}
    PROVE  LeaseInv' /\ NeverLost'
  <1> USE DEF HealthyInv, LeaseInv, RenewerInv, NeverLost, TypeOK, Phase, Renewer
  <1>0. stalled = {}
    BY DEF Expiry, Next, vars, Acquire, Renew, RenewError, Finish, Delete, Release,
           LateRenew, Crash, Stall, Recreate, Tick
  <1> USE <1>0
  <1>1. ASSUME NEW o \in Op, Acquire(o) PROVE LeaseInv' /\ NeverLost'
    <2>1. ASSUME NEW p \in Op, phase'[p] = "working" PROVE p = o
      <3> SUFFICES ASSUME p # o PROVE FALSE
        OBVIOUS
      <3>1. Covered(p)
        BY <1>1, <2>1 DEF Expiry, Acquire
      <3>2. QED
        BY <1>1, <3>1, CoveredExcludes DEF Expiry, Acquire
    <2>2. Covered(o)'
      <3>1. 0 * Period = 0
        BY LeaseAssumption DEF Period
      <3>2. /\ present' /\ lease' = o /\ renewer'[o] = "on"
            /\ rem' = Ttl + Offset[o] /\ fails'[o] = 0 /\ since'[o] = 0
        BY <1>1 DEF Expiry, Acquire
      <3>3. fails'[o] * Period = 0
        BY <3>1, <3>2
      <3>4. Ttl + Offset[o] \in Int
        BY LeaseAssumption
      <3>5. rem' >= Ttl + Offset[o] - fails'[o] * Period - since'[o]
        BY <3>2, <3>3, <3>4, LeaseAssumption
      <3>6. QED
        BY <3>2, <3>5 DEF Covered
    <2>3. NeverLost'
      BY <1>1 DEF Expiry, Acquire
    <2>4. ASSUME NEW p \in Op, phase'[p] = "working" PROVE Covered(p)'
      <3>1. p = o
        BY <2>1, <2>4
      <3>2. QED
        BY <2>2, <3>1 DEF Covered
    <2>5. QED
      BY <2>3, <2>4
  <1>2. ASSUME NEW o \in Op, Renew(o) PROVE LeaseInv' /\ NeverLost'
    <2>1. phase[o] = "working" /\ lease = o
      BY <1>2 DEF Expiry, Renew, Covered
    <2>2. rem' = Ttl + Offset[o] /\ fails'[o] = 0 /\ since'[o] = 0
      BY <1>2, <2>1 DEF Expiry, Renew, CanRenew
    <2>3. ASSUME NEW p \in Op, phase'[p] = "working" PROVE p = o
      BY <1>2, <2>1, <2>3 DEF Expiry, Renew, Covered
    <2>4. 0 * Period = 0
      BY LeaseAssumption DEF Period
    <2>5. UNCHANGED <<present, lease, phase, renewer>>
      BY <1>2, <2>1 DEF Expiry, Renew, CanRenew
    <2>6. QED
      BY <2>1, <2>2, <2>3, <2>4, <2>5, LeaseAssumption DEF Covered
  <1>3. ASSUME NEW o \in Op, RenewError(o) PROVE LeaseInv' /\ NeverLost'
    <2>1. /\ phase[o] = "working" /\ fails[o] < MaxFail
          /\ fails'[o] = fails[o] + 1 /\ since'[o] = 0
          /\ UNCHANGED <<present, lease, rem, phase, renewer>>
      BY <1>3 DEF RenewError
    <2>2. ASSUME NEW p \in Op, phase'[p] = "working" PROVE p = o
      BY <2>1, <2>2 DEF Covered
    <2>3. (fails[o] + 1) * Period = fails[o] * Period + Period
      <3>1. fails[o] \in Nat
        BY LeaseAssumption
      <3>2. QED
        BY <3>1, FailureStep
    <2>4. /\ fails[o] * Period \in Int /\ Period \in Nat
          /\ since[o] \in 0 .. Period /\ rem \in Int /\ Offset[o] \in Int
      <3>1. fails[o] \in Nat
        BY LeaseAssumption
      <3>2. QED
        BY <3>1, FailureStep, LeaseAssumption DEF Period, Floor
    <2>5. rem >= Ttl + Offset[o] - fails[o] * Period - since[o]
      BY <2>1 DEF Covered
    <2>6. rem >= Ttl + Offset[o] - (fails[o] + 1) * Period - 0
      BY <2>3, <2>4, <2>5, LeaseAssumption
    <2>7. QED
      BY <2>1, <2>2, <2>6 DEF Covered
  <1>4. ASSUME NEW o \in Op, Finish(o) PROVE LeaseInv' /\ NeverLost'
    BY <1>4 DEF Finish, TimersReset, Covered
  <1>5. ASSUME NEW o \in Op, Delete(o) PROVE LeaseInv' /\ NeverLost'
    <2>1. lease = o
      BY <1>5 DEF Delete, Covered
    <2>2. ASSUME NEW p \in Op PROVE phase'[p] # "working"
      BY <1>5, <2>1 DEF Delete, Covered
    <2>3. QED
      BY <1>5, <2>2 DEF Delete, TimersReset
  <1>6. ASSUME NEW o \in Op, Release(o) PROVE LeaseInv' /\ NeverLost'
    BY <1>6 DEF Release, Covered
  <1>7. ASSUME NEW o \in Op, LateRenew(o) PROVE LeaseInv' /\ NeverLost'
    BY <1>7 DEF Expiry, LateRenew, CanRenew, Covered
  <1>8. ASSUME NEW o \in Op, Crash(o) PROVE LeaseInv' /\ NeverLost'
    BY <1>8 DEF Crash, TimersReset, Covered
  <1>9. CASE Recreate
    BY <1>9 DEF Recreate, Covered
  <1>10. CASE Tick
    <2>1. NeverLost'
      BY <1>10 DEF Tick
    <2>2. ASSUME NEW o \in Op, phase'[o] = "working" PROVE Covered(o)'
      <3>1. /\ Covered(o) /\ since[o] < Period
            /\ since'[o] = since[o] + 1
            /\ UNCHANGED <<present, lease, fails, renewer>>
        BY <1>10, <2>2 DEF Tick, Covered
      <3>2. /\ fails[o] * Period \in Int /\ since[o] \in Int
            /\ rem \in Int /\ Offset[o] \in Int
        <4>1. fails[o] \in Nat
          BY LeaseAssumption
        <4>2. QED
          BY <4>1, FailureStep, LeaseAssumption DEF Period, Floor
      <3>3. rem' >= rem - 1
        BY <1>10, <3>2, LeaseAssumption DEF Tick, Floor
      <3>4. rem' \in Int
        BY LeaseAssumption DEF Floor
      <3>5. rem' >= Ttl + Offset[o] - fails[o] * Period - (since[o] + 1)
        BY <3>1, <3>2, <3>3, <3>4, LeaseAssumption DEF Covered
      <3>6. QED
        BY <3>1, <3>5 DEF Covered
    <2>3. QED
      BY <2>1, <2>2
  <1>11. CASE UNCHANGED vars
    BY <1>11 DEF vars, Covered
  <1>12. ASSUME NEW o \in Op, Stall(o) PROVE FALSE
    BY <1>12 DEF Stall
  <1>13. QED
    BY <1>1, <1>2, <1>3, <1>4, <1>5, <1>6, <1>7, <1>8, <1>9, <1>10, <1>11,
       <1>12 DEF Next

\* Until a host stalls, whoever works holds an unexpired lease at all times.
LEMMA HealthyInvariant == Spec => []HealthyInv
  <1>1. Init => LeaseInv /\ RenewerInv /\ NeverLost
    BY DEF Init, LeaseInv, RenewerInv, NeverLost
  <1>2. HealthyInv /\ [Next]_vars /\ TypeOK' => HealthyInv'
    <2> SUFFICES ASSUME HealthyInv, [Next]_vars, TypeOK'
                 PROVE  HealthyInv'
      OBVIOUS
    <2>1. RenewerInv'
      BY RenewerStep DEF HealthyInv
    <2>2. LeaseInv' /\ NeverLost'
      <3>1. CASE stalled' = {}
        BY <3>1, HealthyStep
      <3>2. CASE stalled' # {}
        BY <3>2 DEF LeaseInv, NeverLost
      <3>3. QED
        BY <3>1, <3>2
    <2>3. QED
      BY <2>1, <2>2 DEF HealthyInv
  <1>3. HealthyInv <=> TypeOK /\ LeaseInv /\ RenewerInv /\ NeverLost
    BY DEF HealthyInv
  <1>4. QED
    BY <1>1, <1>2, <1>3, TypeCorrect, PTL DEF Spec

\* At most one lifecycle operation of a sandbox is at work at a time, for
\* any number of replicas, until the first host misses its renewal budget.
THEOREM LeaseExclusive == Spec => []ExclusiveUntilStall
  <1>1. HealthyInv => ExclusiveUntilStall
    BY DEF HealthyInv, LeaseInv, Covered, ExclusiveUntilStall, Exclusive
  <1>2. QED
    BY <1>1, HealthyInvariant, PTL

\* Until then no renewal is refused, so no operation runs on after losing
\* its lease.
THEOREM LeaseNeverLost == Spec => []NeverLost
  <1>1. HealthyInv => NeverLost
    BY DEF HealthyInv
  <1>2. QED
    BY <1>1, HealthyInvariant, PTL

\* What holds whoever stalls: a deleted item carries no lease, only an
\* operation that acquired holds one, and a late renewal keeps no timer.
HolderInv ==
    /\ ~present => lease = None
    /\ \A o \in Op : phase[o] = "idle" => lease # o
    /\ \A o \in Op : renewer[o] = "late" => since[o] = 0

LEMMA HolderInvariant == Spec => []HolderInv
  <1>1. Init => HolderInv
    BY LeaseAssumption DEF Init, HolderInv
  <1>2. TypeOK /\ HolderInv /\ [Next]_vars => HolderInv'
    <2> SUFFICES ASSUME TypeOK, HolderInv, [Next]_vars
                 PROVE  HolderInv'
      OBVIOUS
    <2> USE LeaseAssumption DEF HolderInv, TypeOK, Phase, Renewer
    <2>1. ASSUME NEW o \in Op, Acquire(o) PROVE HolderInv'
      BY <2>1 DEF Expiry, Acquire
    <2>2. ASSUME NEW o \in Op, Renew(o) PROVE HolderInv'
      BY <2>2 DEF Expiry, Renew
    <2>3. ASSUME NEW o \in Op, RenewError(o) PROVE HolderInv'
      BY <2>3 DEF RenewError
    <2>4. ASSUME NEW o \in Op, Finish(o) PROVE HolderInv'
      BY <2>4 DEF Finish, TimersReset
    <2>5. ASSUME NEW o \in Op, Delete(o) PROVE HolderInv'
      BY <2>5 DEF Delete, TimersReset
    <2>6. ASSUME NEW o \in Op, Release(o) PROVE HolderInv'
      BY <2>6 DEF Release
    <2>7. ASSUME NEW o \in Op, LateRenew(o) PROVE HolderInv'
      BY <2>7 DEF Expiry, LateRenew
    <2>8. ASSUME NEW o \in Op, Crash(o) PROVE HolderInv'
      BY <2>8 DEF Crash, TimersReset
    <2>9. ASSUME NEW o \in Op, Stall(o) PROVE HolderInv'
      BY <2>9 DEF Stall
    <2>10. CASE Recreate
      BY <2>10 DEF Recreate
    <2>11. CASE Tick
      BY <2>11 DEF Tick
    <2>12. CASE UNCHANGED vars
      BY <2>12 DEF vars
    <2>13. QED
      BY <2>1, <2>2, <2>3, <2>4, <2>5, <2>6, <2>7, <2>8, <2>9, <2>10, <2>11,
         <2>12 DEF Next
  <1>3. QED
    BY <1>1, <1>2, TypeCorrect, PTL DEF Spec

\* Whatever stalls or crashes, a lease write never brings a deleted item
\* back.
THEOREM LeaseNoKeyOnlyItem == Spec => NoKeyOnlyItem
  <1>1. HolderInv /\ [Next]_vars
           => [~present /\ present' => lease' = None]_vars
    BY DEF HolderInv, Expiry, Next, vars, Acquire, CanAcquire, Renew, RenewError,
           Finish, Delete, Release, LateRenew, Crash, Stall, Recreate, Tick
  <1>2. QED
    BY <1>1, HolderInvariant, PTL DEF Spec, NoKeyOnlyItem

\* Whatever stalls or crashes, a late operation neither releases nor renews
\* the lease of the operation that replaced it.
THEOREM LeaseNoInterference == Spec => NoInterference
  <1>1. TypeOK /\ HolderInv /\ [Next]_vars => \A o \in Op : Undisturbed(o)
    <2> SUFFICES ASSUME TypeOK, HolderInv, [Next]_vars,
                        NEW o \in Op, lease = o
                 PROVE  Undisturbed(o)
      BY DEF Undisturbed
    <2> USE LeaseAssumption DEF HolderInv, TypeOK, Phase, Renewer, Undisturbed
    <2>0. rem \in Int /\ ~(rem > rem)
      BY DEF Floor
    <2>1. ASSUME NEW p \in Op, Acquire(p) PROVE Undisturbed(o)
      BY <2>1 DEF Expiry, Acquire, CanAcquire
    <2>2. ASSUME NEW p \in Op, Renew(p) PROVE Undisturbed(o)
      BY <2>0, <2>2 DEF Expiry, Renew, CanRenew
    <2>3. ASSUME NEW p \in Op, RenewError(p) PROVE Undisturbed(o)
      BY <2>0, <2>3 DEF RenewError
    <2>4. ASSUME NEW p \in Op, Finish(p) PROVE Undisturbed(o)
      BY <2>0, <2>4 DEF Finish
    <2>5. ASSUME NEW p \in Op, Delete(p) PROVE Undisturbed(o)
      BY <2>5 DEF Delete
    <2>6. ASSUME NEW p \in Op, Release(p) PROVE Undisturbed(o)
      BY <2>0, <2>6 DEF Release
    <2>7. ASSUME NEW p \in Op, LateRenew(p) PROVE Undisturbed(o)
      BY <2>0, <2>7 DEF Expiry, LateRenew, CanRenew
    <2>8. ASSUME NEW p \in Op, Crash(p) PROVE Undisturbed(o)
      BY <2>0, <2>8 DEF Crash
    <2>9. ASSUME NEW p \in Op, Stall(p) PROVE Undisturbed(o)
      BY <2>0, <2>9 DEF Stall
    <2>10. CASE Recreate
      BY <2>0, <2>10 DEF Recreate
    <2>11. CASE Tick
      <3>1. ~(rem' > rem)
        BY <2>0, <2>11 DEF Tick, Floor
      <3>2. QED
        BY <2>11, <3>1 DEF Tick
    <2>12. CASE UNCHANGED vars
      BY <2>0, <2>12 DEF vars
    <2>13. QED
      BY <2>1, <2>2, <2>3, <2>4, <2>5, <2>6, <2>7, <2>8, <2>9, <2>10, <2>11,
         <2>12 DEF Next
  <1>2. QED
    BY <1>1, TypeCorrect, HolderInvariant, PTL DEF Spec, NoInterference
=============================================================================
