-------------------------- MODULE GuestVolumeProofs --------------------------
(***************************************************************************)
(* Guests and the volume they run from, for every set of sandboxes, Spot   *)
(* hosts and standbys and every fault budget: a guest runs only where the  *)
(* volume is mounted (SandboxInv), a sandbox recorded as running runs      *)
(* (TruthInv), a volume that guests were recovered from is not deleted     *)
(* before its host (KeptInv), and no guest is started from an older copy   *)
(* than what it last wrote (CopyInv).  SandboxInv, TruthInv and CopyInv    *)
(* are about one sandbox: a step on another one leaves them alone.         *)
(***************************************************************************)
EXTENDS SpotRepatriationProofs

-----------------------------------------------------------------------------
(* One sandbox. *)

\* No guest of it runs on the first host, and no worker is about to start one
\* there or has just stopped one.
Gone(s) ==
    /\ vm[Source][s] # "running"
    /\ work[s].at = Source /\ work[s].kind = "suspend" => work[s].res # "ok"
    /\ work[s].at = Source /\ work[s].kind = "resume" => work[s].res # "none"

\* It left the first host and has no other yet.
Parked(s) ==
    /\ Gone(s)
    /\ rec[s].node \in {Source, None}
    /\ rec[s].state # "suspended"
    /\ Working(s) => work[s].at = Source

\* Its host is where it was recovered to, with the volume; what a worker still
\* does elsewhere comes too late.
AtHome(s) ==
    /\ rec[s].node = rec[s].tgt /\ mnt[rec[s].tgt] = Home
    /\ Working(s) => \/ work[s].at = rec[s].tgt
                     \/ work[s].at = Source /\ Gone(s)

\* A recovery has it, or the next one will.
InRecovery(s) ==
    \/ ck[s] = "written"
    \/ rec[s].state \in Recoverable
    \/ pass.pc \in RecoveryPc /\ s \in pass.view /\ job[s] # "ended"

\* Leases exclude the workers from a handoff until one is lost.
LeaseInv(s) ==
    /\ work[s].kind # "none" => lease[s] = "worker"
    /\ work[s].res # "none" => work[s].kind # "none"
    /\ pass.pc \in RepatriationPc \ {"lease"} /\ ~pass.lost /\ s \in pass.view
          => lease[s] = "pass"

\* A handoff works on all sandboxes of its host, and leaves none behind; those
\* that are not back yet are there or were deleted.
ViewInv(s) ==
    /\ pass.pc \in RepatriationPc \ {"lease"} /\ rec[s].tgt = pass.src
          => s \in pass.view
    /\ pass.pc \in RepatriationPc \ {"lease"} /\ s \in pass.view =>
          \/ rec[s].tgt = pass.src
          \/ rec[s].tgt = None /\ rec[s].node = None
          \/ job[s] = "ended"
    /\ pass.pc \in {"empty", "discard", "release", "terminate"}
          => rec[s].tgt # pass.src
    /\ pass.pc \in RepatriationPc /\ (rec[s].tgt = pass.src \/ s \in pass.view)
          => rec[s].state \notin Recoverable
    /\ pass.pc # "idle" /\ s \in pass.view => ck[s] = "ended"

\* What a handoff marked stays marked; once leases may be lost without notice,
\* nothing but a delete can start.
MarkedInv(s) ==
    /\ pass.pc = "checkpoint" /\ ~pass.lost /\ s \in pass.view
          => rec[s].state \notin Active
    /\ pass.pc \in Handing /\ rec[s].tgt = pass.src
          => rec[s].state \notin Active /\ ~Working(s)

\* A job in the pass and the record it has.
JobInv(s) ==
    /\ job[s] # "none" => s \in pass.view /\ pass.pc # "idle"
    /\ job[s] \in Node =>
          pass.pc \in {"resume", "restore"} /\ job[s] = pass.tgt
    /\ pass.pc = "resume" /\ s \in pass.view => job[s] # "none"
    /\ job[s] = "asked" => pass.pc = "resume"
    /\ pass.pc = "resume" /\ (job[s] = "asked" \/ job[s] \in Node) =>
          \/ rec[s].tgt = pass.tgt
          \/ rec[s].tgt = None /\ rec[s].state = "none"
    /\ pass.pc = "restore" /\ job[s] = "ended" => rec[s].tgt # pass.src

\* Where the record says it is, and where a worker works on it.
PlaceInv(s) ==
    /\ rec[s].tgt # Source
    /\ rec[s].tgt = None => rec[s].node \in {Source, None} \cup Standby
    /\ rec[s].tgt = None /\ Working(s) => work[s].at = rec[s].node
    /\ rec[s].node = None => rec[s].state \notin Active /\ ~Working(s)
    /\ Up(Source) => /\ rec[s].node \in {Source, None}
                     /\ Working(s) => work[s].at = Source
    /\ rec[s].tgt = None /\ rec[s].state = "none" => work[s].kind = "none"

\* What is recovered was checkpointed before.
EndedInv(s) ==
    /\ rec[s].state \in Recoverable \/ rec[s].tgt # None => ck[s] = "ended"
    /\ rec[s].orig \notin Recoverable

\* A worker stops a guest of the first host once.
StillInv(s) ==
    /\ work[s].at = Source /\ work[s].kind = "resume" /\ work[s].res = "none"
          => vm[Source][s] # "running"
    /\ work[s].at = Source /\ work[s].kind = "suspend" /\ work[s].res = "ok"
          => vm[Source][s] # "running"
    /\ rec[s].state = "suspended" /\ rec[s].tgt = None /\ rec[s].node = Source
          => vm[Source][s] # "running"
    /\ work[s].kind = "resume" /\ rec[s].tgt = None
          => rec[s].state # "suspended"

\* What a recovery has has left its host.
ParkedInv(s) == InRecovery(s) => Parked(s)

\* A recovered sandbox is where the volume is, unless it still waits.
HomeInv(s) ==
    rec[s].tgt # None /\ (rec[s].state \in Active \/ Working(s))
        => AtHome(s) \/ Parked(s)

\* A worker on a record that was brought back after its deletion (Ghost) goes
\* where the record says, and no pass has that sandbox.
GhostInv(s) ==
    Ghost(s) =>
        /\ work[s].kind # "none" => work[s].at = rec[s].node
        /\ work[s].kind = "delete" /\ work[s].res = "ok"
              => vm[rec[s].node][s] # "running"
        /\ pass.pc # "idle" => s \notin pass.view \/ job[s] = "ended"

\* Guests run from the volume.
GuestInv(s) ==
    \A n \in Node :
        vm[n][s] = "running" =>
            mnt[n] = Home \/ (Ghost(s) /\ n = rec[s].node)

\* All that is about one sandbox.
SandboxInv(s) ==
    /\ LeaseInv(s) /\ ViewInv(s) /\ MarkedInv(s) /\ JobInv(s)
    /\ PlaceInv(s) /\ EndedInv(s) /\ StillInv(s)
    /\ ParkedInv(s) /\ HomeInv(s) /\ GhostInv(s) /\ GuestInv(s)

-----------------------------------------------------------------------------
(* Steps that leave a sandbox alone. *)

\* Nothing happens to it, nor to the mounts and the pass.
LEMMA Untouched ==
    ASSUME NEW s \in Sandbox, SandboxInv(s), Same(s), UNCHANGED <<mnt, pass>>,
           Up(Source)' => Up(Source)
    PROVE  SandboxInv(s)'
<1>1. LeaseInv(s)' /\ ViewInv(s)' /\ MarkedInv(s)' /\ JobInv(s)'
    BY DEF SandboxInv, Same, LeaseInv, ViewInv, MarkedInv, JobInv, Working
<1>2. PlaceInv(s)' /\ EndedInv(s)' /\ StillInv(s)'
    BY PlacesAre DEF SandboxInv, Same, PlaceInv, EndedInv, StillInv, Working
<1>3. Parked(s)' <=> Parked(s)
    BY PlacesAre DEF Same, Parked, Gone, Working
<1>4. AtHome(s)' <=> AtHome(s)
    BY PlacesAre DEF Same, AtHome, Gone, Working
<1>5. ParkedInv(s)' /\ HomeInv(s)'
    BY <1>3, <1>4 DEF SandboxInv, Same, ParkedInv, HomeInv, InRecovery, Working
<1>6. GhostInv(s)' /\ GuestInv(s)'
    BY PlacesAre DEF SandboxInv, Same, GhostInv, GuestInv, Ghost
<1> QED
    BY <1>1, <1>2, <1>5, <1>6 DEF SandboxInv

\* The pass ends.
LEMMA LeftAtEnd ==
    ASSUME NEW s \in Sandbox, SandboxInv(s), Ends,
           rec'[s] = rec[s], work'[s] = work[s], ck'[s] = ck[s],
           \A n \in Node : vm'[n][s] = vm[n][s],
           UNCHANGED mnt, Up(Source)' => Up(Source)
    PROVE  SandboxInv(s)'
<1>1. LeaseInv(s)' /\ ViewInv(s)' /\ MarkedInv(s)' /\ JobInv(s)'
    BY PcsAre, HandingIs, PlacesAre
    DEF SandboxInv, Ends, LeaseInv, ViewInv, MarkedInv, JobInv
<1>2. PlaceInv(s)' /\ EndedInv(s)' /\ StillInv(s)'
    BY PlacesAre DEF SandboxInv, PlaceInv, EndedInv, StillInv, Working
<1>3. Parked(s)' <=> Parked(s)
    BY PlacesAre DEF Parked, Gone, Working
<1>4. AtHome(s)' <=> AtHome(s)
    BY PlacesAre DEF AtHome, Gone, Working
<1>5. ParkedInv(s)' /\ HomeInv(s)'
    BY <1>3, <1>4, PcsAre
    DEF SandboxInv, Ends, ParkedInv, HomeInv, InRecovery, Working
<1>6. GhostInv(s)' /\ GuestInv(s)'
    BY PlacesAre DEF SandboxInv, Ends, GhostInv, GuestInv, Ghost
<1> QED
    BY <1>1, <1>2, <1>5, <1>6 DEF SandboxInv

\* The pass moves on: what is about the sandbox alone stays.
LEMMA LeftOnMove ==
    ASSUME NEW s \in Sandbox, SandboxInv(s),
           rec'[s] = rec[s], work'[s] = work[s], ck'[s] = ck[s],
           \A n \in Node : vm'[n][s] = vm[n][s],
           UNCHANGED mnt, Up(Source)' => Up(Source)
    PROVE  /\ PlaceInv(s)' /\ EndedInv(s)' /\ StillInv(s)'
           /\ HomeInv(s)' /\ GuestInv(s)'
           /\ Parked(s)' <=> Parked(s)
<1>1. PlaceInv(s)' /\ EndedInv(s)' /\ StillInv(s)'
    BY PlacesAre DEF SandboxInv, PlaceInv, EndedInv, StillInv, Working
<1>2. Parked(s)' <=> Parked(s)
    BY PlacesAre DEF Parked, Gone, Working
<1>3. AtHome(s)' <=> AtHome(s)
    BY PlacesAre DEF AtHome, Gone, Working
<1>4. HomeInv(s)'
    BY <1>2, <1>3 DEF SandboxInv, HomeInv, Working
<1>5. GuestInv(s)'
    BY DEF SandboxInv, GuestInv, Ghost
<1> QED
    BY <1>1, <1>2, <1>4, <1>5

\* A handoff is never onto the first host, and while another host than that
\* has the volume mounted it is down.
LEMMA TargetIs ==
    ASSUME TypeOK, VolumeInv, pass.pc \in Handing
    PROVE  pass.tgt \in Spot /\ pass.tgt # Source /\ pass.src \in Standby
    BY HandingIs, PlacesAre, PassPlaces
    DEF VolumeInv, SourceInv, HandoffPassInv, Session, Replaced

LEMMA SourceDown ==
    ASSUME VolumeInv, NEW n \in Node \ {Source}, mnt[n] = Home
    PROVE  ~Up(Source) /\ mnt[Source] # Home
    BY PlacesAre DEF VolumeInv, MountedInv

LEMMA RecordPlaces ==
    ASSUME TypeOK, NEW s \in Sandbox
    PROVE  /\ rec[s].tgt \in Place /\ rec[s].node \in Place
           /\ work[s].at \in Place
    BY DEF TypeOK, RecoveryTypeOK, Record, Operation

\* Only a pass that resumes guests has jobs.
LEMMA NoJobs ==
    ASSUME TypeOK, NEW s \in Sandbox,
           pass.pc \notin {"resume", "restore", "release", "terminate"}
    PROVE  job[s] = "none"
    BY DEF TypeOK, NoJob

\* An action on one sandbox.
LEMMA SettledVolume ==
    ASSUME VolumeInv, NEW s \in Sandbox, Settled, Others(s),
           rec'[s].sess \in {Source, None},
           UNCHANGED ck \/ evac[Source] # "calm"
    PROVE  VolumeInv'
<1>1. \A r \in Sandbox : rec'[r].sess \in {Source, None}
    BY DEF Others, Same, VolumeInv, SourceInv
<1> QED
    BY <1>1, VolumeStays DEF Settled, VolumeInv, SourceInv

-----------------------------------------------------------------------------
(* A guest runs only where the volume is mounted: steps on one sandbox. *)

LEMMA CkStartGuest ==
    ASSUME TypeOK, VolumeInv, NEW n \in Spot, NEW s \in Sandbox, SandboxInv(s),
           CkStart(n, s)
    PROVE  SandboxInv(s)'
<1>1. /\ Settled /\ UNCHANGED <<vm, work, lease, job>> /\ Up(Source)
      /\ ck[s] = "listed" /\ ck'[s] = "open"
      /\ rec'[s] = rec[s] \/ rec'[s].state = "checkpointing"
      /\ rec'[s] = rec[s] \/ rec[s].state # "none"
      /\ rec'[s].tgt = rec[s].tgt /\ rec'[s].node = rec[s].node
      /\ rec'[s].orig = rec[s].orig
    BY CkStartDoes, PlacesAre, StatesAre DEF JournalIs
<1>2. Up(Source)' <=> Up(Source)
    BY <1>1 DEF Settled, Up
<1>3. LeaseInv(s)' /\ JobInv(s)' /\ EndedInv(s)' /\ StillInv(s)'
    BY <1>1
    DEF SandboxInv, LeaseInv, Settled, JobInv, EndedInv, Recoverable, StillInv
<1>4. ViewInv(s)'
    BY <1>1 DEF SandboxInv, ViewInv, Settled, Recoverable
<1>5. MarkedInv(s)' /\ PlaceInv(s)' /\ HomeInv(s)'
    BY <1>1, HandingIs
    DEF SandboxInv, MarkedInv, Working, Settled, PlaceInv, HomeInv, AtHome,
        Parked, Gone
<1>6. ParkedInv(s)'
    BY <1>1
    DEF SandboxInv, ParkedInv, InRecovery, Parked, Gone, Working, Settled,
        Recoverable
<1>7. GhostInv(s)' /\ GuestInv(s)'
    BY <1>1 DEF SandboxInv, GhostInv, Ghost, Settled, GuestInv
<1> QED
    BY <1>3, <1>4, <1>5, <1>6, <1>7 DEF SandboxInv

LEMMA CkWriteGuest ==
    ASSUME TypeOK, VolumeInv, NEW n \in Spot, NEW s \in Sandbox, SandboxInv(s),
           CkWrite(n, s)
    PROVE  SandboxInv(s)'
<1>1. /\ Settled /\ UNCHANGED <<rec, work, lease, job>> /\ Up(Source)
      /\ ck[s] = "open" /\ ck'[s] = "written" /\ vm[Source][s] = "running"
      /\ \A m \in Node :
             vm'[m][s] = IF m = Source THEN "suspended" ELSE vm[m][s]
    BY CkWriteDoes, PlacesAre, StatesAre DEF VmIs
<1>2. Up(Source)' <=> Up(Source)
    BY <1>1 DEF Settled, Up
<1>3. LeaseInv(s)' /\ ViewInv(s)' /\ MarkedInv(s)' /\ JobInv(s)'
    BY <1>1
    DEF SandboxInv, LeaseInv, Settled, ViewInv, MarkedInv, Working, JobInv
<1>4. PlaceInv(s)' /\ EndedInv(s)' /\ StillInv(s)' /\ HomeInv(s)'
    BY <1>1
    DEF SandboxInv, PlaceInv, Working, EndedInv, StillInv, HomeInv, AtHome,
        Parked, Gone, Settled
<1>5. ParkedInv(s)'
    BY <1>1, HandingIs, PlacesAre
    DEF SandboxInv, PlaceInv, StillInv, ParkedInv, HomeInv, Parked, AtHome,
        Gone, Working
<1>6. GhostInv(s)'
    BY <1>1, PlacesAre DEF SandboxInv, GhostInv, Ghost, Settled
<1>7. GuestInv(s)'
    BY <1>1 DEF SandboxInv, GuestInv, Ghost, Settled
<1> QED
    BY <1>3, <1>4, <1>5, <1>6, <1>7 DEF SandboxInv

LEMMA CkDoneGuest ==
    ASSUME TypeOK, VolumeInv, NEW n \in Spot, NEW s \in Sandbox, SandboxInv(s),
           CkDone(n, s)
    PROVE  SandboxInv(s)'
<1>1. /\ Settled /\ UNCHANGED <<vm, work, lease, job>> /\ Up(Source)
      /\ ck[s] = "written" /\ ck'[s] = "ended"
      /\ rec'[s] = rec[s] \/ rec'[s].state = "checkpointed"
      /\ rec'[s] = rec[s] \/ rec[s].state # "none"
      /\ rec'[s].tgt = rec[s].tgt /\ rec'[s].node = rec[s].node
      /\ rec'[s].orig = rec[s].orig
    BY CkDoneDoes, PlacesAre, StatesAre DEF JournalIs
<1>2. Up(Source)' <=> Up(Source)
    BY <1>1 DEF Settled, Up
<1>3. LeaseInv(s)' /\ JobInv(s)' /\ EndedInv(s)' /\ StillInv(s)'
    BY <1>1 DEF SandboxInv, LeaseInv, Settled, JobInv, EndedInv, StillInv
<1>4. ViewInv(s)'
    BY <1>1, PcsAre, PlacesAre, PassPlaces
    DEF SandboxInv, ViewInv, Settled, EndedInv
<1>5. MarkedInv(s)' /\ PlaceInv(s)' /\ HomeInv(s)'
    BY <1>1, HandingIs
    DEF SandboxInv, MarkedInv, Working, Settled, PlaceInv, HomeInv, AtHome,
        Parked, Gone
<1>6. ParkedInv(s)' /\ GhostInv(s)' /\ GuestInv(s)'
    BY <1>1
    DEF SandboxInv, ParkedInv, InRecovery, Parked, Gone, Working, GhostInv,
        Ghost, Settled, GuestInv
<1> QED
    BY <1>3, <1>4, <1>5, <1>6 DEF SandboxInv

LEMMA CkFailGuest ==
    ASSUME TypeOK, VolumeInv, NEW n \in Spot, NEW s \in Sandbox, SandboxInv(s),
           CkFail(n, s)
    PROVE  SandboxInv(s)'
<1>1. /\ Settled /\ UNCHANGED <<vm, work, lease, job>> /\ Up(Source)
      /\ ck[s] = "open" /\ ck'[s] = "ended"
      /\ rec'[s] = rec[s] \/ rec'[s].state = "recovery_failed"
      /\ rec'[s] = rec[s] \/ rec[s].state # "none"
      /\ rec'[s].tgt = rec[s].tgt /\ rec'[s].node = rec[s].node
      /\ rec'[s].orig = rec[s].orig
    BY CkFailDoes, PlacesAre, StatesAre DEF JournalIs
<1>2. Up(Source)' <=> Up(Source)
    BY <1>1 DEF Settled, Up
<1>3. LeaseInv(s)' /\ JobInv(s)' /\ EndedInv(s)' /\ StillInv(s)'
    BY <1>1 DEF SandboxInv, LeaseInv, Settled, JobInv, EndedInv, StillInv
<1>4. ViewInv(s)'
    BY <1>1 DEF SandboxInv, ViewInv, Settled, Recoverable
<1>5. MarkedInv(s)' /\ PlaceInv(s)' /\ HomeInv(s)'
    BY <1>1, HandingIs
    DEF SandboxInv, MarkedInv, Working, Settled, PlaceInv, HomeInv, AtHome,
        Parked, Gone
<1>6. ParkedInv(s)'
    BY <1>1
    DEF SandboxInv, ParkedInv, InRecovery, Parked, Gone, Working, Settled,
        Recoverable
<1>7. GhostInv(s)' /\ GuestInv(s)'
    BY <1>1 DEF SandboxInv, GhostInv, Ghost, Settled, GuestInv
<1> QED
    BY <1>3, <1>4, <1>5, <1>6, <1>7 DEF SandboxInv

LEMMA WorkStartGuest ==
    ASSUME TypeOK, VolumeInv, NEW s \in Sandbox,
           NEW k \in {"suspend", "resume", "delete"}, SandboxInv(s),
           WorkStart(s, k)
    PROVE  SandboxInv(s)'
<1>1. /\ Settled /\ UNCHANGED <<vm, ck, job>>
      /\ lease[s] = "none" /\ lease'[s] = "worker" /\ MayStart(k, rec[s].state)
      /\ work'[s].kind = k /\ work'[s].res = "none"
      /\ work'[s].at = IF k = "resume" THEN ResumeNode(rec[s]) ELSE rec[s].node
      /\ k = "resume" => Up(ResumeNode(rec[s]))
      /\ rec'[s].state = Marked(k) /\ rec'[s].tgt = rec[s].tgt
      /\ rec'[s].node = rec[s].node
      /\ rec'[s].orig = rec[s].orig
    BY WorkStartDoes, PlacesAre, StatesAre DEF RecIs
<1>2. Up(Source)' <=> Up(Source)
    BY <1>1 DEF Settled, Up
<1>3. LeaseInv(s)' /\ GuestInv(s)'
    BY <1>1 DEF SandboxInv, LeaseInv, Settled, GuestInv, Ghost
<1>4. ViewInv(s)'
    BY <1>1 DEF SandboxInv, ViewInv, Recoverable, Settled, Marked
<1>5. MarkedInv(s)'
    BY <1>1, HandingIs
    DEF SandboxInv, MarkedInv, Working, Settled, MayStart, Marked
<1>6. JobInv(s)'
    BY <1>1 DEF SandboxInv, JobInv, Settled, MayStart
<1>7. PlaceInv(s)'
    BY <1>1, HandingIs
    DEF SandboxInv, PlaceInv, HomeInv, Parked, AtHome, Working, Settled,
        MayStart, Marked, ResumeNode, Up
<1>8. EndedInv(s)'
    BY <1>1 DEF SandboxInv, EndedInv, Recoverable, Marked
<1>9. StillInv(s)'
    BY <1>1 DEF SandboxInv, PlaceInv, StillInv, MayStart, Marked, ResumeNode
<1>10. ParkedInv(s)'
    BY <1>1, HandingIs
    DEF SandboxInv, PlaceInv, ParkedInv, Parked, InRecovery, Gone, Working,
        Recoverable, Settled, MayStart, Marked
<1>11. HomeInv(s)'
    BY <1>1, HandingIs
    DEF SandboxInv, PlaceInv, HomeInv, Parked, AtHome, Gone, Working, Settled,
        MayStart, Marked, ResumeNode
<1>12. GhostInv(s)'
    BY <1>1 DEF SandboxInv, GhostInv, Ghost, Settled, ResumeNode
<1> QED
    BY <1>3, <1>4, <1>5, <1>6, <1>7, <1>8, <1>9, <1>10, <1>11, <1>12
    DEF SandboxInv

LEMMA WorkCallGuest ==
    ASSUME TypeOK, VolumeInv, NEW s \in Sandbox, SandboxInv(s), WorkCall(s)
    PROVE  SandboxInv(s)'
<1>1. /\ Settled /\ UNCHANGED <<rec, lease, ck, job>>
      /\ work[s].kind # "none" /\ work[s].res = "none"
      /\ work'[s].kind = work[s].kind /\ work'[s].at = work[s].at
      /\ \/ /\ work'[s].res = "ok" /\ Up(work[s].at) /\ work[s].at \in Node
            /\ \/ /\ work[s].kind = "suspend"
                  /\ vm[work[s].at][s] = "running"
                  /\ \A m \in Node :
                         vm'[m][s] = IF m = work[s].at THEN "suspended" ELSE vm[m][s]
               \/ /\ work[s].kind = "resume"
                  /\ \A m \in Node :
                         vm'[m][s] = IF m = work[s].at THEN "running" ELSE vm[m][s]
               \/ /\ work[s].kind = "delete"
                  /\ \A m \in Node :
                         vm'[m][s] = IF m = work[s].at THEN "none" ELSE vm[m][s]
         \/ work'[s].res = "error" /\ \A m \in Node : vm'[m][s] = vm[m][s]
    BY WorkCallDoes, PlacesAre, StatesAre DEF VmIs
<1>2. Up(Source)' <=> Up(Source)
    BY <1>1 DEF Settled, Up
<1>3. LeaseInv(s)' /\ ViewInv(s)' /\ MarkedInv(s)' /\ JobInv(s)'
    BY <1>1
    DEF SandboxInv, LeaseInv, Settled, ViewInv, MarkedInv, Working, JobInv
<1>4. PlaceInv(s)'
    BY <1>1, <1>2 DEF SandboxInv, PlaceInv, Working
<1>5. EndedInv(s)' /\ GhostInv(s)'
    BY <1>1 DEF SandboxInv, EndedInv, GhostInv, Ghost, Settled
<1>6. StillInv(s)' /\ ParkedInv(s)' /\ HomeInv(s)'
    BY <1>1, PlacesAre
    DEF SandboxInv, StillInv, ParkedInv, InRecovery, Parked, Gone, Working,
        Settled, HomeInv, AtHome
<1>7. GuestInv(s)'
    BY <1>1
    DEF SandboxInv, PlaceInv, HomeInv, GuestInv, Ghost, Parked, AtHome, Working,
        VolumeInv, MountedInv, Settled
<1> QED
    BY <1>3, <1>4, <1>5, <1>6, <1>7 DEF SandboxInv

LEMMA WorkDoneGuest ==
    ASSUME TypeOK, VolumeInv, NEW s \in Sandbox, SandboxInv(s), WorkDone(s)
    PROVE  SandboxInv(s)'
<1>1. /\ Settled /\ UNCHANGED <<vm, ck, job>>
      /\ work[s].res # "none" /\ lease'[s] = "none"
      /\ work'[s].kind = "none" /\ work'[s].res = "none"
      /\ \/ /\ work[s].kind = "suspend" /\ work[s].res = "ok"
            /\ \/ rec'[s] = rec[s]
               \/ /\ rec[s].state = "suspending"
                  /\ RecIs(s, "suspended", rec[s].tgt, rec[s].node)
         \/ /\ work[s].kind = "resume" /\ work[s].res = "ok"
            /\ RecIs(s, "running", rec[s].tgt, work[s].at)
         \/ /\ work[s].kind = "delete" /\ work[s].res = "ok"
            /\ rec'[s] = NoRecord
         \/ /\ work[s].kind = "suspend" /\ work[s].res = "error"
            /\ RecIs(s, "running", rec[s].tgt, rec[s].node)
         \/ /\ work[s].kind # "suspend" /\ work[s].res = "error"
            /\ RecIs(s, "failed", rec[s].tgt, rec[s].node)
    BY WorkDoneDoes, PlacesAre, StatesAre
<1>2. Up(Source)' <=> Up(Source)
    BY <1>1 DEF Settled, Up
<1>3. LeaseInv(s)'
    BY <1>1 DEF SandboxInv, LeaseInv, Settled
<1>4. ViewInv(s)'
    BY <1>1, PcsAre, PlacesAre, PassPlaces, NoRecordIs
    DEF SandboxInv, ViewInv, PlaceInv, Working, Recoverable, Settled, RecIs
<1>5. MarkedInv(s)'
    BY <1>1, PcsAre, HandingIs, NoRecordIs
    DEF SandboxInv, LeaseInv, MarkedInv, Working, Settled, RecIs
<1>6. JobInv(s)'
    BY <1>1, HandingIs, PlacesAre, PassPlaces, NoRecordIs
    DEF SandboxInv, LeaseInv, JobInv, PlaceInv, Settled, RecIs
<1>7. PlaceInv(s)'
    BY <1>1, <1>2, HandingIs, PlacesAre, NoRecordIs
    DEF SandboxInv, PlaceInv, HomeInv, Parked, AtHome, Working, RecIs
<1>8. EndedInv(s)'
    BY <1>1, NoRecordIs DEF SandboxInv, EndedInv, Recoverable, RecIs
<1>9. StillInv(s)'
    BY <1>1, NoRecordIs DEF SandboxInv, PlaceInv, StillInv, Working, RecIs
<1>10. ParkedInv(s)'
    BY <1>1, NoRecordIs
    DEF SandboxInv, ParkedInv, Parked, InRecovery, Gone, Working, Recoverable,
        Settled, RecIs
<1>11. HomeInv(s)'
    BY <1>1, HandingIs, NoRecordIs
    DEF SandboxInv, HomeInv, Parked, AtHome, Gone, Working, Settled, RecIs
<1>12. GhostInv(s)'
    BY <1>1, PlacesAre, NoRecordIs
    DEF SandboxInv, PlaceInv, GhostInv, Ghost, Working, Settled, RecIs
<1>13. GuestInv(s)'
    BY <1>1 DEF SandboxInv, GhostInv, GuestInv, Ghost, Settled, RecIs
<1> QED
    BY <1>3, <1>4, <1>5, <1>6, <1>7, <1>8, <1>9, <1>10, <1>11, <1>12, <1>13
    DEF SandboxInv

LEMMA RcStartGuest ==
    ASSUME TypeOK, VolumeInv, NEW s \in Sandbox, SandboxInv(s), RcStart(s)
    PROVE  SandboxInv(s)'
<1>1. /\ Settled /\ UNCHANGED <<vm, work, lease, ck>>
      /\ pass.pc = "resume" /\ job[s] = "todo" /\ job'[s] = "asked"
      /\ rec'[s].state = "recovering" /\ rec'[s].tgt = pass.tgt
      /\ rec'[s].node = rec[s].node
      /\ rec'[s].orig = rec[s].orig
    BY RcStartDoes, PlacesAre, StatesAre DEF RecIs
<1>2. Up(Source)' <=> Up(Source)
    BY <1>1 DEF Settled, Up
<1>3. LeaseInv(s)' /\ StillInv(s)'
    BY <1>1 DEF SandboxInv, LeaseInv, Settled, StillInv
<1>4. ViewInv(s)' /\ ParkedInv(s)'
    BY <1>1, PcsAre
    DEF SandboxInv, ViewInv, Settled, ParkedInv, InRecovery, Parked, Gone,
        Working, JobInv
<1>5. MarkedInv(s)'
    BY <1>1, HandingIs DEF SandboxInv, MarkedInv, Settled
<1>6. JobInv(s)'
    BY <1>1, PlacesAre DEF SandboxInv, JobInv, Settled
<1>7. PlaceInv(s)'
    BY <1>1, <1>2, HandingIs, PlacesAre
    DEF SandboxInv, PlaceInv, Working, VolumeInv, RecoveryPassInv
<1>8. EndedInv(s)'
    BY <1>1 DEF SandboxInv, ViewInv, JobInv, EndedInv
<1>9. HomeInv(s)'
    BY <1>1, PcsAre
    DEF SandboxInv, JobInv, ParkedInv, HomeInv, Parked, InRecovery, Gone,
        Working
<1>10. GhostInv(s)'
    BY <1>1, PlacesAre
    DEF SandboxInv, GhostInv, Ghost, VolumeInv, RecoveryPassInv
<1>11. GuestInv(s)'
    BY <1>1 DEF SandboxInv, JobInv, GhostInv, GuestInv, Settled
<1> QED
    BY <1>3, <1>4, <1>5, <1>6, <1>7, <1>8, <1>9, <1>10, <1>11 DEF SandboxInv

LEMMA RcBootGuest ==
    ASSUME TypeOK, VolumeInv, NEW s \in Sandbox, SandboxInv(s), RcBoot(s)
    PROVE  SandboxInv(s)'
<1>1. /\ Settled /\ UNCHANGED <<rec, work, lease, ck>>
      /\ pass.pc = "resume" /\ job[s] = "asked" /\ job'[s] = rec[s].tgt
      /\ rec[s].tgt \in Node
      /\ \A m \in Node :
             vm'[m][s] = IF m = rec[s].tgt THEN "running" ELSE vm[m][s]
    BY RcBootDoes, PlacesAre, StatesAre DEF VmIs
<1>2. Up(Source)' <=> Up(Source)
    BY <1>1 DEF Settled, Up
<1>3. LeaseInv(s)' /\ ViewInv(s)' /\ MarkedInv(s)' /\ EndedInv(s)'
    BY <1>1
    DEF SandboxInv, LeaseInv, Settled, ViewInv, MarkedInv, Working, EndedInv
<1>4. JobInv(s)' /\ StillInv(s)' /\ GhostInv(s)'
    BY <1>1, PlacesAre
    DEF SandboxInv, JobInv, Settled, StillInv, PlaceInv, GhostInv, Ghost
<1>5. PlaceInv(s)'
    BY <1>1, <1>2 DEF SandboxInv, PlaceInv, Working
<1>6. ParkedInv(s)'
    BY <1>1, PlacesAre
    DEF SandboxInv, ParkedInv, InRecovery, Parked, Gone, Working, Settled,
        PlaceInv
<1>7. HomeInv(s)'
    BY <1>1, PlacesAre
    DEF SandboxInv, HomeInv, AtHome, Parked, Gone, Working, Settled, PlaceInv
<1>8. GuestInv(s)'
    BY <1>1, PlacesAre
    DEF SandboxInv, JobInv, GuestInv, Ghost, VolumeInv, RecoveryPassInv, Settled
<1> QED
    BY <1>3, <1>4, <1>5, <1>6, <1>7, <1>8 DEF SandboxInv

LEMMA RcDoneGuest ==
    ASSUME TypeOK, VolumeInv, NEW s \in Sandbox, SandboxInv(s), RcDone(s)
    PROVE  SandboxInv(s)'
<1>1. /\ Settled /\ UNCHANGED <<vm, work, lease, ck>>
      /\ pass.pc = "resume" /\ job[s] \in Node /\ job'[s] = "ended"
      /\ rec'[s].state = "running" /\ rec'[s].tgt = rec[s].tgt
      /\ rec'[s].node = job[s]
      /\ rec'[s].orig = rec[s].orig
    BY RcDoneDoes, PlacesAre, StatesAre DEF RecIs
<1>2. Up(Source)' <=> Up(Source)
    BY <1>1 DEF Settled, Up
<1>3. LeaseInv(s)' /\ EndedInv(s)' /\ StillInv(s)'
    BY <1>1 DEF SandboxInv, LeaseInv, Settled, EndedInv, Recoverable, StillInv
<1>4. ViewInv(s)'
    BY <1>1 DEF SandboxInv, ViewInv, Settled, Recoverable
<1>5. MarkedInv(s)'
    BY <1>1, HandingIs DEF SandboxInv, MarkedInv, Settled
<1>6. JobInv(s)'
    BY <1>1, PlacesAre DEF SandboxInv, JobInv, Settled
<1>7. PlaceInv(s)'
    BY <1>1, <1>2, PlacesAre
    DEF SandboxInv, JobInv, PlaceInv, Working, VolumeInv, MountedInv,
        RecoveryPassInv
<1>8. ParkedInv(s)'
    BY <1>1, PlacesAre
    DEF SandboxInv, ViewInv, JobInv, ParkedInv, InRecovery, Recoverable
<1>9. HomeInv(s)'
    BY <1>1
    DEF SandboxInv, JobInv, HomeInv, Parked, AtHome, Gone, Working, VolumeInv,
        RecoveryPassInv, Settled
<1>10. GhostInv(s)'
    BY <1>1, PlacesAre DEF SandboxInv, JobInv, PlaceInv, GhostInv, Ghost
<1>11. GuestInv(s)'
    BY <1>1, PlacesAre DEF SandboxInv, JobInv, GhostInv, GuestInv, Settled
<1> QED
    BY <1>3, <1>4, <1>5, <1>6, <1>7, <1>8, <1>9, <1>10, <1>11 DEF SandboxInv

LEMMA RcFailGuest ==
    ASSUME TypeOK, VolumeInv, NEW s \in Sandbox, SandboxInv(s), RcFail(s)
    PROVE  SandboxInv(s)'
<1>1. /\ Settled /\ UNCHANGED <<vm, work, lease, ck>>
      /\ pass.pc = "resume" /\ job[s] = "asked" /\ job'[s] = "ended"
      /\ rec'[s].state = "recovery_failed" /\ rec'[s].tgt = rec[s].tgt
      /\ rec'[s].node = rec[s].node
      /\ rec'[s].orig = rec[s].orig
    BY RcFailDoes, PlacesAre, StatesAre DEF RecIs
<1>2. Up(Source)' <=> Up(Source)
    BY <1>1 DEF Settled, Up
<1>3. LeaseInv(s)' /\ EndedInv(s)' /\ StillInv(s)' /\ ParkedInv(s)'
    BY <1>1
    DEF SandboxInv, LeaseInv, Settled, EndedInv, Recoverable, StillInv,
        ParkedInv, InRecovery, Parked, Gone, Working
<1>4. ViewInv(s)'
    BY <1>1 DEF SandboxInv, ViewInv, Settled, Recoverable
<1>5. MarkedInv(s)' /\ HomeInv(s)'
    BY <1>1, HandingIs
    DEF SandboxInv, MarkedInv, Settled, HomeInv, AtHome, Parked, Gone, Working
<1>6. JobInv(s)'
    BY <1>1, PlacesAre DEF SandboxInv, JobInv, Settled
<1>7. PlaceInv(s)'
    BY <1>1, <1>2, HandingIs DEF SandboxInv, PlaceInv, Working
<1>8. GhostInv(s)' /\ GuestInv(s)'
    BY <1>1 DEF SandboxInv, GhostInv, Ghost, GuestInv, Settled
<1> QED
    BY <1>3, <1>4, <1>5, <1>6, <1>7, <1>8 DEF SandboxInv

LEMMA RpSaveGuest ==
    ASSUME TypeOK, VolumeInv, NEW s \in Sandbox, SandboxInv(s), RpSave(s)
    PROVE  SandboxInv(s)'
<1>1. /\ Settled /\ UNCHANGED <<rec, work, lease, ck, job>>
      /\ pass.pc = "checkpoint" /\ s \in pass.view
      /\ pass.src \in Node
      /\ \A m \in Node :
             vm'[m][s] = IF m = pass.src THEN "suspended" ELSE vm[m][s]
    BY RpSaveDoes, PlacesAre, StatesAre DEF VmIs
<1>2. Up(Source)' <=> Up(Source)
    BY <1>1 DEF Settled, Up
<1>3. LeaseInv(s)' /\ ViewInv(s)' /\ MarkedInv(s)' /\ JobInv(s)'
    BY <1>1
    DEF SandboxInv, LeaseInv, Settled, ViewInv, MarkedInv, Working, JobInv
<1>4. PlaceInv(s)'
    BY <1>1, <1>2 DEF SandboxInv, PlaceInv, Working
<1>5. EndedInv(s)' /\ GuestInv(s)'
    BY <1>1 DEF SandboxInv, EndedInv, GuestInv, Ghost, Settled
<1>6. StillInv(s)' /\ ParkedInv(s)' /\ HomeInv(s)' /\ GhostInv(s)'
    BY <1>1, PlacesAre
    DEF SandboxInv, StillInv, ParkedInv, InRecovery, Parked, Gone, Working,
        Settled, HomeInv, AtHome, GhostInv, Ghost
<1> QED
    BY <1>3, <1>4, <1>5, <1>6 DEF SandboxInv

LEMMA RpFlagGuest ==
    ASSUME TypeOK, VolumeInv, NEW s \in Sandbox, SandboxInv(s), RpFlag(s)
    PROVE  SandboxInv(s)'
<1>1. /\ Settled /\ UNCHANGED <<vm, work, lease, ck, job>>
      /\ pass.pc = "checkpoint" /\ s \in pass.view
      /\ rec'[s].state = "repatriating" /\ rec'[s].tgt = rec[s].tgt
      /\ rec'[s].node = rec[s].node
      /\ rec'[s].orig = rec[s].orig
    BY RpFlagDoes, PlacesAre, StatesAre DEF FlaggedIs
<1>2. Up(Source)' <=> Up(Source)
    BY <1>1 DEF Settled, Up
<1>3. LeaseInv(s)' /\ JobInv(s)' /\ EndedInv(s)' /\ StillInv(s)'
    BY <1>1
    DEF SandboxInv, LeaseInv, Settled, JobInv, EndedInv, Recoverable, StillInv
<1>4. ViewInv(s)'
    BY <1>1 DEF SandboxInv, ViewInv, Settled, Recoverable
<1>5. MarkedInv(s)' /\ HomeInv(s)'
    BY <1>1, HandingIs
    DEF SandboxInv, MarkedInv, Settled, HomeInv, AtHome, Parked, Gone, Working
<1>6. PlaceInv(s)'
    BY <1>1, <1>2, HandingIs DEF SandboxInv, PlaceInv, Working
<1>7. ParkedInv(s)'
    BY <1>1
    DEF SandboxInv, ParkedInv, InRecovery, Parked, Gone, Working, Settled,
        Recoverable
<1>8. GhostInv(s)' /\ GuestInv(s)'
    BY <1>1 DEF SandboxInv, GhostInv, Ghost, GuestInv, Settled
<1> QED
    BY <1>3, <1>4, <1>5, <1>6, <1>7, <1>8 DEF SandboxInv

LEMMA RpReturnGuest ==
    ASSUME TypeOK, VolumeInv, NEW s \in Sandbox, SandboxInv(s), RpReturn(s)
    PROVE  SandboxInv(s)'
<1>1. /\ Settled /\ UNCHANGED <<vm, work, lease, ck>>
      /\ pass.pc = "restore" /\ job[s] = "todo" /\ job'[s] = "ended"
      /\ rec'[s].state = rec[s].orig /\ rec'[s].tgt = pass.tgt
      /\ rec'[s].node = pass.tgt
      /\ rec'[s].orig = rec[s].orig
    BY RpReturnDoes, PlacesAre, StatesAre DEF RecIs
<1>2. Up(Source)' <=> Up(Source)
    BY <1>1 DEF Settled, Up
<1>3. LeaseInv(s)'
    BY <1>1 DEF SandboxInv, LeaseInv, Settled
<1>4. ViewInv(s)'
    BY <1>1, HandingIs, PlacesAre, TargetIs
    DEF SandboxInv, ViewInv, Settled, EndedInv
<1>5. MarkedInv(s)'
    BY <1>1, PlacesAre, TargetIs DEF SandboxInv, MarkedInv, Settled
<1>6. JobInv(s)' /\ StillInv(s)'
    BY <1>1, HandingIs, PlacesAre, TargetIs
    DEF SandboxInv, JobInv, Settled, StillInv
<1>7. PlaceInv(s)'
    BY <1>1, <1>2, HandingIs, PlacesAre, TargetIs
    DEF SandboxInv, PlaceInv, VolumeInv, MountedInv, HandoffPassInv
<1>8. EndedInv(s)'
    BY <1>1 DEF SandboxInv, ViewInv, JobInv, EndedInv
<1>9. ParkedInv(s)'
    BY <1>1 DEF SandboxInv, ViewInv, JobInv, EndedInv, ParkedInv, InRecovery
<1>10. HomeInv(s)'
    BY <1>1, HandingIs
    DEF SandboxInv, ViewInv, MarkedInv, JobInv, PlaceInv, HomeInv, AtHome,
        Working, VolumeInv, HandoffPassInv, Settled
<1>11. GhostInv(s)'
    BY <1>1, PlacesAre DEF SandboxInv, GhostInv, Ghost
<1>12. GuestInv(s)'
    BY <1>1 DEF SandboxInv, JobInv, GhostInv, GuestInv, Settled
<1> QED
    BY <1>3, <1>4, <1>5, <1>6, <1>7, <1>8, <1>9, <1>10, <1>11, <1>12
    DEF SandboxInv

LEMMA RpBootGuest ==
    ASSUME TypeOK, VolumeInv, NEW s \in Sandbox, SandboxInv(s), RpBoot(s)
    PROVE  SandboxInv(s)'
<1>1. /\ Settled /\ UNCHANGED <<rec, work, lease, ck>>
      /\ pass.pc = "restore" /\ job[s] = "todo" /\ job'[s] = pass.tgt
      /\ pass.tgt \in Node
      /\ \A m \in Node :
             vm'[m][s] = IF m = pass.tgt THEN "running" ELSE vm[m][s]
    BY RpBootDoes, PlacesAre, StatesAre DEF VmIs
<1>2. Up(Source)' <=> Up(Source)
    BY <1>1 DEF Settled, Up
<1>3. LeaseInv(s)' /\ ViewInv(s)' /\ MarkedInv(s)' /\ EndedInv(s)'
    BY <1>1
    DEF SandboxInv, LeaseInv, Settled, ViewInv, MarkedInv, Working, EndedInv
<1>4. JobInv(s)'
    BY <1>1, PlacesAre DEF SandboxInv, JobInv, Settled
<1>5. PlaceInv(s)'
    BY <1>1, <1>2 DEF SandboxInv, PlaceInv, Working
<1>6. StillInv(s)'
    BY <1>1, HandingIs
    DEF SandboxInv, ViewInv, MarkedInv, JobInv, PlaceInv, StillInv, Working
<1>7. ParkedInv(s)'
    BY <1>1, HandingIs, PlacesAre, PassPlaces
    DEF SandboxInv, ViewInv, JobInv, ParkedInv, InRecovery, Settled
<1>8. HomeInv(s)'
    BY <1>1, HandingIs
    DEF SandboxInv, ViewInv, MarkedInv, JobInv, HomeInv, Working
<1>9. GhostInv(s)'
    BY <1>1 DEF SandboxInv, GhostInv, Ghost, JobInv
<1>10. GuestInv(s)'
    BY <1>1 DEF SandboxInv, GuestInv, Ghost, Settled, VolumeInv, HandoffPassInv
<1> QED
    BY <1>3, <1>4, <1>5, <1>6, <1>7, <1>8, <1>9, <1>10 DEF SandboxInv

LEMMA RpBootFailsGuest ==
    ASSUME TypeOK, VolumeInv, NEW s \in Sandbox, SandboxInv(s), RpBootFails(s)
    PROVE  SandboxInv(s)'
<1>1. /\ Settled /\ UNCHANGED <<vm, rec, work, lease, ck>>
      /\ pass.pc = "restore" /\ job[s] = "todo" /\ job'[s] = "failed"
    BY RpBootFailsDoes, PlacesAre, StatesAre
<1>2. Up(Source)' <=> Up(Source)
    BY <1>1 DEF Settled, Up
<1>3. LeaseInv(s)' /\ ViewInv(s)' /\ MarkedInv(s)' /\ EndedInv(s)'
    BY <1>1
    DEF SandboxInv, LeaseInv, Settled, ViewInv, MarkedInv, Working, EndedInv
<1>4. JobInv(s)'
    BY <1>1, PlacesAre DEF SandboxInv, JobInv, Settled
<1>5. PlaceInv(s)'
    BY <1>1, <1>2 DEF SandboxInv, PlaceInv, Working
<1>6. StillInv(s)' /\ ParkedInv(s)' /\ HomeInv(s)' /\ GhostInv(s)'
    BY <1>1
    DEF SandboxInv, StillInv, ParkedInv, InRecovery, Parked, Gone, Working,
        Settled, HomeInv, AtHome, GhostInv, Ghost
<1>7. GuestInv(s)'
    BY <1>1 DEF SandboxInv, GuestInv, Ghost, Settled
<1> QED
    BY <1>3, <1>4, <1>5, <1>6, <1>7 DEF SandboxInv

LEMMA RpDoneGuest ==
    ASSUME TypeOK, VolumeInv, NEW s \in Sandbox, SandboxInv(s), RpDone(s)
    PROVE  SandboxInv(s)'
<1>1. /\ Settled /\ UNCHANGED <<vm, work, lease, ck>>
      /\ pass.pc = "restore" /\ job[s] \in Node /\ job'[s] = "ended"
      /\ rec'[s].state = "running" /\ rec'[s].tgt = pass.tgt
      /\ rec'[s].node = pass.tgt
      /\ rec'[s].orig = rec[s].orig
    BY RpDoneDoes, PlacesAre, StatesAre DEF RecIs
<1>2. Up(Source)' <=> Up(Source)
    BY <1>1 DEF Settled, Up
<1>3. LeaseInv(s)' /\ StillInv(s)'
    BY <1>1 DEF SandboxInv, LeaseInv, Settled, StillInv
<1>4. ViewInv(s)'
    BY <1>1, HandingIs, PlacesAre, TargetIs
    DEF SandboxInv, ViewInv, Settled, Recoverable
<1>5. MarkedInv(s)'
    BY <1>1, PlacesAre, TargetIs DEF SandboxInv, MarkedInv, Settled
<1>6. JobInv(s)'
    BY <1>1, HandingIs, PlacesAre, TargetIs DEF SandboxInv, JobInv, Settled
<1>7. PlaceInv(s)'
    BY <1>1, <1>2, HandingIs, PlacesAre, TargetIs
    DEF SandboxInv, PlaceInv, VolumeInv, MountedInv, HandoffPassInv
<1>8. EndedInv(s)'
    BY <1>1, PlacesAre DEF SandboxInv, ViewInv, JobInv, EndedInv
<1>9. ParkedInv(s)'
    BY <1>1, PlacesAre
    DEF SandboxInv, ViewInv, JobInv, ParkedInv, InRecovery, Recoverable
<1>10. HomeInv(s)'
    BY <1>1, HandingIs, PlacesAre
    DEF SandboxInv, ViewInv, MarkedInv, JobInv, PlaceInv, HomeInv, AtHome,
        Working, VolumeInv, HandoffPassInv, Settled
<1>11. GhostInv(s)'
    BY <1>1, PlacesAre DEF SandboxInv, GhostInv, Ghost
<1>12. GuestInv(s)'
    BY <1>1, PlacesAre DEF SandboxInv, JobInv, GhostInv, GuestInv, Settled
<1> QED
    BY <1>3, <1>4, <1>5, <1>6, <1>7, <1>8, <1>9, <1>10, <1>11, <1>12
    DEF SandboxInv

-----------------------------------------------------------------------------
(* Steps of the hosts and of a pass. *)

LEMMA HeartbeatGuests ==
    ASSUME TypeOK, VolumeInv, NEW s \in Sandbox, SandboxInv(s), NEW n \in Node,
           Heartbeat(n)
    PROVE  SandboxInv(s)'
    BY HeartbeatDoes, Untouched DEF Kept, Same, Up

LEMMA HeartbeatExpireGuests ==
    ASSUME TypeOK, VolumeInv, NEW s \in Sandbox, SandboxInv(s), NEW n \in Node,
           HeartbeatExpire(n)
    PROVE  SandboxInv(s)'
    BY HeartbeatExpireDoes, Untouched DEF Kept, Same, Up

LEMMA DeadlineGuests ==
    ASSUME TypeOK, VolumeInv, NEW s \in Sandbox, SandboxInv(s), NEW n \in Spot,
           Deadline(n)
    PROVE  SandboxInv(s)'
    BY DeadlineDoes, Untouched DEF Kept, Same, Up

LEMMA StandbyLostGuests ==
    ASSUME TypeOK, VolumeInv, NEW s \in Sandbox, SandboxInv(s),
           NEW n \in Standby, StandbyLost(n)
    PROVE  SandboxInv(s)'
    BY StandbyLostDoes, Untouched DEF Kept, Same, Up

LEMMA StandbyJoinsGuests ==
    ASSUME TypeOK, VolumeInv, NEW s \in Sandbox, SandboxInv(s),
           NEW n \in Standby, StandbyJoins(n)
    PROVE  SandboxInv(s)'
    BY StandbyJoinsDoes, Untouched DEF Kept, Same, Up

LEMMA RcEndGuests ==
    ASSUME TypeOK, VolumeInv, NEW s \in Sandbox, SandboxInv(s), RcEnd
    PROVE  SandboxInv(s)'
    BY RcEndDoes, LeftAtEnd, PlacesAre DEF Still, Up

LEMMA CrashGuests ==
    ASSUME TypeOK, VolumeInv, NEW s \in Sandbox, SandboxInv(s), Crash
    PROVE  SandboxInv(s)'
    BY CrashDoes, LeftAtEnd, PlacesAre DEF Still, Up

LEMMA RpNoGuestGuests ==
    ASSUME TypeOK, VolumeInv, NEW s \in Sandbox, SandboxInv(s), RpNoGuest
    PROVE  SandboxInv(s)'
    BY RpNoGuestDoes, LeftAtEnd, PlacesAre DEF Still, Up

LEMMA DetectGuests ==
    ASSUME TypeOK, VolumeInv, NEW s \in Sandbox, SandboxInv(s), NEW n \in Spot,
           Detect(n)
    PROVE  SandboxInv(s)'
<1>1. /\ UNCHANGED <<host, mnt, vm, rec, work, lease, job, pass>>
      /\ Up(Source) /\ Up(Source)' /\ ck[s] = "none"
      /\ ck'[s] \in {"none", "listed"}
    BY DetectDoes, PlacesAre, StatesAre DEF Up
<1>2. LeaseInv(s)' /\ ViewInv(s)' /\ MarkedInv(s)' /\ JobInv(s)'
    BY <1>1 DEF SandboxInv, LeaseInv, ViewInv, MarkedInv, Working, JobInv
<1>3. PlaceInv(s)' /\ EndedInv(s)' /\ StillInv(s)' /\ ParkedInv(s)'
    BY <1>1
    DEF SandboxInv, PlaceInv, Working, EndedInv, StillInv, ParkedInv,
        InRecovery, Parked, Gone
<1>4. HomeInv(s)' /\ GhostInv(s)' /\ GuestInv(s)'
    BY <1>1
    DEF SandboxInv, HomeInv, AtHome, Parked, Gone, Working, GhostInv, Ghost,
        GuestInv
<1> QED
    BY <1>2, <1>3, <1>4 DEF SandboxInv

LEMMA PreserveGuests ==
    ASSUME TypeOK, VolumeInv, NEW s \in Sandbox, SandboxInv(s), NEW n \in Spot,
           Preserve(n)
    PROVE  SandboxInv(s)'
<1>1. UNCHANGED <<host, mnt, vm, work, lease, job, pass>> /\ Up(Source)
    BY PreserveDoes
<1>2. CASE Same(s)
    BY <1>1, <1>2, Untouched DEF Up
<1>3. CASE /\ ck[s] = "listed" /\ ck'[s] = "ended"
           /\ JournalIs(s, "recovery_failed", Source)
    <2>1. /\ UNCHANGED <<host, mnt, vm, work, lease, job, pass>> /\ Up(Source)
          /\ Up(Source)'
          /\ ck[s] = "listed" /\ ck'[s] = "ended"
          /\ rec'[s] = rec[s] \/ rec'[s].state = "recovery_failed"
          /\ rec'[s] = rec[s] \/ rec[s].state # "none"
          /\ rec'[s].tgt = rec[s].tgt /\ rec'[s].node = rec[s].node
          /\ rec'[s].orig = rec[s].orig
        BY <1>1, <1>3 DEF JournalIs, Up
    <2>2. LeaseInv(s)' /\ ViewInv(s)' /\ JobInv(s)' /\ EndedInv(s)'
        BY <2>1 DEF SandboxInv, LeaseInv, ViewInv, Recoverable, JobInv, EndedInv
    <2>3. MarkedInv(s)' /\ PlaceInv(s)' /\ HomeInv(s)'
        BY <2>1, HandingIs
        DEF SandboxInv, MarkedInv, Working, PlaceInv, HomeInv, AtHome, Parked, Gone
    <2>4. StillInv(s)' /\ ParkedInv(s)' /\ GhostInv(s)' /\ GuestInv(s)'
        BY <2>1
        DEF SandboxInv, StillInv, ParkedInv, InRecovery, Parked, Gone, Working,
            Recoverable, GhostInv, Ghost, GuestInv
    <2> QED
        BY <2>2, <2>3, <2>4 DEF SandboxInv
<1> QED
    BY <1>2, <1>3, PreserveDoes

LEMMA TerminateGuests ==
    ASSUME TypeOK, VolumeInv, NEW s \in Sandbox, SandboxInv(s), NEW n \in Spot,
           Terminate(n)
    PROVE  SandboxInv(s)'
<1>1. /\ UNCHANGED <<rec, work, lease, job, pass>>
      /\ Up(Source) /\ ~Up(Source)'
      /\ ck'[s] = IF ck[s] = "none" THEN "none" ELSE "ended"
      /\ \A m \in Node :
            /\ mnt'[m] = IF m = Source THEN None ELSE mnt[m]
            /\ vm'[m][s] = IF m = Source THEN "none" ELSE vm[m][s]
    BY TerminateDoes, PlacesAre, StatesAre
<1>2. LeaseInv(s)' /\ ViewInv(s)' /\ MarkedInv(s)' /\ JobInv(s)'
    BY <1>1 DEF SandboxInv, LeaseInv, ViewInv, MarkedInv, Working, JobInv
<1>3. PlaceInv(s)' /\ EndedInv(s)' /\ GuestInv(s)'
    BY <1>1 DEF SandboxInv, PlaceInv, Working, EndedInv, GuestInv, Ghost
<1>4. StillInv(s)' /\ ParkedInv(s)' /\ HomeInv(s)' /\ GhostInv(s)'
    BY <1>1, PlacesAre
    DEF SandboxInv, StillInv, ParkedInv, InRecovery, Parked, Gone, Working,
        HomeInv, AtHome, PlaceInv, GhostInv, Ghost
<1> QED
    BY <1>2, <1>3, <1>4 DEF SandboxInv

LEMMA RcReadGuests ==
    ASSUME TypeOK, VolumeInv, NEW s \in Sandbox, SandboxInv(s), NEW n \in Spot,
           RcRead(n)
    PROVE  SandboxInv(s)'
<1>1. /\ UNCHANGED vm /\ rec'[s] = rec[s] /\ work'[s] = work[s]
      /\ ck'[s] = ck[s]
      /\ UNCHANGED <<lease, job>>
      /\ pass.pc = "idle" /\ pass'.pc = "lookup"
      /\ s \in pass'.view <=> s \in ViewOf(Source)
    BY RcReadDoes, PlacesAre, StatesAre DEF Still
<1>2. /\ PlaceInv(s)' /\ EndedInv(s)' /\ StillInv(s)'
        /\ HomeInv(s)' /\ GuestInv(s)' /\ (Parked(s)' <=> Parked(s))
    BY RcReadDoes, LeftOnMove, PlacesAre DEF Still, Up
<1>3. LeaseInv(s)'
    BY <1>1, PcsAre DEF SandboxInv, LeaseInv
<1>4. ViewInv(s)'
    BY <1>1, PcsAre DEF SandboxInv, ViewInv, ViewOf, EndedInv
<1>5. MarkedInv(s)'
    BY <1>1, HandingIs DEF SandboxInv, MarkedInv
<1>6. JobInv(s)' /\ ParkedInv(s)'
    BY <1>1
    DEF SandboxInv, JobInv, ParkedInv, InRecovery, Parked, Gone, Working, ViewOf
<1>7. GhostInv(s)'
    BY <1>1, PlacesAre
    DEF SandboxInv, GhostInv, Ghost, ViewOf, ParkedInv, InRecovery, Parked
<1> QED
    BY <1>2, <1>3, <1>4, <1>5, <1>6, <1>7 DEF SandboxInv

LEMMA RcLookupGuests ==
    ASSUME TypeOK, VolumeInv, NEW s \in Sandbox, SandboxInv(s), RcLookup
    PROVE  SandboxInv(s)'
<1>1. /\ UNCHANGED <<host, mnt, vm, work, ck>> /\ pass.pc = "lookup"
      /\ Up(Source)' <=> Up(Source)
      /\ \/ Ends
         \/ /\ pass'.pc \in {"mark", "claim"} /\ pass'.view = pass.view
            /\ UNCHANGED <<lease, job>>
      /\ rec'[s].tgt = rec[s].tgt /\ rec'[s].node = rec[s].node
      /\ rec'[s].orig = rec[s].orig
      /\ rec'[s] = rec[s] \/ rec'[s].state = "recovery_failed"
    BY RcLookupDoes DEF RecIs, Up
<1>2. LeaseInv(s)' /\ ViewInv(s)'
    BY <1>1, PcsAre DEF SandboxInv, LeaseInv, Ends, ViewInv
<1>3. MarkedInv(s)' /\ PlaceInv(s)' /\ HomeInv(s)'
    BY <1>1, HandingIs
    DEF SandboxInv, MarkedInv, Ends, PlaceInv, Working, HomeInv, AtHome, Parked,
        Gone
<1>4. JobInv(s)'
    BY <1>1, NoJobs DEF SandboxInv, JobInv, Ends
<1>5. EndedInv(s)' /\ StillInv(s)' /\ GhostInv(s)' /\ GuestInv(s)'
    BY <1>1
    DEF SandboxInv, EndedInv, Recoverable, StillInv, GhostInv, Ghost, Ends,
        GuestInv
<1>6. ParkedInv(s)'
    BY <1>1, PcsAre
    DEF SandboxInv, ParkedInv, InRecovery, Parked, Gone, Working, Ends,
        Recoverable
<1> QED
    BY <1>2, <1>3, <1>4, <1>5, <1>6 DEF SandboxInv

LEMMA RcClaimGuests ==
    ASSUME TypeOK, VolumeInv, NEW s \in Sandbox, SandboxInv(s), RcClaim
    PROVE  SandboxInv(s)'
<1>1. CASE Ends
    BY <1>1, RcClaimDoes, LeftAtEnd, PlacesAre DEF Still, Up, Ends, PassIs
<1>2. CASE ~Ends
    <2>1. /\ UNCHANGED vm /\ rec'[s] = rec[s] /\ work'[s] = work[s] /\ ck'[s] = ck[s]
          /\ pass.pc = "claim" /\ pass'.pc = "mark" /\ pass'.view = pass.view
          /\ UNCHANGED <<lease, job>>
        BY <1>2, RcClaimDoes, PlacesAre, StatesAre DEF Still
    <2>2. /\ PlaceInv(s)' /\ EndedInv(s)' /\ StillInv(s)'
            /\ HomeInv(s)' /\ GuestInv(s)' /\ (Parked(s)' <=> Parked(s))
        BY RcClaimDoes, LeftOnMove, PlacesAre DEF Still, Up
    <2>3. LeaseInv(s)' /\ ViewInv(s)' /\ ParkedInv(s)'
        BY <2>1, PcsAre
        DEF SandboxInv, LeaseInv, ViewInv, ParkedInv, InRecovery, Parked, Gone,
            Working
    <2>4. MarkedInv(s)'
        BY <2>1, HandingIs DEF SandboxInv, MarkedInv
    <2>5. JobInv(s)' /\ GhostInv(s)'
        BY <2>1 DEF SandboxInv, JobInv, GhostInv, Ghost
    <2> QED
        BY <2>2, <2>3, <2>4, <2>5 DEF SandboxInv
<1> QED
    BY <1>1, <1>2

LEMMA RcMarkGuests ==
    ASSUME TypeOK, VolumeInv, NEW s \in Sandbox, SandboxInv(s), RcMark
    PROVE  SandboxInv(s)'
<1>1. /\ UNCHANGED <<host, mnt, vm, work, lease, ck, job>>
      /\ Up(Source)' <=> Up(Source)
      /\ pass.pc = "mark" /\ pass'.pc = "attach"
      /\ pass'.view = pass.view /\ pass'.tgt = pass.tgt
      /\ pass.tgt \in Standby
      /\ s \in pass.view => /\ rec'[s].state = "attaching"
                            /\ rec'[s].tgt = pass.tgt
                            /\ rec'[s].node = rec[s].node
                            /\ rec'[s].orig = rec[s].orig
      /\ s \notin pass.view => rec'[s] = rec[s]
    BY RcMarkDoes, PlacesAre, StatesAre DEF RecIs, Up
<1>2. LeaseInv(s)' /\ ViewInv(s)'
    BY <1>1, PcsAre DEF SandboxInv, LeaseInv, ViewInv
<1>3. MarkedInv(s)'
    BY <1>1, HandingIs DEF SandboxInv, MarkedInv
<1>4. JobInv(s)' /\ EndedInv(s)' /\ StillInv(s)'
    BY <1>1 DEF SandboxInv, JobInv, EndedInv, ViewInv, StillInv
<1>5. PlaceInv(s)'
    BY <1>1, HandingIs, PlacesAre DEF SandboxInv, PlaceInv, Working
<1>6. ParkedInv(s)'
    BY <1>1, PcsAre, NoJobs
    DEF SandboxInv, ParkedInv, InRecovery, Parked, Gone, Working
<1>7. HomeInv(s)'
    BY <1>1, PcsAre, NoJobs
    DEF SandboxInv, HomeInv, AtHome, Parked, Gone, Working, ParkedInv,
        InRecovery
<1>8. GhostInv(s)'
    BY <1>1, PlacesAre DEF SandboxInv, GhostInv, Ghost
<1>9. GuestInv(s)'
    BY <1>1, NoJobs DEF SandboxInv, GuestInv, Ghost, GhostInv
<1> QED
    BY <1>2, <1>3, <1>4, <1>5, <1>6, <1>7, <1>8, <1>9 DEF SandboxInv

LEMMA RcAttachGuests ==
    ASSUME TypeOK, VolumeInv, NEW s \in Sandbox, SandboxInv(s), RcAttach
    PROVE  SandboxInv(s)'
<1>1. CASE Ends
    BY <1>1, RcAttachDoes, LeftAtEnd, PlacesAre DEF Still, Up, Ends, PassIs
<1>2. CASE ~Ends
    <2>1. /\ UNCHANGED vm /\ rec'[s] = rec[s] /\ work'[s] = work[s] /\ ck'[s] = ck[s]
          /\ pass.pc = "attach" /\ pass'.pc = "mount" /\ pass'.view = pass.view
          /\ UNCHANGED <<lease, job>>
        BY <1>2, RcAttachDoes, PlacesAre, StatesAre DEF Still
    <2>2. /\ PlaceInv(s)' /\ EndedInv(s)' /\ StillInv(s)'
            /\ HomeInv(s)' /\ GuestInv(s)' /\ (Parked(s)' <=> Parked(s))
        BY RcAttachDoes, LeftOnMove, PlacesAre DEF Still, Up
    <2>3. LeaseInv(s)' /\ ViewInv(s)' /\ ParkedInv(s)'
        BY <2>1, PcsAre
        DEF SandboxInv, LeaseInv, ViewInv, ParkedInv, InRecovery, Parked, Gone,
            Working
    <2>4. MarkedInv(s)'
        BY <2>1, HandingIs DEF SandboxInv, MarkedInv
    <2>5. JobInv(s)' /\ GhostInv(s)'
        BY <2>1 DEF SandboxInv, JobInv, GhostInv, Ghost
    <2> QED
        BY <2>2, <2>3, <2>4, <2>5 DEF SandboxInv
<1> QED
    BY <1>1, <1>2

LEMMA RcMountGuests ==
    ASSUME TypeOK, VolumeInv, NEW s \in Sandbox, SandboxInv(s), RcMount
    PROVE  SandboxInv(s)'
<1>1. CASE Ends
    BY <1>1, RcMountDoes, LeftAtEnd, PlacesAre DEF Still, Up, Ends, PassIs
<1>2. CASE ~Ends
    <2>1. /\ UNCHANGED <<host, vm, rec, work, lease, ck>>
          /\ Up(Source)' <=> Up(Source)
          /\ pass.pc = "mount" /\ pass'.pc = "resume" /\ pass'.view = pass.view
          /\ pass'.tgt = pass.tgt
          /\ pass.tgt \in Standby
          /\ \A m \in Node :
                mnt'[m] = IF m = pass.tgt THEN Home ELSE mnt[m]
          /\ job'[s] = IF s \in pass.view THEN "todo" ELSE "none"
        BY <1>2, RcMountDoes, PlacesAre, StatesAre DEF Up, Held, TypeOK
    <2>2. LeaseInv(s)' /\ ViewInv(s)'
        BY <2>1, PcsAre DEF SandboxInv, LeaseInv, ViewInv
    <2>3. MarkedInv(s)'
        BY <2>1, HandingIs DEF SandboxInv, MarkedInv
    <2>4. JobInv(s)'
        BY <2>1, PlacesAre DEF SandboxInv, JobInv
    <2>5. PlaceInv(s)' /\ EndedInv(s)' /\ StillInv(s)' /\ GuestInv(s)'
        BY <2>1
        DEF SandboxInv, PlaceInv, Working, EndedInv, StillInv, GuestInv, Ghost
    <2>6. ParkedInv(s)'
        BY <2>1, PcsAre, NoJobs
        DEF SandboxInv, ParkedInv, InRecovery, Parked, Gone, Working
    <2>7. HomeInv(s)'
        BY <2>1, PlacesAre, RecordPlaces
        DEF SandboxInv, HomeInv, AtHome, Parked, Gone, Working
    <2>8. GhostInv(s)'
        BY <2>1, NoJobs DEF SandboxInv, GhostInv, Ghost
    <2> QED
        BY <2>2, <2>3, <2>4, <2>5, <2>6, <2>7, <2>8 DEF SandboxInv
<1> QED
    BY <1>1, <1>2

LEMMA RpReadGuests ==
    ASSUME TypeOK, VolumeInv, NEW s \in Sandbox, SandboxInv(s),
           NEW n \in Standby, RpRead(n)
    PROVE  SandboxInv(s)'
<1>1. /\ UNCHANGED vm /\ rec'[s] = rec[s] /\ work'[s] = work[s]
      /\ ck'[s] = ck[s]
      /\ pass.pc = "idle" /\ pass'.pc = "lease" /\ pass'.view = {}
      /\ UNCHANGED <<lease, job>> /\ pass'.src = n
      /\ rec[s].tgt = n => rec[s].state \notin Recoverable
    BY RpReadDoes, PlacesAre, StatesAre DEF Still, Owned
<1>2. /\ PlaceInv(s)' /\ EndedInv(s)' /\ StillInv(s)'
        /\ HomeInv(s)' /\ GuestInv(s)' /\ (Parked(s)' <=> Parked(s))
    BY RpReadDoes, LeftOnMove, PlacesAre DEF Still, Up
<1>3. LeaseInv(s)' /\ ViewInv(s)' /\ JobInv(s)' /\ ParkedInv(s)'
    BY <1>1
    DEF SandboxInv, LeaseInv, ViewInv, JobInv, ParkedInv, InRecovery, Parked,
        Gone, Working
<1>4. MarkedInv(s)'
    BY <1>1, HandingIs DEF SandboxInv, MarkedInv
<1>5. GhostInv(s)'
    BY <1>1 DEF SandboxInv, GhostInv, Ghost
<1> QED
    BY <1>2, <1>3, <1>4, <1>5 DEF SandboxInv

LEMMA RpLeaseGuests ==
    ASSUME TypeOK, VolumeInv, NEW s \in Sandbox, SandboxInv(s), RpLease
    PROVE  SandboxInv(s)'
<1>1. CASE Ends
    BY <1>1, RpLeaseDoes, LeftAtEnd, PlacesAre DEF Still, Up, Ends, PassIs
<1>2. CASE ~Ends
    <2>1. /\ UNCHANGED vm /\ rec'[s] = rec[s] /\ work'[s] = work[s] /\ ck'[s] = ck[s]
          /\ pass.pc = "lease" /\ pass'.pc \in {"empty", "target"}
          /\ pass'.src = pass.src /\ pass.src \in Standby
          /\ s \in pass'.view <=> rec[s].tgt = pass.src
          /\ pass'.pc = "empty" => rec[s].tgt # pass.src
          /\ rec[s].tgt = pass.src => lease[s] = "none" /\ lease'[s] = "pass"
          /\ rec[s].tgt # pass.src => lease'[s] = lease[s]
          /\ UNCHANGED job
        BY <1>2, RpLeaseDoes, PlacesAre, StatesAre, PcsAre
        DEF Still, Owned, TypeOK, RepatriationPc
    <2>2. /\ PlaceInv(s)' /\ EndedInv(s)' /\ StillInv(s)'
            /\ HomeInv(s)' /\ GuestInv(s)' /\ (Parked(s)' <=> Parked(s))
        BY RpLeaseDoes, LeftOnMove, PlacesAre DEF Still, Up
    <2>3. LeaseInv(s)'
        BY <2>1 DEF SandboxInv, LeaseInv
    <2>4. ViewInv(s)'
        BY <2>1, PcsAre, PlacesAre DEF SandboxInv, ViewInv, EndedInv
    <2>5. MarkedInv(s)'
        BY <2>1, HandingIs DEF SandboxInv, MarkedInv
    <2>6. JobInv(s)'
        BY <2>1, NoJobs DEF SandboxInv, JobInv
    <2>7. ParkedInv(s)'
        BY <2>1, PcsAre
        DEF SandboxInv, ParkedInv, InRecovery, Parked, Gone, Working
    <2>8. GhostInv(s)'
        BY <2>1, PlacesAre DEF SandboxInv, GhostInv, Ghost
    <2> QED
        BY <2>2, <2>3, <2>4, <2>5, <2>6, <2>7, <2>8 DEF SandboxInv
<1> QED
    BY <1>1, <1>2

LEMMA LeaseLostGuests ==
    ASSUME TypeOK, VolumeInv, NEW s \in Sandbox, SandboxInv(s), LeaseLost
    PROVE  SandboxInv(s)'
<1>1. /\ UNCHANGED vm /\ rec'[s] = rec[s] /\ work'[s] = work[s]
      /\ ck'[s] = ck[s]
      /\ pass.pc \in RepatriationPc /\ UNCHANGED job
      /\ pass'.pc = pass.pc /\ pass'.src = pass.src /\ pass'.tgt = pass.tgt
      /\ pass'.view = pass.view /\ pass'.lost
      /\ lease'[s] = IF lease[s] = "pass" THEN "none" ELSE lease[s]
    BY LeaseLostDoes, PlacesAre, StatesAre DEF Still, PassIs
<1>2. /\ PlaceInv(s)' /\ EndedInv(s)' /\ StillInv(s)'
        /\ HomeInv(s)' /\ GuestInv(s)' /\ (Parked(s)' <=> Parked(s))
    BY LeaseLostDoes, LeftOnMove, PlacesAre DEF Still, Up
<1>3. LeaseInv(s)' /\ ViewInv(s)' /\ MarkedInv(s)' /\ JobInv(s)'
    BY <1>1 DEF SandboxInv, LeaseInv, ViewInv, MarkedInv, Working, JobInv
<1>4. ParkedInv(s)' /\ GhostInv(s)'
    BY <1>1
    DEF SandboxInv, ParkedInv, InRecovery, Parked, Gone, Working, GhostInv,
        Ghost
<1> QED
    BY <1>2, <1>3, <1>4 DEF SandboxInv

LEMMA RpEmptyGuests ==
    ASSUME TypeOK, VolumeInv, NEW s \in Sandbox, SandboxInv(s), RpEmpty
    PROVE  SandboxInv(s)'
<1>1. CASE Ends
    BY <1>1, RpEmptyDoes, LeftAtEnd, PlacesAre DEF Still, Up, Ends, PassIs
<1>2. CASE ~Ends
    <2>1. /\ UNCHANGED vm /\ rec'[s] = rec[s] /\ work'[s] = work[s] /\ ck'[s] = ck[s]
          /\ pass.pc = "empty" /\ pass'.pc = "discard"
          /\ pass'.src = pass.src /\ pass'.view = pass.view
          /\ pass'.tgt = pass.tgt /\ (pass'.lost <=> pass.lost)
          /\ UNCHANGED <<lease, job>>
        BY <1>2, RpEmptyDoes, PlacesAre, StatesAre DEF Still, PassIs
    <2>2. /\ PlaceInv(s)' /\ EndedInv(s)' /\ StillInv(s)'
            /\ HomeInv(s)' /\ GuestInv(s)' /\ (Parked(s)' <=> Parked(s))
        BY RpEmptyDoes, LeftOnMove, PlacesAre DEF Still, Up
    <2>3. LeaseInv(s)' /\ ViewInv(s)' /\ ParkedInv(s)'
        BY <2>1, PcsAre
        DEF SandboxInv, LeaseInv, ViewInv, ParkedInv, InRecovery, Parked, Gone,
            Working
    <2>4. MarkedInv(s)'
        BY <2>1, HandingIs DEF SandboxInv, MarkedInv
    <2>5. JobInv(s)' /\ GhostInv(s)'
        BY <2>1 DEF SandboxInv, JobInv, GhostInv, Ghost
    <2> QED
        BY <2>2, <2>3, <2>4, <2>5 DEF SandboxInv
<1> QED
    BY <1>1, <1>2

LEMMA RpDiscardGuests ==
    ASSUME TypeOK, VolumeInv, NEW s \in Sandbox, SandboxInv(s), RpDiscard
    PROVE  SandboxInv(s)'
<1>1. /\ UNCHANGED <<host, rec, work, ck>>
      /\ Up(Source)' <=> Up(Source)
      /\ pass.pc = "discard" /\ pass.src \in Standby
      /\ vm[pass.src][s] # "running" \/ UNCHANGED mnt
      /\ \A m \in Node :
            /\ mnt'[m] = mnt[m] \/ m = pass.src
            /\ \/ vm'[m][s] = vm[m][s]
               \/ vm[m][s] = "suspended" /\ vm'[m][s] = "none"
      /\ \/ Ends
         \/ /\ pass'.pc = "terminate" /\ pass'.src = pass.src
            /\ pass'.view = pass.view /\ pass'.tgt = pass.tgt
            /\ (pass'.lost <=> pass.lost) /\ UNCHANGED <<lease, job>>
    BY RpDiscardDoes, PlacesAre DEF PassIs, RunningOn, Up
<1>2. LeaseInv(s)' /\ ViewInv(s)'
    BY <1>1, PcsAre DEF SandboxInv, LeaseInv, Ends, ViewInv
<1>3. MarkedInv(s)'
    BY <1>1, HandingIs DEF SandboxInv, MarkedInv, Ends
<1>4. JobInv(s)'
    BY <1>1, NoJobs DEF SandboxInv, JobInv, Ends
<1>5. PlaceInv(s)' /\ EndedInv(s)' /\ GuestInv(s)'
    BY <1>1 DEF SandboxInv, PlaceInv, Working, EndedInv, GuestInv, Ghost
<1>6. StillInv(s)' /\ GhostInv(s)'
    BY <1>1, PlacesAre DEF SandboxInv, StillInv, GhostInv, Ghost, Ends
<1>7. ParkedInv(s)'
    BY <1>1, PcsAre, PlacesAre
    DEF SandboxInv, ParkedInv, InRecovery, Parked, Gone, Working, Ends
<1>8. HomeInv(s)'
    BY <1>1, PlacesAre, RecordPlaces
    DEF SandboxInv, HomeInv, AtHome, Parked, Gone, Working, ViewInv
<1> QED
    BY <1>2, <1>3, <1>4, <1>5, <1>6, <1>7, <1>8 DEF SandboxInv

LEMMA RpTargetGuests ==
    ASSUME TypeOK, VolumeInv, NEW s \in Sandbox, SandboxInv(s), RpTarget
    PROVE  SandboxInv(s)'
<1>1. CASE Ends
    BY <1>1, RpTargetDoes, LeftAtEnd, PlacesAre DEF Still, Up, Ends, PassIs
<1>2. CASE ~Ends
    <2>1. /\ UNCHANGED vm /\ rec'[s] = rec[s] /\ work'[s] = work[s] /\ ck'[s] = ck[s]
          /\ pass.pc = "target" /\ pass'.pc = "mark2" /\ pass'.src = pass.src
          /\ pass'.view = pass.view /\ pass'.lost = pass.lost
          /\ UNCHANGED <<lease, job>>
        BY <1>2, RpTargetDoes, PlacesAre, StatesAre DEF Still
    <2>2. /\ PlaceInv(s)' /\ EndedInv(s)' /\ StillInv(s)'
            /\ HomeInv(s)' /\ GuestInv(s)' /\ (Parked(s)' <=> Parked(s))
        BY RpTargetDoes, LeftOnMove, PlacesAre DEF Still, Up
    <2>3. LeaseInv(s)' /\ ViewInv(s)' /\ ParkedInv(s)'
        BY <2>1, PcsAre
        DEF SandboxInv, LeaseInv, ViewInv, ParkedInv, InRecovery, Parked, Gone,
            Working
    <2>4. MarkedInv(s)'
        BY <2>1, HandingIs DEF SandboxInv, MarkedInv
    <2>5. JobInv(s)' /\ GhostInv(s)'
        BY <2>1 DEF SandboxInv, JobInv, GhostInv, Ghost
    <2> QED
        BY <2>2, <2>3, <2>4, <2>5 DEF SandboxInv
<1> QED
    BY <1>1, <1>2

LEMMA RpMarkGuests ==
    ASSUME TypeOK, VolumeInv, NEW s \in Sandbox, SandboxInv(s), RpMark
    PROVE  SandboxInv(s)'
<1>1. /\ UNCHANGED <<host, mnt, vm, work, lease, ck, job>>
      /\ Up(Source)' <=> Up(Source)
      /\ pass.pc = "mark2" /\ pass'.pc = "checkpoint"
      /\ pass'.src = pass.src /\ pass'.view = pass.view
      /\ pass'.tgt = pass.tgt /\ (pass'.lost <=> pass.lost)
      /\ rec'[s].tgt = rec[s].tgt /\ rec'[s].node = rec[s].node
      /\ s \notin pass.view => rec'[s] = rec[s]
      /\ s \in pass.view =>
            /\ rec'[s].state = "repatriating"
            /\ rec'[s].orig = IF rec[s].orig = "none" THEN rec[s].state
                              ELSE rec[s].orig
    BY RpMarkDoes, PlacesAre, StatesAre DEF PassIs, Up
<1>2. LeaseInv(s)' /\ ViewInv(s)' /\ EndedInv(s)' /\ ParkedInv(s)'
    BY <1>1, PcsAre
    DEF SandboxInv, LeaseInv, ViewInv, Recoverable, EndedInv, ParkedInv,
        InRecovery, Parked, Gone, Working
<1>3. MarkedInv(s)' /\ PlaceInv(s)' /\ HomeInv(s)'
    BY <1>1, HandingIs
    DEF SandboxInv, MarkedInv, PlaceInv, Working, HomeInv, AtHome, Parked, Gone
<1>4. JobInv(s)' /\ StillInv(s)' /\ GhostInv(s)' /\ GuestInv(s)'
    BY <1>1 DEF SandboxInv, JobInv, StillInv, GhostInv, Ghost, GuestInv
<1> QED
    BY <1>2, <1>3, <1>4 DEF SandboxInv

LEMMA RpHandoffGuests ==
    ASSUME TypeOK, VolumeInv, NEW s \in Sandbox, SandboxInv(s), RpHandoff
    PROVE  SandboxInv(s)'
<1>1. CASE Ends
    BY <1>1, RpHandoffDoes, LeftAtEnd, PlacesAre DEF Still, Up, Ends, PassIs
<1>2. CASE ~Ends
    <2>1. /\ UNCHANGED vm /\ rec'[s] = rec[s] /\ work'[s] = work[s] /\ ck'[s] = ck[s]
          /\ pass.pc = "checkpoint" /\ pass'.pc = "unmount" /\ ~pass.lost
          /\ pass'.src = pass.src /\ pass'.view = pass.view
          /\ pass'.tgt = pass.tgt /\ (pass'.lost <=> pass.lost)
          /\ UNCHANGED <<lease, job>>
        BY <1>2, RpHandoffDoes, PlacesAre, StatesAre DEF Still, PassIs
    <2>2. /\ PlaceInv(s)' /\ EndedInv(s)' /\ StillInv(s)'
            /\ HomeInv(s)' /\ GuestInv(s)' /\ (Parked(s)' <=> Parked(s))
        BY RpHandoffDoes, LeftOnMove, PlacesAre DEF Still, Up
    <2>3. LeaseInv(s)' /\ ViewInv(s)' /\ ParkedInv(s)'
        BY <2>1, PcsAre
        DEF SandboxInv, LeaseInv, ViewInv, ParkedInv, InRecovery, Parked, Gone,
            Working
    <2>4. MarkedInv(s)'
        BY <2>1, PcsAre DEF SandboxInv, LeaseInv, ViewInv, MarkedInv, Working
    <2>5. JobInv(s)' /\ GhostInv(s)'
        BY <2>1 DEF SandboxInv, JobInv, GhostInv, Ghost
    <2> QED
        BY <2>2, <2>3, <2>4, <2>5 DEF SandboxInv
<1> QED
    BY <1>1, <1>2

LEMMA RpUnmountGuests ==
    ASSUME TypeOK, VolumeInv, NEW s \in Sandbox, SandboxInv(s), RpUnmount
    PROVE  SandboxInv(s)'
<1>1. /\ UNCHANGED <<host, rec, work, ck>>
      /\ Up(Source)' <=> Up(Source)
      /\ pass.pc = "unmount" /\ pass.src \in Node
      /\ vm[pass.src][s] # "running" \/ UNCHANGED mnt
      /\ \A m \in Node :
            /\ mnt'[m] = mnt[m] \/ m = pass.src
            /\ \/ vm'[m][s] = vm[m][s]
               \/ vm[m][s] = "suspended" /\ vm'[m][s] = "none"
      /\ \/ Ends
         \/ /\ pass'.pc \in {"detach", "unmount2"} /\ pass'.src = pass.src
            /\ pass'.view = pass.view /\ pass'.tgt = pass.tgt
            /\ (pass'.lost <=> pass.lost) /\ UNCHANGED <<lease, job>>
    BY RpUnmountDoes, PlacesAre, TargetIs, PassPlaces, HandingIs
    DEF PassIs, QuiesceIs, RunningOn, Up
<1>2. LeaseInv(s)' /\ ViewInv(s)'
    BY <1>1, PcsAre DEF SandboxInv, LeaseInv, Ends, ViewInv
<1>3. MarkedInv(s)'
    BY <1>1, HandingIs DEF SandboxInv, MarkedInv, Working, Ends
<1>4. JobInv(s)'
    BY <1>1, NoJobs DEF SandboxInv, JobInv, Ends
<1>5. PlaceInv(s)' /\ EndedInv(s)' /\ GuestInv(s)'
    BY <1>1 DEF SandboxInv, PlaceInv, Working, EndedInv, GuestInv, Ghost
<1>6. StillInv(s)' /\ GhostInv(s)'
    BY <1>1, PlacesAre DEF SandboxInv, StillInv, GhostInv, Ghost, Ends
<1>7. ParkedInv(s)'
    BY <1>1, PcsAre, PlacesAre
    DEF SandboxInv, ParkedInv, InRecovery, Parked, Gone, Working, Ends
<1>8. HomeInv(s)'
    BY <1>1, HandingIs, PlacesAre, RecordPlaces
    DEF SandboxInv, HomeInv, AtHome, Parked, Gone, Working, MarkedInv
<1> QED
    BY <1>2, <1>3, <1>4, <1>5, <1>6, <1>7, <1>8 DEF SandboxInv

LEMMA RpUnmountReplacedGuests ==
    ASSUME TypeOK, VolumeInv, NEW s \in Sandbox, SandboxInv(s),
           RpUnmountReplaced
    PROVE  SandboxInv(s)'
<1>1. /\ UNCHANGED <<host, rec, work, ck>>
      /\ Up(Source)' <=> Up(Source)
      /\ pass.pc = "unmount2" /\ pass.tgt \in Node
      /\ vm[pass.tgt][s] # "running" \/ UNCHANGED mnt
      /\ mnt[pass.tgt] # Home \/ UNCHANGED mnt
      /\ \A m \in Node :
            /\ mnt'[m] = mnt[m] \/ m = pass.tgt
            /\ \/ vm'[m][s] = vm[m][s]
               \/ vm[m][s] = "suspended" /\ vm'[m][s] = "none"
      /\ \/ Ends
         \/ /\ pass'.pc \in {"detach2", "attach2"} /\ pass'.src = pass.src
            /\ pass'.view = pass.view /\ pass'.tgt = pass.tgt
            /\ (pass'.lost <=> pass.lost) /\ UNCHANGED <<lease, job>>
    BY RpUnmountReplacedDoes, PlacesAre, TargetIs, PassPlaces, HandingIs
    DEF PassIs, QuiesceIs, RunningOn, Up
<1>2. LeaseInv(s)' /\ ViewInv(s)'
    BY <1>1, PcsAre DEF SandboxInv, LeaseInv, Ends, ViewInv
<1>3. MarkedInv(s)'
    BY <1>1, HandingIs DEF SandboxInv, MarkedInv, Working, Ends
<1>4. JobInv(s)'
    BY <1>1, NoJobs DEF SandboxInv, JobInv, Ends
<1>5. PlaceInv(s)' /\ EndedInv(s)' /\ GuestInv(s)'
    BY <1>1 DEF SandboxInv, PlaceInv, Working, EndedInv, GuestInv, Ghost
<1>6. StillInv(s)' /\ GhostInv(s)'
    BY <1>1, PlacesAre DEF SandboxInv, StillInv, GhostInv, Ghost, Ends
<1>7. ParkedInv(s)'
    BY <1>1, PcsAre, PlacesAre
    DEF SandboxInv, ParkedInv, InRecovery, Parked, Gone, Working, Ends
<1>8. HomeInv(s)'
    BY <1>1, PlacesAre, RecordPlaces
    DEF SandboxInv, HomeInv, AtHome, Parked, Gone, Working
<1> QED
    BY <1>2, <1>3, <1>4, <1>5, <1>6, <1>7, <1>8 DEF SandboxInv

LEMMA RpDetachGuests ==
    ASSUME TypeOK, VolumeInv, NEW s \in Sandbox, SandboxInv(s), RpDetach
    PROVE  SandboxInv(s)'
<1>1. /\ UNCHANGED vm /\ rec'[s] = rec[s] /\ work'[s] = work[s]
      /\ ck'[s] = ck[s]
      /\ pass.pc = "detach" /\ pass'.pc = "unmount2"
      /\ pass'.src = pass.src /\ pass'.view = pass.view
      /\ pass'.tgt = pass.tgt /\ (pass'.lost <=> pass.lost)
      /\ UNCHANGED <<lease, job>>
    BY RpDetachDoes, PlacesAre, StatesAre DEF Still, PassIs
<1>2. /\ PlaceInv(s)' /\ EndedInv(s)' /\ StillInv(s)'
        /\ HomeInv(s)' /\ GuestInv(s)' /\ (Parked(s)' <=> Parked(s))
    BY RpDetachDoes, LeftOnMove, PlacesAre DEF Still, Up
<1>3. LeaseInv(s)' /\ ViewInv(s)' /\ MarkedInv(s)'
    BY <1>1, HandingIs DEF SandboxInv, LeaseInv, ViewInv, MarkedInv, Working
<1>4. JobInv(s)' /\ GhostInv(s)'
    BY <1>1 DEF SandboxInv, JobInv, GhostInv, Ghost
<1>5. ParkedInv(s)'
    BY <1>1, PcsAre DEF SandboxInv, ParkedInv, InRecovery, Parked, Gone, Working
<1> QED
    BY <1>2, <1>3, <1>4, <1>5 DEF SandboxInv

LEMMA RpDetachReplacedGuests ==
    ASSUME TypeOK, VolumeInv, NEW s \in Sandbox, SandboxInv(s), RpDetachReplaced
    PROVE  SandboxInv(s)'
<1>1. /\ UNCHANGED vm /\ rec'[s] = rec[s] /\ work'[s] = work[s]
      /\ ck'[s] = ck[s]
      /\ pass.pc = "detach2" /\ pass'.pc = "attach2"
      /\ pass'.src = pass.src /\ pass'.view = pass.view
      /\ pass'.tgt = pass.tgt /\ (pass'.lost <=> pass.lost)
      /\ UNCHANGED <<lease, job>>
    BY RpDetachReplacedDoes, PlacesAre, StatesAre DEF Still, PassIs
<1>2. /\ PlaceInv(s)' /\ EndedInv(s)' /\ StillInv(s)'
        /\ HomeInv(s)' /\ GuestInv(s)' /\ (Parked(s)' <=> Parked(s))
    BY RpDetachReplacedDoes, LeftOnMove, PlacesAre DEF Still, Up
<1>3. LeaseInv(s)' /\ ViewInv(s)' /\ MarkedInv(s)'
    BY <1>1, HandingIs DEF SandboxInv, LeaseInv, ViewInv, MarkedInv, Working
<1>4. JobInv(s)' /\ GhostInv(s)'
    BY <1>1 DEF SandboxInv, JobInv, GhostInv, Ghost
<1>5. ParkedInv(s)'
    BY <1>1, PcsAre DEF SandboxInv, ParkedInv, InRecovery, Parked, Gone, Working
<1> QED
    BY <1>2, <1>3, <1>4, <1>5 DEF SandboxInv

LEMMA RpAttachGuests ==
    ASSUME TypeOK, VolumeInv, NEW s \in Sandbox, SandboxInv(s), RpAttach
    PROVE  SandboxInv(s)'
<1>1. CASE Ends
    BY <1>1, RpAttachDoes, LeftAtEnd, PlacesAre DEF Still, Up, Ends, PassIs
<1>2. CASE ~Ends
    <2>1. /\ UNCHANGED vm /\ rec'[s] = rec[s] /\ work'[s] = work[s] /\ ck'[s] = ck[s]
          /\ pass.pc = "attach2" /\ pass'.pc = "mount2"
          /\ pass'.src = pass.src /\ pass'.view = pass.view
          /\ pass'.tgt = pass.tgt /\ (pass'.lost <=> pass.lost)
          /\ UNCHANGED <<lease, job>>
        BY <1>2, RpAttachDoes, PlacesAre, StatesAre DEF Still, PassIs
    <2>2. /\ PlaceInv(s)' /\ EndedInv(s)' /\ StillInv(s)'
            /\ HomeInv(s)' /\ GuestInv(s)' /\ (Parked(s)' <=> Parked(s))
        BY RpAttachDoes, LeftOnMove, PlacesAre DEF Still, Up
    <2>3. LeaseInv(s)' /\ ViewInv(s)' /\ MarkedInv(s)'
        BY <2>1, HandingIs DEF SandboxInv, LeaseInv, ViewInv, MarkedInv, Working
    <2>4. JobInv(s)' /\ GhostInv(s)'
        BY <2>1 DEF SandboxInv, JobInv, GhostInv, Ghost
    <2>5. ParkedInv(s)'
        BY <2>1, PcsAre
        DEF SandboxInv, ParkedInv, InRecovery, Parked, Gone, Working
    <2> QED
        BY <2>2, <2>3, <2>4, <2>5 DEF SandboxInv
<1> QED
    BY <1>1, <1>2

LEMMA RpMountGuests ==
    ASSUME TypeOK, VolumeInv, NEW s \in Sandbox, SandboxInv(s), RpMount
    PROVE  SandboxInv(s)'
<1>1. CASE Ends
    BY <1>1, RpMountDoes, LeftAtEnd, PlacesAre DEF Still, Up, Ends, PassIs
<1>2. CASE ~Ends
    <2>1. /\ UNCHANGED <<host, vm, rec, work, lease, ck>>
          /\ Up(Source)' <=> Up(Source)
          /\ pass.pc = "mount2" /\ pass'.pc = "restore" /\ pass.tgt \in Spot
          /\ pass'.src = pass.src /\ pass'.view = pass.view
          /\ pass'.tgt = pass.tgt /\ (pass'.lost <=> pass.lost)
          /\ \A m \in Node :
                mnt'[m] = IF m = pass.tgt THEN Home ELSE mnt[m]
          /\ job'[s] = IF s \in pass.view THEN "todo" ELSE "none"
        BY <1>2, RpMountDoes, PlacesAre, StatesAre DEF Up, PassIs
    <2>2. LeaseInv(s)' /\ MarkedInv(s)'
        BY <2>1, HandingIs DEF SandboxInv, LeaseInv, MarkedInv, Working
    <2>3. ViewInv(s)'
        BY <2>1, HandingIs, NoJobs DEF SandboxInv, ViewInv
    <2>4. JobInv(s)'
        BY <2>1, PlacesAre DEF SandboxInv, JobInv
    <2>5. PlaceInv(s)' /\ EndedInv(s)' /\ StillInv(s)' /\ GuestInv(s)'
        BY <2>1
        DEF SandboxInv, PlaceInv, Working, EndedInv, StillInv, GuestInv, Ghost
    <2>6. ParkedInv(s)'
        BY <2>1, PcsAre
        DEF SandboxInv, ParkedInv, InRecovery, Parked, Gone, Working
    <2>7. HomeInv(s)'
        BY <2>1, PlacesAre, RecordPlaces
        DEF SandboxInv, HomeInv, AtHome, Parked, Gone, Working
    <2>8. GhostInv(s)'
        BY <2>1, NoJobs DEF SandboxInv, GhostInv, Ghost
    <2> QED
        BY <2>2, <2>3, <2>4, <2>5, <2>6, <2>7, <2>8 DEF SandboxInv
<1> QED
    BY <1>1, <1>2

LEMMA RpHealthGuests ==
    ASSUME TypeOK, VolumeInv, NEW s \in Sandbox, SandboxInv(s), RpHealth
    PROVE  SandboxInv(s)'
<1>1. CASE Ends
    BY <1>1, RpHealthDoes, LeftAtEnd, PlacesAre DEF Still, Up, Ends, PassIs
<1>2. CASE ~Ends
    <2>1. /\ UNCHANGED vm /\ rec'[s] = rec[s] /\ work'[s] = work[s] /\ ck'[s] = ck[s]
          /\ pass.pc = "restore" /\ pass'.pc = "release"
          /\ s \in pass.view => job[s] = "ended"
          /\ pass'.src = pass.src /\ pass'.view = pass.view
          /\ pass'.tgt = pass.tgt /\ (pass'.lost <=> pass.lost)
          /\ UNCHANGED <<lease, job>>
        BY <1>2, RpHealthDoes, PlacesAre, StatesAre DEF Still, PassIs
    <2>2. /\ PlaceInv(s)' /\ EndedInv(s)' /\ StillInv(s)'
            /\ HomeInv(s)' /\ GuestInv(s)' /\ (Parked(s)' <=> Parked(s))
        BY RpHealthDoes, LeftOnMove, PlacesAre DEF Still, Up
    <2>3. LeaseInv(s)' /\ ViewInv(s)' /\ MarkedInv(s)'
        BY <2>1, HandingIs DEF SandboxInv, LeaseInv, ViewInv, JobInv, MarkedInv
    <2>4. JobInv(s)'
        BY <2>1, PlacesAre DEF SandboxInv, JobInv
    <2>5. ParkedInv(s)' /\ GhostInv(s)'
        BY <2>1
        DEF SandboxInv, ParkedInv, InRecovery, Parked, Gone, Working, GhostInv,
            Ghost
    <2> QED
        BY <2>2, <2>3, <2>4, <2>5 DEF SandboxInv
<1> QED
    BY <1>1, <1>2

LEMMA RpReleaseGuests ==
    ASSUME TypeOK, VolumeInv, NEW s \in Sandbox, SandboxInv(s), RpRelease
    PROVE  SandboxInv(s)'
<1>1. /\ UNCHANGED vm /\ rec'[s] = rec[s] /\ work'[s] = work[s]
      /\ ck'[s] = ck[s]
      /\ pass.pc = "release" /\ pass'.pc = "terminate"
      /\ pass'.src = pass.src /\ pass'.view = pass.view
      /\ pass'.tgt = pass.tgt /\ (pass'.lost <=> pass.lost)
      /\ UNCHANGED <<lease, job>>
    BY RpReleaseDoes, PlacesAre, StatesAre DEF Still, PassIs
<1>2. /\ PlaceInv(s)' /\ EndedInv(s)' /\ StillInv(s)'
        /\ HomeInv(s)' /\ GuestInv(s)' /\ (Parked(s)' <=> Parked(s))
    BY RpReleaseDoes, LeftOnMove, PlacesAre DEF Still, Up
<1>3. LeaseInv(s)' /\ ViewInv(s)' /\ ParkedInv(s)'
    BY <1>1, PcsAre
    DEF SandboxInv, LeaseInv, ViewInv, ParkedInv, InRecovery, Parked, Gone,
        Working
<1>4. MarkedInv(s)'
    BY <1>1, HandingIs DEF SandboxInv, MarkedInv
<1>5. JobInv(s)' /\ GhostInv(s)'
    BY <1>1 DEF SandboxInv, JobInv, GhostInv, Ghost
<1> QED
    BY <1>2, <1>3, <1>4, <1>5 DEF SandboxInv

LEMMA RpTerminateGuests ==
    ASSUME TypeOK, VolumeInv, NEW s \in Sandbox, SandboxInv(s), RpTerminate
    PROVE  SandboxInv(s)'
<1>1. /\ UNCHANGED <<rec, work, ck>> /\ Ends
      /\ pass.pc = "terminate" /\ pass.src \in Standby
      /\ Up(Source)' <=> Up(Source)
      /\ \/ UNCHANGED <<mnt, vm>>
         \/ \A m \in Node :
               /\ mnt'[m] = IF m = pass.src THEN None ELSE mnt[m]
               /\ vm'[m][s] = IF m = pass.src THEN "none" ELSE vm[m][s]
    BY RpTerminateDoes
<1>2. LeaseInv(s)' /\ ViewInv(s)'
    BY <1>1, PcsAre DEF SandboxInv, LeaseInv, Ends, ViewInv
<1>3. MarkedInv(s)'
    BY <1>1, HandingIs DEF SandboxInv, MarkedInv, Ends
<1>4. JobInv(s)' /\ StillInv(s)' /\ GhostInv(s)'
    BY <1>1, PlacesAre DEF SandboxInv, JobInv, Ends, StillInv, GhostInv, Ghost
<1>5. PlaceInv(s)' /\ EndedInv(s)' /\ GuestInv(s)'
    BY <1>1 DEF SandboxInv, PlaceInv, Working, EndedInv, GuestInv, Ghost
<1>6. ParkedInv(s)'
    BY <1>1, PcsAre, PlacesAre
    DEF SandboxInv, ParkedInv, InRecovery, Parked, Gone, Working, Ends
<1>7. HomeInv(s)'
    BY <1>1, PlacesAre, RecordPlaces
    DEF SandboxInv, HomeInv, AtHome, Parked, Gone, Working, ViewInv
<1> QED
    BY <1>2, <1>3, <1>4, <1>5, <1>6, <1>7 DEF SandboxInv

-----------------------------------------------------------------------------
(* Running is true. *)

\* A host that is up and, if Spot, not being reclaimed.
Live(n) == Up(n) /\ (n \in Spot => evac[n] = "calm")

\* Its guest runs there, unless the host is on its way out.
Runs(n, s) == Live(n) => vm[n][s] = "running"

\* Only hosts that have joined are ever recorded.
Joined(n) == n \in Node => host[n] \in {"up", "gone"}

JoinedInv(s) == Joined(rec[s].node) /\ Joined(work[s].at) /\ Joined(job[s])

\* A handoff marked it as one that runs: it is still where it was, and nobody
\* works on it, or it is back.
OrigInv(s) ==
    rec[s].orig = "running" =>
        /\ rec[s].tgt # None
        /\ rec[s].tgt \in Standby => rec[s].state \notin Active /\ ~Working(s)
        /\ rec[s].state \notin Recoverable
        /\ pass.pc \in RecoveryPc => s \notin pass.view

\* Where a sandbox and its worker may be while it is not back.
WayInv(s) ==
    /\ rec[s].tgt \in Standby => rec[s].node \in {Source, None, rec[s].tgt}
    /\ work[s].kind # "none" /\ rec[s].tgt \notin Spot =>
          work[s].at \in {Source, None, rec[s].node}
    /\ rec[s].tgt \in Spot =>
          /\ rec[s].state \notin Recoverable
          /\ pass.pc \in RecoveryPc => s \notin pass.view

\* A worker is never on its way to the guest that a record says is running,
\* nor to one that a handoff takes for running.
BusyInv(s) ==
    work[s].kind # "none" =>
        /\ rec[s].state = "running" => work[s].at # rec[s].node
        /\ pass.pc \in {"target", "mark2"} /\ s \in pass.view
              => rec[s].state # "running"

\* What a worker finds, or made.
WorkerInv(s) ==
    /\ work[s].kind = "suspend" /\ work[s].res = "none" => Runs(work[s].at, s)
    /\ work[s].kind = "suspend" /\ work[s].res = "error" => ~Live(work[s].at)
    /\ work[s].kind = "resume" /\ work[s].res = "ok" => Runs(work[s].at, s)

\* What a record says, or will when the pass or a worker that comes too late
\* has written it.
RunsInv(s) ==
    /\ rec[s].state = "running" => Runs(rec[s].node, s)
    /\ job[s] \in Node => Runs(job[s], s)
    /\ Working(s) /\ work[s].at # rec[s].node => Runs(rec[s].node, s)

\* All that is about the truth of one record.
TruthInv(s) ==
    /\ JoinedInv(s) /\ OrigInv(s) /\ WayInv(s)
    /\ BusyInv(s) /\ WorkerInv(s) /\ RunsInv(s)

\* The Spot hosts are there from the start.
SpotJoined == \A n \in Spot : Joined(n)

-----------------------------------------------------------------------------
(* A running sandbox runs: steps on one sandbox. *)

LEMMA CkStartTruth ==
    ASSUME TypeOK, VolumeInv, SpotJoined, NEW n \in Spot, NEW s \in Sandbox,
           SandboxInv(s), TruthInv(s), CkStart(n, s)
    PROVE  TruthInv(s)'
<1>1. /\ UNCHANGED <<host, evac, pass, vm, work, lease, job>> /\ Up(Source)
      /\ ck[s] = "listed" /\ ck'[s] = "open"
      /\ rec'[s] = rec[s] \/ rec'[s].state = "checkpointing"
      /\ rec'[s] = rec[s] \/ rec[s].state # "none"
      /\ rec'[s].tgt = rec[s].tgt /\ rec'[s].node = rec[s].node
      /\ rec'[s].orig = rec[s].orig
      /\ evac[Source] # "calm"
    BY CkStartDoes, PlacesAre, StatesAre DEF JournalIs, Settled
<1>2. JoinedInv(s)' /\ WayInv(s)' /\ BusyInv(s)' /\ WorkerInv(s)'
    BY <1>1
    DEF TruthInv, JoinedInv, Joined, WayInv, Recoverable, BusyInv, WorkerInv,
        Runs, Live, Up
<1>3. OrigInv(s)'
    BY <1>1, HandingIs DEF TruthInv, OrigInv, Working, Recoverable
<1>4. RunsInv(s)'
    BY <1>1 DEF TruthInv, RunsInv, Runs, Live, Up, Working
<1> QED
    BY <1>2, <1>3, <1>4 DEF TruthInv

LEMMA CkWriteTruth ==
    ASSUME TypeOK, VolumeInv, SpotJoined, NEW n \in Spot, NEW s \in Sandbox,
           SandboxInv(s), TruthInv(s), CkWrite(n, s)
    PROVE  TruthInv(s)'
<1>1. /\ UNCHANGED <<host, evac, pass, rec, work, lease, job>> /\ Up(Source)
      /\ ck[s] = "open" /\ ck'[s] = "written" /\ vm[Source][s] = "running"
      /\ \A m \in Node :
             vm'[m][s] = IF m = Source THEN "suspended" ELSE vm[m][s]
      /\ evac[Source] # "calm"
    BY CkWriteDoes, PlacesAre, StatesAre DEF VmIs, Settled
<1>2. JoinedInv(s)' /\ OrigInv(s)' /\ WayInv(s)' /\ BusyInv(s)'
    BY <1>1 DEF TruthInv, JoinedInv, Joined, OrigInv, Working, WayInv, BusyInv
<1>3. WorkerInv(s)' /\ RunsInv(s)'
    BY <1>1, PlacesAre, RecordPlaces
    DEF TruthInv, WorkerInv, Runs, Live, Up, RunsInv, Working
<1> QED
    BY <1>2, <1>3 DEF TruthInv

LEMMA CkDoneTruth ==
    ASSUME TypeOK, VolumeInv, SpotJoined, NEW n \in Spot, NEW s \in Sandbox,
           SandboxInv(s), TruthInv(s), CkDone(n, s)
    PROVE  TruthInv(s)'
<1>1. /\ UNCHANGED <<host, evac, pass, vm, work, lease, job>> /\ Up(Source)
      /\ ck[s] = "written" /\ ck'[s] = "ended"
      /\ rec'[s] = rec[s] \/ rec'[s].state = "checkpointed"
      /\ rec'[s] = rec[s] \/ rec[s].state # "none"
      /\ rec'[s].tgt = rec[s].tgt /\ rec'[s].node = rec[s].node
      /\ rec'[s].orig = rec[s].orig
      /\ evac[Source] # "calm"
    BY CkDoneDoes, PlacesAre, StatesAre DEF JournalIs, Settled
<1>2. JoinedInv(s)' /\ BusyInv(s)' /\ WorkerInv(s)' /\ RunsInv(s)'
    BY <1>1
    DEF TruthInv, JoinedInv, Joined, BusyInv, WorkerInv, Runs, Live, Up,
        RunsInv, Working
<1>3. OrigInv(s)'
    BY <1>1 DEF TruthInv, OrigInv, SandboxInv, EndedInv
<1>4. WayInv(s)'
    BY <1>1, PlacesAre DEF TruthInv, WayInv, SandboxInv, EndedInv
<1> QED
    BY <1>2, <1>3, <1>4 DEF TruthInv

LEMMA CkFailTruth ==
    ASSUME TypeOK, VolumeInv, SpotJoined, NEW n \in Spot, NEW s \in Sandbox,
           SandboxInv(s), TruthInv(s), CkFail(n, s)
    PROVE  TruthInv(s)'
<1>1. /\ UNCHANGED <<host, evac, pass, vm, work, lease, job>> /\ Up(Source)
      /\ ck[s] = "open" /\ ck'[s] = "ended"
      /\ rec'[s] = rec[s] \/ rec'[s].state = "recovery_failed"
      /\ rec'[s] = rec[s] \/ rec[s].state # "none"
      /\ rec'[s].tgt = rec[s].tgt /\ rec'[s].node = rec[s].node
      /\ rec'[s].orig = rec[s].orig
      /\ evac[Source] # "calm"
    BY CkFailDoes, PlacesAre, StatesAre DEF JournalIs, Settled
<1>2. JoinedInv(s)' /\ WayInv(s)' /\ BusyInv(s)' /\ WorkerInv(s)'
    BY <1>1
    DEF TruthInv, JoinedInv, Joined, WayInv, Recoverable, BusyInv, WorkerInv,
        Runs, Live, Up
<1>3. OrigInv(s)'
    BY <1>1, HandingIs DEF TruthInv, OrigInv, Working, Recoverable
<1>4. RunsInv(s)'
    BY <1>1 DEF TruthInv, RunsInv, Runs, Live, Up, Working
<1> QED
    BY <1>2, <1>3, <1>4 DEF TruthInv

LEMMA WorkStartTruth ==
    ASSUME TypeOK, VolumeInv, SpotJoined, NEW s \in Sandbox,
           NEW k \in {"suspend", "resume", "delete"}, SandboxInv(s),
           TruthInv(s), WorkStart(s, k)
    PROVE  TruthInv(s)'
<1>1. /\ UNCHANGED <<host, evac, pass, vm, ck, job>>
      /\ lease[s] = "none" /\ lease'[s] = "worker" /\ MayStart(k, rec[s].state)
      /\ work'[s].kind = k /\ work'[s].res = "none"
      /\ work'[s].at = IF k = "resume" THEN ResumeNode(rec[s]) ELSE rec[s].node
      /\ k = "resume" => Up(ResumeNode(rec[s]))
      /\ rec'[s].state = Marked(k) /\ rec'[s].tgt = rec[s].tgt
      /\ rec'[s].node = rec[s].node
      /\ rec'[s].orig = rec[s].orig
    BY WorkStartDoes, PlacesAre, StatesAre
    DEF RecIs, Settled, MayStart, Marked, ResumeNode, Up
<1>2. JoinedInv(s)' /\ BusyInv(s)'
    BY <1>1 DEF TruthInv, JoinedInv, Joined, Up, BusyInv, Marked
<1>3. OrigInv(s)'
    BY <1>1, HandingIs
    DEF TruthInv, OrigInv, Working, Recoverable, MayStart, Marked
<1>4. WayInv(s)'
    BY <1>1, HandingIs
    DEF TruthInv, WayInv, SandboxInv, HomeInv, AtHome, Parked, Recoverable,
        MayStart, Marked, ResumeNode
<1>5. WorkerInv(s)'
    BY <1>1
    DEF TruthInv, WayInv, BusyInv, WorkerInv, RunsInv, Runs, Live, Up, Joined,
        JobInv, MayStart
<1>6. RunsInv(s)'
    BY <1>1, HandingIs
    DEF TruthInv, RunsInv, Runs, Live, Up, SandboxInv, HomeInv, AtHome, Parked,
        MayStart, Marked, ResumeNode
<1> QED
    BY <1>2, <1>3, <1>4, <1>5, <1>6 DEF TruthInv

LEMMA WorkCallTruth ==
    ASSUME TypeOK, VolumeInv, SpotJoined, NEW s \in Sandbox, SandboxInv(s),
           TruthInv(s), WorkCall(s)
    PROVE  TruthInv(s)'
<1>1. /\ UNCHANGED <<host, evac, pass, rec, lease, ck, job>>
      /\ work[s].kind # "none" /\ work[s].res = "none"
      /\ work'[s].kind = work[s].kind /\ work'[s].at = work[s].at
      /\ \/ /\ work'[s].res = "ok" /\ Up(work[s].at) /\ work[s].at \in Node
            /\ \/ /\ work[s].kind = "suspend"
                  /\ vm[work[s].at][s] = "running"
                  /\ \A m \in Node :
                         vm'[m][s] = IF m = work[s].at THEN "suspended" ELSE vm[m][s]
               \/ /\ work[s].kind = "resume"
                  /\ \A m \in Node :
                         vm'[m][s] = IF m = work[s].at THEN "running" ELSE vm[m][s]
               \/ /\ work[s].kind = "delete"
                  /\ \A m \in Node :
                         vm'[m][s] = IF m = work[s].at THEN "none" ELSE vm[m][s]
         \/ /\ work'[s].res = "error"
            /\ work[s].kind = "suspend" => ~Suspends(work[s].at, s)
            /\ \A m \in Node : vm'[m][s] = vm[m][s]
    BY WorkCallDoes, PlacesAre, StatesAre DEF VmIs, Settled
<1>2. JoinedInv(s)' /\ OrigInv(s)' /\ WayInv(s)' /\ BusyInv(s)'
    BY <1>1 DEF TruthInv, JoinedInv, Joined, OrigInv, Working, WayInv, BusyInv
<1>3. WorkerInv(s)'
    BY <1>1 DEF TruthInv, WorkerInv, Runs, Live, Up, Suspends
<1>4. RunsInv(s)'
    BY <1>1, PcsAre, StatesAre, HandingIs, PlacesAre, PassPlaces, RecordPlaces,
       NoJobs, TargetIs
    DEF TruthInv, JoinedInv, OrigInv, WayInv, BusyInv, RunsInv, Runs, Live, Up,
        SandboxInv, ViewInv, JobInv, ParkedInv, InRecovery, Parked, Working,
        VolumeInv, RecoveryPassInv
<1> QED
    BY <1>2, <1>3, <1>4 DEF TruthInv

LEMMA WorkDoneTruth ==
    ASSUME TypeOK, VolumeInv, SpotJoined, NEW s \in Sandbox, SandboxInv(s),
           TruthInv(s), WorkDone(s)
    PROVE  TruthInv(s)'
<1>1. /\ UNCHANGED <<host, evac, pass, vm, ck, job>>
      /\ work[s].res # "none" /\ lease'[s] = "none"
      /\ work'[s].kind = "none" /\ work'[s].at = None /\ work'[s].res = "none"
      /\ \/ /\ work[s].kind = "suspend" /\ work[s].res = "ok"
            /\ \/ rec'[s] = rec[s]
               \/ /\ rec[s].state = "suspending"
                  /\ RecIs(s, "suspended", rec[s].tgt, rec[s].node)
         \/ /\ work[s].kind = "resume" /\ work[s].res = "ok"
            /\ RecIs(s, "running", rec[s].tgt, work[s].at)
         \/ /\ work[s].kind = "delete" /\ work[s].res = "ok"
            /\ rec'[s] = NoRecord
         \/ /\ work[s].kind = "suspend" /\ work[s].res = "error"
            /\ RecIs(s, "running", rec[s].tgt, rec[s].node)
         \/ /\ work[s].kind # "suspend" /\ work[s].res = "error"
            /\ RecIs(s, "failed", rec[s].tgt, rec[s].node)
    BY WorkDoneDoes, PlacesAre, StatesAre DEF Settled
<1>2. JoinedInv(s)'
    BY <1>1, PlacesAre, NoRecordIs DEF TruthInv, JoinedInv, Joined, RecIs
<1>3. OrigInv(s)'
    BY <1>1, HandingIs, NoRecordIs
    DEF TruthInv, OrigInv, Working, Recoverable, RecIs
<1>4. WayInv(s)'
    BY <1>1, PlacesAre, NoRecordIs DEF TruthInv, WayInv, Recoverable, RecIs
<1>5. BusyInv(s)' /\ WorkerInv(s)'
    BY <1>1 DEF TruthInv, BusyInv, WorkerInv
<1>6. RunsInv(s)'
    BY <1>1, RecordPlaces, NoJobs, TargetIs, NoRecordIs
    DEF TruthInv, JoinedInv, OrigInv, WorkerInv, RunsInv, Runs, Live, Up,
        Joined, MarkedInv, Working, RecIs
<1> QED
    BY <1>2, <1>3, <1>4, <1>5, <1>6 DEF TruthInv

LEMMA RcStartTruth ==
    ASSUME TypeOK, VolumeInv, SpotJoined, NEW s \in Sandbox, SandboxInv(s),
           TruthInv(s), RcStart(s)
    PROVE  TruthInv(s)'
<1>1. /\ UNCHANGED <<host, evac, pass, vm, work, lease, ck>>
      /\ pass.pc = "resume" /\ job[s] = "todo" /\ job'[s] = "asked"
      /\ rec'[s].state = "recovering" /\ rec'[s].tgt = pass.tgt
      /\ rec'[s].node = rec[s].node
      /\ rec'[s].orig = rec[s].orig
    BY RcStartDoes, PlacesAre, StatesAre DEF RecIs, Settled
<1>2. JoinedInv(s)' /\ RunsInv(s)'
    BY <1>1, PlacesAre
    DEF TruthInv, JoinedInv, Joined, RunsInv, Runs, Live, Up, Working
<1>3. OrigInv(s)'
    BY <1>1, PcsAre DEF TruthInv, OrigInv, SandboxInv, JobInv
<1>4. WayInv(s)'
    BY <1>1, PcsAre, PlacesAre
    DEF TruthInv, WayInv, SandboxInv, JobInv, ParkedInv, InRecovery, Parked,
        VolumeInv, RecoveryPassInv
<1>5. BusyInv(s)' /\ WorkerInv(s)'
    BY <1>1 DEF TruthInv, BusyInv, WorkerInv, Runs, Live, Up
<1> QED
    BY <1>2, <1>3, <1>4, <1>5 DEF TruthInv

LEMMA RcBootTruth ==
    ASSUME TypeOK, VolumeInv, SpotJoined, NEW s \in Sandbox, SandboxInv(s),
           TruthInv(s), RcBoot(s)
    PROVE  TruthInv(s)'
<1>1. /\ UNCHANGED <<host, evac, pass, rec, work, lease, ck>>
      /\ pass.pc = "resume" /\ job[s] = "asked" /\ job'[s] = rec[s].tgt
      /\ rec[s].tgt \in Node
      /\ \A m \in Node :
             vm'[m][s] = IF m = rec[s].tgt THEN "running" ELSE vm[m][s]
      /\ Up(rec[s].tgt)
    BY RcBootDoes, PlacesAre, StatesAre DEF VmIs, Settled
<1>2. JoinedInv(s)' /\ OrigInv(s)' /\ WayInv(s)' /\ BusyInv(s)'
    BY <1>1
    DEF TruthInv, JoinedInv, Joined, Up, OrigInv, Working, WayInv, BusyInv
<1>3. WorkerInv(s)' /\ RunsInv(s)'
    BY <1>1, PlacesAre, RecordPlaces
    DEF TruthInv, WorkerInv, Runs, Live, Up, RunsInv, Working
<1> QED
    BY <1>2, <1>3 DEF TruthInv

LEMMA RcDoneTruth ==
    ASSUME TypeOK, VolumeInv, SpotJoined, NEW s \in Sandbox, SandboxInv(s),
           TruthInv(s), RcDone(s)
    PROVE  TruthInv(s)'
<1>1. /\ UNCHANGED <<host, evac, pass, vm, work, lease, ck>>
      /\ pass.pc = "resume" /\ job[s] \in Node /\ job'[s] = "ended"
      /\ rec'[s].state = "running" /\ rec'[s].tgt = rec[s].tgt
      /\ rec'[s].node = job[s]
      /\ rec'[s].orig = rec[s].orig
    BY RcDoneDoes, PlacesAre, StatesAre DEF RecIs, Settled
<1>2. JoinedInv(s)' /\ RunsInv(s)'
    BY <1>1, PlacesAre DEF TruthInv, JoinedInv, Joined, RunsInv, Runs, Live, Up
<1>3. OrigInv(s)'
    BY <1>1, PcsAre, PlacesAre DEF TruthInv, OrigInv, SandboxInv, JobInv
<1>4. WayInv(s)'
    BY <1>1, PlacesAre
    DEF TruthInv, WayInv, SandboxInv, JobInv, PlaceInv, VolumeInv,
        RecoveryPassInv
<1>5. BusyInv(s)'
    BY <1>1, PcsAre, PlacesAre
    DEF TruthInv, WayInv, BusyInv, SandboxInv, JobInv, ParkedInv, InRecovery,
        Parked, VolumeInv, RecoveryPassInv
<1>6. WorkerInv(s)'
    BY <1>1 DEF TruthInv, WorkerInv, Runs, Live, Up
<1> QED
    BY <1>2, <1>3, <1>4, <1>5, <1>6 DEF TruthInv

LEMMA RcFailTruth ==
    ASSUME TypeOK, VolumeInv, SpotJoined, NEW s \in Sandbox, SandboxInv(s),
           TruthInv(s), RcFail(s)
    PROVE  TruthInv(s)'
<1>1. /\ UNCHANGED <<host, evac, pass, vm, work, lease, ck>>
      /\ pass.pc = "resume" /\ job[s] = "asked" /\ job'[s] = "ended"
      /\ rec'[s].state = "recovery_failed" /\ rec'[s].tgt = rec[s].tgt
      /\ rec'[s].node = rec[s].node
      /\ rec'[s].orig = rec[s].orig
    BY RcFailDoes, PlacesAre, StatesAre DEF RecIs, Settled
<1>2. JoinedInv(s)' /\ RunsInv(s)'
    BY <1>1, PlacesAre
    DEF TruthInv, JoinedInv, Joined, RunsInv, Runs, Live, Up, Working
<1>3. OrigInv(s)'
    BY <1>1, HandingIs DEF TruthInv, OrigInv, Working, Recoverable
<1>4. WayInv(s)' /\ BusyInv(s)' /\ WorkerInv(s)'
    BY <1>1
    DEF TruthInv, WayInv, Recoverable, BusyInv, WorkerInv, Runs, Live, Up
<1> QED
    BY <1>2, <1>3, <1>4 DEF TruthInv

LEMMA RpSaveTruth ==
    ASSUME TypeOK, VolumeInv, SpotJoined, NEW s \in Sandbox, SandboxInv(s),
           TruthInv(s), RpSave(s)
    PROVE  TruthInv(s)'
<1>1. /\ UNCHANGED <<host, evac, pass, rec, work, lease, ck, job>>
      /\ pass.pc = "checkpoint" /\ s \in pass.view
      /\ pass.src \in Node
      /\ \A m \in Node :
             vm'[m][s] = IF m = pass.src THEN "suspended" ELSE vm[m][s]
      /\ rec[s].orig = "running"
    BY RpSaveDoes, PlacesAre, StatesAre DEF VmIs, Settled
<1>2. JoinedInv(s)' /\ OrigInv(s)' /\ WayInv(s)' /\ BusyInv(s)'
    BY <1>1 DEF TruthInv, JoinedInv, Joined, OrigInv, Working, WayInv, BusyInv
<1>3. WorkerInv(s)'
    BY <1>1, PcsAre, PassPlaces, NoJobs
    DEF TruthInv, OrigInv, WorkerInv, SandboxInv, ViewInv, Working
<1>4. RunsInv(s)'
    BY <1>1, PcsAre, HandingIs, PassPlaces, NoJobs
    DEF TruthInv, OrigInv, RunsInv, SandboxInv, ViewInv, JobInv, Working
<1> QED
    BY <1>2, <1>3, <1>4 DEF TruthInv

LEMMA RpFlagTruth ==
    ASSUME TypeOK, VolumeInv, SpotJoined, NEW s \in Sandbox, SandboxInv(s),
           TruthInv(s), RpFlag(s)
    PROVE  TruthInv(s)'
<1>1. /\ UNCHANGED <<host, evac, pass, vm, work, lease, ck, job>>
      /\ pass.pc = "checkpoint" /\ s \in pass.view
      /\ rec'[s].state = "repatriating" /\ rec'[s].tgt = rec[s].tgt
      /\ rec'[s].node = rec[s].node
      /\ rec'[s].orig = rec[s].orig
      /\ rec[s].orig = "running"
    BY RpFlagDoes, PlacesAre, StatesAre DEF FlaggedIs, Settled
<1>2. JoinedInv(s)' /\ WayInv(s)' /\ BusyInv(s)' /\ WorkerInv(s)'
    BY <1>1
    DEF TruthInv, JoinedInv, Joined, WayInv, Recoverable, BusyInv, WorkerInv,
        Runs, Live, Up
<1>3. OrigInv(s)'
    BY <1>1, HandingIs DEF TruthInv, OrigInv, Working, Recoverable
<1>4. RunsInv(s)'
    BY <1>1 DEF TruthInv, RunsInv, Runs, Live, Up, Working
<1> QED
    BY <1>2, <1>3, <1>4 DEF TruthInv

LEMMA RpReturnTruth ==
    ASSUME TypeOK, VolumeInv, SpotJoined, NEW s \in Sandbox, SandboxInv(s),
           TruthInv(s), RpReturn(s)
    PROVE  TruthInv(s)'
<1>1. /\ UNCHANGED <<host, evac, pass, vm, work, lease, ck>>
      /\ pass.pc = "restore" /\ job[s] = "todo" /\ job'[s] = "ended"
      /\ rec'[s].state = rec[s].orig /\ rec'[s].tgt = pass.tgt
      /\ rec'[s].node = pass.tgt
      /\ rec'[s].orig = rec[s].orig
      /\ rec[s].orig # "running"
    BY RpReturnDoes, PlacesAre, StatesAre DEF RecIs, Settled
<1>2. JoinedInv(s)'
    BY <1>1, HandingIs, PlacesAre
    DEF TruthInv, JoinedInv, Joined, SpotJoined, VolumeInv, HandoffPassInv
<1>3. OrigInv(s)' /\ BusyInv(s)' /\ WorkerInv(s)'
    BY <1>1 DEF TruthInv, OrigInv, BusyInv, WorkerInv, Runs, Live, Up
<1>4. WayInv(s)'
    BY <1>1, HandingIs, PlacesAre, PassPlaces, TargetIs
    DEF TruthInv, WayInv, SandboxInv, EndedInv
<1>5. RunsInv(s)'
    BY <1>1, HandingIs, PlacesAre
    DEF TruthInv, RunsInv, SandboxInv, ViewInv, MarkedInv, JobInv, PlaceInv,
        Working
<1> QED
    BY <1>2, <1>3, <1>4, <1>5 DEF TruthInv

LEMMA RpBootTruth ==
    ASSUME TypeOK, VolumeInv, SpotJoined, NEW s \in Sandbox, SandboxInv(s),
           TruthInv(s), RpBoot(s)
    PROVE  TruthInv(s)'
<1>1. /\ UNCHANGED <<host, evac, pass, rec, work, lease, ck>>
      /\ pass.pc = "restore" /\ job[s] = "todo" /\ job'[s] = pass.tgt
      /\ pass.tgt \in Node
      /\ \A m \in Node :
             vm'[m][s] = IF m = pass.tgt THEN "running" ELSE vm[m][s]
      /\ rec[s].orig = "running"
      /\ Up(pass.tgt)
    BY RpBootDoes, PlacesAre, StatesAre DEF VmIs, Settled
<1>2. JoinedInv(s)' /\ OrigInv(s)' /\ WayInv(s)' /\ BusyInv(s)'
    BY <1>1
    DEF TruthInv, JoinedInv, Joined, Up, OrigInv, Working, WayInv, BusyInv
<1>3. WorkerInv(s)' /\ RunsInv(s)'
    BY <1>1, PlacesAre, RecordPlaces
    DEF TruthInv, WorkerInv, Runs, Live, Up, RunsInv, Working
<1> QED
    BY <1>2, <1>3 DEF TruthInv

LEMMA RpBootFailsTruth ==
    ASSUME TypeOK, VolumeInv, SpotJoined, NEW s \in Sandbox, SandboxInv(s),
           TruthInv(s), RpBootFails(s)
    PROVE  TruthInv(s)'
<1>1. /\ UNCHANGED <<host, evac, pass, vm, rec, work, lease, ck>>
      /\ pass.pc = "restore" /\ job[s] = "todo" /\ job'[s] = "failed"
    BY RpBootFailsDoes, PlacesAre, StatesAre DEF Settled
<1>2. JoinedInv(s)' /\ RunsInv(s)'
    BY <1>1, PlacesAre
    DEF TruthInv, JoinedInv, Joined, RunsInv, Runs, Live, Up, Working
<1>3. OrigInv(s)' /\ WayInv(s)' /\ BusyInv(s)' /\ WorkerInv(s)'
    BY <1>1
    DEF TruthInv, OrigInv, Working, WayInv, BusyInv, WorkerInv, Runs, Live, Up
<1> QED
    BY <1>2, <1>3 DEF TruthInv

LEMMA RpDoneTruth ==
    ASSUME TypeOK, VolumeInv, SpotJoined, NEW s \in Sandbox, SandboxInv(s),
           TruthInv(s), RpDone(s)
    PROVE  TruthInv(s)'
<1>1. /\ UNCHANGED <<host, evac, pass, vm, work, lease, ck>>
      /\ pass.pc = "restore" /\ job[s] \in Node /\ job'[s] = "ended"
      /\ rec'[s].state = "running" /\ rec'[s].tgt = pass.tgt
      /\ rec'[s].node = pass.tgt
      /\ rec'[s].orig = rec[s].orig
    BY RpDoneDoes, PlacesAre, StatesAre DEF RecIs, Settled
<1>2. JoinedInv(s)'
    BY <1>1, PlacesAre DEF TruthInv, JoinedInv, Joined, SandboxInv, JobInv
<1>3. OrigInv(s)'
    BY <1>1, HandingIs, PlacesAre, TargetIs DEF TruthInv, OrigInv, Recoverable
<1>4. WayInv(s)'
    BY <1>1, HandingIs, PlacesAre, PassPlaces, TargetIs
    DEF TruthInv, WayInv, Recoverable
<1>5. BusyInv(s)'
    BY <1>1, HandingIs, PlacesAre, TargetIs
    DEF TruthInv, WayInv, BusyInv, SandboxInv, ViewInv, JobInv
<1>6. WorkerInv(s)'
    BY <1>1 DEF TruthInv, WorkerInv, Runs, Live, Up
<1>7. RunsInv(s)'
    BY <1>1, PlacesAre DEF TruthInv, RunsInv, Runs, Live, Up, SandboxInv, JobInv
<1> QED
    BY <1>2, <1>3, <1>4, <1>5, <1>6, <1>7 DEF TruthInv

-----------------------------------------------------------------------------
(* Steps of the hosts and of a pass. *)

\* A host that has joined stays up or is gone, a reclaim is never called off.
HostsGo ==
    /\ \A n \in Node : host[n] \in {"up", "gone"} => host'[n] \in {host[n], "gone"}
    /\ \A n \in Spot : evac[n] # "calm" => evac'[n] # "calm"

\* Nothing happens to it, nor to the pass.
LEMMA TruthStays ==
    ASSUME TypeOK, NEW s \in Sandbox, TruthInv(s), Same(s), UNCHANGED pass,
           HostsGo
    PROVE  TruthInv(s)'
<1>1. JoinedInv(s)'
    BY DEF TruthInv, Same, JoinedInv, Joined, HostsGo
<1>2. OrigInv(s)' /\ WayInv(s)' /\ BusyInv(s)'
    BY DEF TruthInv, Same, OrigInv, WayInv, BusyInv, Working
<1>3. \A n \in Place : Joined(n) => (Live(n)' => Live(n))
    BY PlacesAre DEF HostsGo, Joined, Live, Up
<1>4. \A n \in Place : Joined(n) /\ Runs(n, s) => Runs(n, s)'
    BY <1>3, PlacesAre DEF Same, Runs, Live, Up
<1>5. WorkerInv(s)' /\ RunsInv(s)'
    BY <1>3, <1>4, RecordPlaces, PlacesAre
    DEF TruthInv, JoinedInv, Same, WorkerInv, RunsInv, Working
<1> QED
    BY <1>1, <1>2, <1>5 DEF TruthInv

\* The pass moves on, or ends.
LEMMA TruthOnMove ==
    ASSUME TypeOK, NEW s \in Sandbox, TruthInv(s), HostsGo,
           rec'[s] = rec[s], work'[s] = work[s],
           \A n \in Node :
               vm'[n][s] = vm[n][s] \/ vm[n][s] # "running",
           job'[s] \in {job[s], "none", "todo"},
           pass'.pc \in RecoveryPc =>
               pass.pc \in RecoveryPc /\ pass'.view = pass.view,
           pass'.pc \in {"target", "mark2"} =>
               pass.pc \in {"target", "mark2"} /\ pass'.view = pass.view
    PROVE  TruthInv(s)'
<1>1. JoinedInv(s)'
    BY PlacesAre DEF TruthInv, JoinedInv, Joined, HostsGo
<1>2. OrigInv(s)' /\ WayInv(s)' /\ BusyInv(s)'
    BY DEF TruthInv, OrigInv, WayInv, BusyInv, Working
<1>3. \A n \in Place : Joined(n) => (Live(n)' => Live(n))
    BY PlacesAre DEF HostsGo, Joined, Live, Up
<1>4. \A n \in Place : Joined(n) /\ Runs(n, s) => Runs(n, s)'
    BY <1>3, PlacesAre DEF Runs, Live, Up
<1>5. WorkerInv(s)' /\ RunsInv(s)'
    BY <1>3, <1>4, RecordPlaces, PlacesAre
    DEF TruthInv, JoinedInv, WorkerInv, RunsInv, Working
<1> QED
    BY <1>1, <1>2, <1>5 DEF TruthInv

LEMMA HostsTame ==
    ASSUME UNCHANGED <<host, evac>>
    PROVE  HostsGo
    BY DEF HostsGo

LEMMA HostEnds ==
    ASSUME TypeOK, NEW n \in Node, End(n), UNCHANGED evac
    PROVE  HostsGo
    BY DEF HostsGo, End, TypeOK, RecoveryTypeOK, StateVolumeTypeOK

\* Hosts are ordered and join, instances end, notices arrive.
LEMMA HostsOnlyGo ==
    ASSUME TypeOK, VolumeInv, [Next]_vars
    PROVE  HostsGo
<1>1. CASE AgentStep
    <2>1. ASSUME NEW n \in Node, Heartbeat(n) PROVE HostsGo
        BY <2>1, HostsTame DEF Heartbeat, ec2, reclaim
    <2>2. ASSUME NEW n \in Node, HeartbeatExpire(n) PROVE HostsGo
        BY <2>2, HostsTame DEF HeartbeatExpire, ec2, reclaim
    <2>3. ASSUME NEW n \in Spot, Detect(n) PROVE HostsGo
        BY <2>3 DEF Detect, ec2, HostsGo, TypeOK, RecoveryTypeOK
    <2>4. ASSUME NEW n \in Spot, Preserve(n) PROVE HostsGo
        BY <2>4 DEF Preserve, HostsGo, TypeOK, RecoveryTypeOK
    <2>5. ASSUME NEW n \in Spot, NEW s \in Sandbox, CkStart(n, s) PROVE HostsGo
        BY <2>5, HostsTame DEF CkStart, ec2, reclaim
    <2>6. ASSUME NEW n \in Spot, NEW s \in Sandbox, CkWrite(n, s) PROVE HostsGo
        BY <2>6, HostsTame DEF CkWrite, ec2, reclaim
    <2>7. ASSUME NEW n \in Spot, NEW s \in Sandbox, CkDone(n, s) PROVE HostsGo
        BY <2>7, HostsTame DEF CkDone, ec2, reclaim
    <2>8. ASSUME NEW n \in Spot, NEW s \in Sandbox, CkFail(n, s) PROVE HostsGo
        BY <2>8, HostsTame DEF CkFail, ec2, reclaim
    <2> QED
        BY <1>1, <2>1, <2>2, <2>3, <2>4, <2>5, <2>6, <2>7, <2>8 DEF AgentStep
<1>2. CASE Ec2Step
    <2>1. ASSUME NEW n \in Spot, Deadline(n) PROVE HostsGo
        BY <2>1, HostsTame DEF Deadline, ec2, reclaim
    <2>2. ASSUME NEW n \in Spot, Terminate(n) PROVE HostsGo
        BY <2>2, HostEnds, PlacesAre DEF Terminate
    <2>3. ASSUME NEW n \in Standby, StandbyLost(n) PROVE HostsGo
        BY <2>3, HostEnds, PlacesAre DEF StandbyLost, reclaim
    <2>4. ASSUME NEW n \in Standby, StandbyJoins(n) PROVE HostsGo
        BY <2>4
        DEF StandbyJoins, reclaim, HostsGo, TypeOK, RecoveryTypeOK,
            StateVolumeTypeOK
    <2> QED
        BY <1>2, <2>1, <2>2, <2>3, <2>4 DEF Ec2Step
<1>3. CASE WorkStep
    <2>1. ASSUME NEW s \in Sandbox, NEW k \in {"suspend", "resume", "delete"},
                 WorkStart(s, k)
          PROVE  HostsGo
        BY <2>1, HostsTame DEF WorkStart, ec2, reclaim
    <2>2. ASSUME NEW s \in Sandbox, WorkCall(s) PROVE HostsGo
        BY <2>2, HostsTame DEF WorkCall, ec2, reclaim
    <2>3. ASSUME NEW s \in Sandbox, WorkDone(s) PROVE HostsGo
        BY <2>3, HostsTame DEF WorkDone, ec2, reclaim
    <2> QED
        BY <1>3, <2>1, <2>2, <2>3 DEF WorkStep
<1>4. CASE RcStep
    <2>1. ASSUME NEW n \in Spot, RcRead(n) PROVE HostsGo
        BY <2>1, HostsTame DEF RcRead, ec2, reclaim
    <2>2. CASE RcLookup
        BY <2>2, HostsTame DEF RcLookup, ec2, reclaim
    <2>3. CASE RcClaim
        BY <2>3, HostsTame DEF RcClaim, ec2, reclaim
    <2>4. CASE RcMark
        BY <2>4, HostsTame DEF RcMark, ec2, reclaim
    <2>5. CASE RcAttach
        BY <2>5, HostsTame DEF RcAttach, ec2, reclaim
    <2>6. CASE RcMount
        BY <2>6, HostsTame DEF RcMount, ec2, reclaim
    <2>7. ASSUME NEW s \in Sandbox, RcStart(s) PROVE HostsGo
        BY <2>7, HostsTame DEF RcStart, ec2, reclaim
    <2>8. ASSUME NEW s \in Sandbox, RcBoot(s) PROVE HostsGo
        BY <2>8, HostsTame DEF RcBoot, ec2, reclaim
    <2>9. ASSUME NEW s \in Sandbox, RcDone(s) PROVE HostsGo
        BY <2>9, HostsTame DEF RcDone, ec2, reclaim
    <2>10. ASSUME NEW s \in Sandbox, RcFail(s) PROVE HostsGo
        BY <2>10, HostsTame DEF RcFail, ec2, reclaim
    <2>11. CASE RcEnd
        BY <2>11
        DEF RcEnd, reclaim, HostsGo, TypeOK, RecoveryTypeOK, StateVolumeTypeOK
    <2> QED
        BY <1>4, <2>1, <2>2, <2>3, <2>4, <2>5, <2>6, <2>7, <2>8, <2>9, <2>10,
           <2>11
        DEF RcStep
<1>5. CASE RpStep
    <2>1. ASSUME NEW n \in Standby, RpRead(n) PROVE HostsGo
        BY <2>1, HostsTame DEF RpRead, ec2, reclaim
    <2>2. CASE RpLease
        BY <2>2, HostsTame DEF RpLease, ec2, reclaim
    <2>3. CASE RpEmpty
        BY <2>3, HostsTame DEF RpEmpty, ec2, reclaim
    <2>4. CASE RpDiscard
        BY <2>4, HostsTame DEF RpDiscard, ec2, reclaim
    <2>5. CASE RpTarget
        BY <2>5, HostsTame DEF RpTarget, ec2, reclaim
    <2>6. CASE RpMark
        BY <2>6, HostsTame DEF RpMark, ec2, reclaim
    <2>7. CASE RpNoGuest
        BY <2>7, HostsTame DEF RpNoGuest, ec2, reclaim
    <2>8. CASE RpHandoff
        BY <2>8, HostsTame DEF RpHandoff, ec2, reclaim
    <2>9. CASE RpUnmount
        BY <2>9, HostsTame DEF RpUnmount, Quiesce, ec2, reclaim
    <2>10. CASE RpDetach
        BY <2>10, HostsTame DEF RpDetach, Release, ec2, reclaim
    <2>11. CASE RpUnmountReplaced
        BY <2>11, HostsTame DEF RpUnmountReplaced, Quiesce, ec2, reclaim
    <2>12. CASE RpDetachReplaced
        BY <2>12, HostsTame DEF RpDetachReplaced, Release, ec2, reclaim
    <2>13. CASE RpAttach
        BY <2>13, HostsTame DEF RpAttach, ec2, reclaim
    <2>14. CASE RpMount
        BY <2>14, HostsTame DEF RpMount, ec2, reclaim
    <2>15. CASE RpHealth
        BY <2>15, HostsTame DEF RpHealth, ec2, reclaim
    <2>16. CASE RpRelease
        BY <2>16, HostsTame DEF RpRelease, ec2, reclaim
    <2>17. ASSUME NEW s \in Sandbox, RpSave(s) PROVE HostsGo
        BY <2>17, HostsTame DEF RpSave, ec2, reclaim
    <2>18. ASSUME NEW s \in Sandbox, RpFlag(s) PROVE HostsGo
        BY <2>18, HostsTame DEF RpFlag, ec2, reclaim
    <2>19. ASSUME NEW s \in Sandbox, RpReturn(s) PROVE HostsGo
        BY <2>19, HostsTame DEF RpReturn, ec2, reclaim
    <2>20. ASSUME NEW s \in Sandbox, RpBoot(s) PROVE HostsGo
        BY <2>20, HostsTame DEF RpBoot, ec2, reclaim
    <2>21. ASSUME NEW s \in Sandbox, RpBootFails(s) PROVE HostsGo
        BY <2>21, HostsTame DEF RpBootFails, ec2, reclaim
    <2>22. ASSUME NEW s \in Sandbox, RpDone(s) PROVE HostsGo
        BY <2>22, HostsTame DEF RpDone, ec2, reclaim
    <2>23. CASE RpTerminate
        BY <2>23, HostEnds, HostsTame, PlacesAre
        DEF RpTerminate, reclaim, TypeOK, RepatriationPc
    <2> QED
        BY <1>5, <2>1, <2>2, <2>3, <2>4, <2>5, <2>6, <2>7, <2>8, <2>9, <2>10,
           <2>11, <2>12, <2>13, <2>14, <2>15, <2>16, <2>17, <2>18, <2>19, <2>20,
           <2>21, <2>22, <2>23
        DEF RpStep
<1>6. CASE OperatorFault
    <2>1. CASE Crash
        BY <2>1, HostsTame DEF Crash, ec2, reclaim
    <2>2. CASE LeaseLost
        BY <2>2, HostsTame DEF LeaseLost, ec2, reclaim
    <2> QED
        BY <1>6, <2>1, <2>2 DEF OperatorFault
<1>7. CASE UNCHANGED vars
    BY <1>7, HostsTame DEF vars, recoveryVars
<1> QED
    BY <1>1, <1>2, <1>3, <1>4, <1>5, <1>6, <1>7 DEF Next

LEMMA HeartbeatTruths ==
    ASSUME TypeOK, VolumeInv, SpotJoined, HostsGo, NEW s \in Sandbox,
           SandboxInv(s), TruthInv(s),
           NEW n \in Node, Heartbeat(n)
    PROVE  TruthInv(s)'
    BY HeartbeatDoes, TruthStays DEF Kept

LEMMA HeartbeatExpireTruths ==
    ASSUME TypeOK, VolumeInv, SpotJoined, HostsGo, NEW s \in Sandbox,
           SandboxInv(s), TruthInv(s),
           NEW n \in Node, HeartbeatExpire(n)
    PROVE  TruthInv(s)'
    BY HeartbeatExpireDoes, TruthStays DEF Kept

LEMMA DeadlineTruths ==
    ASSUME TypeOK, VolumeInv, SpotJoined, HostsGo, NEW s \in Sandbox,
           SandboxInv(s), TruthInv(s),
           NEW n \in Spot, Deadline(n)
    PROVE  TruthInv(s)'
    BY DeadlineDoes, TruthStays DEF Kept

LEMMA StandbyLostTruths ==
    ASSUME TypeOK, VolumeInv, SpotJoined, HostsGo, NEW s \in Sandbox,
           SandboxInv(s), TruthInv(s),
           NEW n \in Standby, StandbyLost(n)
    PROVE  TruthInv(s)'
    BY StandbyLostDoes, TruthStays DEF Kept

LEMMA StandbyJoinsTruths ==
    ASSUME TypeOK, VolumeInv, SpotJoined, HostsGo, NEW s \in Sandbox,
           SandboxInv(s), TruthInv(s),
           NEW n \in Standby, StandbyJoins(n)
    PROVE  TruthInv(s)'
    BY StandbyJoinsDoes, TruthStays DEF Kept

LEMMA DetectTruths ==
    ASSUME TypeOK, VolumeInv, SpotJoined, HostsGo, NEW s \in Sandbox,
           SandboxInv(s), TruthInv(s),
           NEW n \in Spot, Detect(n)
    PROVE  TruthInv(s)'
    BY DetectDoes, TruthOnMove

LEMMA PreserveTruths ==
    ASSUME TypeOK, VolumeInv, SpotJoined, HostsGo, NEW s \in Sandbox,
           SandboxInv(s), TruthInv(s),
           NEW n \in Spot, Preserve(n)
    PROVE  TruthInv(s)'
<1>1. UNCHANGED <<host, vm, work, job, pass>> /\ Up(Source)
    BY PreserveDoes
<1>2. CASE Same(s)
    BY <1>1, <1>2, TruthStays
<1>3. CASE ck[s] = "listed" /\ JournalIs(s, "recovery_failed", Source)
    <2>1. /\ UNCHANGED <<host, vm, work, job, pass>> /\ ck[s] = "listed"
          /\ rec'[s] = rec[s] \/ rec'[s].state = "recovery_failed"
          /\ rec'[s].tgt = rec[s].tgt /\ rec'[s].node = rec[s].node
          /\ rec'[s].orig = rec[s].orig
        BY <1>1, <1>3 DEF JournalIs
    <2>2. JoinedInv(s)' /\ WayInv(s)' /\ BusyInv(s)' /\ WorkerInv(s)'
        BY <2>1
        DEF TruthInv, JoinedInv, Joined, WayInv, Recoverable, BusyInv, WorkerInv,
            Runs, Live, Up, HostsGo
    <2>3. OrigInv(s)'
        BY <2>1, HandingIs DEF TruthInv, OrigInv, Working, Recoverable
    <2>4. RunsInv(s)'
        BY <2>1 DEF TruthInv, RunsInv, Runs, Live, Up, Working, HostsGo
    <2> QED
        BY <2>2, <2>3, <2>4 DEF TruthInv
<1> QED
    BY <1>2, <1>3, PreserveDoes

LEMMA TerminateTruths ==
    ASSUME TypeOK, VolumeInv, SpotJoined, HostsGo, NEW s \in Sandbox,
           SandboxInv(s), TruthInv(s),
           NEW n \in Spot, Terminate(n)
    PROVE  TruthInv(s)'
<1>1. /\ UNCHANGED <<rec, work, job, pass>> /\ ~Up(Source)'
      /\ \A m \in Node : vm'[m][s] = IF m = Source THEN "none" ELSE vm[m][s]
    BY TerminateDoes
<1>2. JoinedInv(s)' /\ OrigInv(s)' /\ WayInv(s)' /\ BusyInv(s)'
    BY <1>1
    DEF TruthInv, JoinedInv, Joined, HostsGo, OrigInv, Working, WayInv, BusyInv
<1>3. WorkerInv(s)'
    BY <1>1, PlacesAre, RecordPlaces
    DEF TruthInv, WorkerInv, Runs, Live, Up, HostsGo, JoinedInv, Joined
<1>4. RunsInv(s)'
    BY <1>1, PlacesAre, RecordPlaces
    DEF TruthInv, RunsInv, Runs, Live, Up, Working, HostsGo, JoinedInv, Joined
<1> QED
    BY <1>2, <1>3, <1>4 DEF TruthInv

LEMMA RcEndTruths ==
    ASSUME TypeOK, VolumeInv, SpotJoined, HostsGo, NEW s \in Sandbox,
           SandboxInv(s), TruthInv(s),
           RcEnd
    PROVE  TruthInv(s)'
    BY RcEndDoes, TruthOnMove, PcsAre DEF Still, Ends

LEMMA CrashTruths ==
    ASSUME TypeOK, VolumeInv, SpotJoined, HostsGo, NEW s \in Sandbox,
           SandboxInv(s), TruthInv(s),
           Crash
    PROVE  TruthInv(s)'
    BY CrashDoes, TruthOnMove, PcsAre DEF Still, Ends

LEMMA RpNoGuestTruths ==
    ASSUME TypeOK, VolumeInv, SpotJoined, HostsGo, NEW s \in Sandbox,
           SandboxInv(s), TruthInv(s),
           RpNoGuest
    PROVE  TruthInv(s)'
    BY RpNoGuestDoes, TruthOnMove, PcsAre DEF Still, Ends

LEMMA RcReadTruths ==
    ASSUME TypeOK, VolumeInv, SpotJoined, HostsGo, NEW s \in Sandbox,
           SandboxInv(s), TruthInv(s),
           NEW n \in Spot, RcRead(n)
    PROVE  TruthInv(s)'
<1>1. /\ UNCHANGED <<vm, rec, work, job>> /\ pass.pc = "idle"
      /\ pass'.pc = "lookup"
      /\ s \in pass'.view => rec[s].state \in Recoverable
    BY RcReadDoes DEF Still, ViewOf
<1>2. JoinedInv(s)' /\ OrigInv(s)' /\ WayInv(s)' /\ BusyInv(s)'
    BY <1>1
    DEF TruthInv, JoinedInv, Joined, HostsGo, OrigInv, Working, WayInv, BusyInv
<1>3. WorkerInv(s)'
    BY <1>1, PlacesAre, RecordPlaces
    DEF TruthInv, WorkerInv, Runs, Live, Up, HostsGo, JoinedInv, Joined
<1>4. RunsInv(s)'
    BY <1>1, PlacesAre, RecordPlaces
    DEF TruthInv, RunsInv, Runs, Live, Up, Working, HostsGo, JoinedInv, Joined
<1> QED
    BY <1>2, <1>3, <1>4 DEF TruthInv

LEMMA RcLookupTruths ==
    ASSUME TypeOK, VolumeInv, SpotJoined, HostsGo, NEW s \in Sandbox,
           SandboxInv(s), TruthInv(s),
           RcLookup
    PROVE  TruthInv(s)'
<1>1. /\ UNCHANGED <<vm, work>> /\ pass.pc = "lookup"
      /\ job'[s] \in {job[s], "none"}
      /\ \/ pass'.pc = "idle"
         \/ pass'.pc \in {"mark", "claim"} /\ pass'.view = pass.view
      /\ rec'[s].tgt = rec[s].tgt /\ rec'[s].node = rec[s].node
      /\ rec'[s].orig = rec[s].orig
      /\ rec'[s] = rec[s] \/ rec'[s].state = "recovery_failed"
    BY RcLookupDoes DEF RecIs, Ends
<1>2. JoinedInv(s)'
    BY <1>1, NoJobs DEF TruthInv, JoinedInv, Joined, HostsGo
<1>3. OrigInv(s)'
    BY <1>1, PcsAre, HandingIs DEF TruthInv, OrigInv, Working, Recoverable
<1>4. WayInv(s)'
    BY <1>1, PcsAre DEF TruthInv, WayInv, Recoverable
<1>5. BusyInv(s)'
    BY <1>1 DEF TruthInv, BusyInv
<1>6. WorkerInv(s)'
    BY <1>1, PlacesAre, RecordPlaces
    DEF TruthInv, WorkerInv, Runs, Live, Up, HostsGo, JoinedInv, Joined
<1>7. RunsInv(s)'
    BY <1>1, PlacesAre, RecordPlaces
    DEF TruthInv, RunsInv, Runs, Live, Up, Working, HostsGo, JoinedInv, Joined
<1> QED
    BY <1>2, <1>3, <1>4, <1>5, <1>6, <1>7 DEF TruthInv

LEMMA RcClaimTruths ==
    ASSUME TypeOK, VolumeInv, SpotJoined, HostsGo, NEW s \in Sandbox,
           SandboxInv(s), TruthInv(s),
           RcClaim
    PROVE  TruthInv(s)'
    BY RcClaimDoes, TruthOnMove, PcsAre DEF Still, Ends, PassIs

LEMMA RcMarkTruths ==
    ASSUME TypeOK, VolumeInv, SpotJoined, HostsGo, NEW s \in Sandbox,
           SandboxInv(s), TruthInv(s),
           RcMark
    PROVE  TruthInv(s)'
<1>1. /\ UNCHANGED <<vm, work, job>> /\ pass.pc = "mark"
      /\ pass'.pc = "attach" /\ pass'.view = pass.view
      /\ pass.tgt \in Standby
      /\ s \in pass.view => /\ rec'[s].state = "attaching"
                            /\ rec'[s].tgt = pass.tgt
                            /\ rec'[s].node = rec[s].node
                            /\ rec'[s].orig = rec[s].orig
      /\ s \notin pass.view => rec'[s] = rec[s]
    BY RcMarkDoes DEF RecIs
<1>2. JoinedInv(s)' /\ BusyInv(s)'
    BY <1>1 DEF TruthInv, JoinedInv, Joined, HostsGo, BusyInv
<1>3. OrigInv(s)'
    BY <1>1, PcsAre DEF TruthInv, OrigInv, Working
<1>4. WayInv(s)'
    BY <1>1, PcsAre, PlacesAre, NoJobs
    DEF TruthInv, WayInv, SandboxInv, ParkedInv, InRecovery, Parked
<1>5. WorkerInv(s)'
    BY <1>1, PlacesAre, RecordPlaces
    DEF TruthInv, WorkerInv, Runs, Live, Up, HostsGo, JoinedInv, Joined
<1>6. RunsInv(s)'
    BY <1>1, PlacesAre, RecordPlaces
    DEF TruthInv, RunsInv, Runs, Live, Up, Working, HostsGo, JoinedInv, Joined
<1> QED
    BY <1>2, <1>3, <1>4, <1>5, <1>6 DEF TruthInv

LEMMA RcAttachTruths ==
    ASSUME TypeOK, VolumeInv, SpotJoined, HostsGo, NEW s \in Sandbox,
           SandboxInv(s), TruthInv(s),
           RcAttach
    PROVE  TruthInv(s)'
    BY RcAttachDoes, TruthOnMove, PcsAre DEF Still, Ends, PassIs

LEMMA RcMountTruths ==
    ASSUME TypeOK, VolumeInv, SpotJoined, HostsGo, NEW s \in Sandbox,
           SandboxInv(s), TruthInv(s),
           RcMount
    PROVE  TruthInv(s)'
    BY RcMountDoes, TruthOnMove, PcsAre DEF Still, Ends, PassIs

LEMMA RpReadTruths ==
    ASSUME TypeOK, VolumeInv, SpotJoined, HostsGo, NEW s \in Sandbox,
           SandboxInv(s), TruthInv(s),
           NEW n \in Standby, RpRead(n)
    PROVE  TruthInv(s)'
    BY RpReadDoes, TruthOnMove, PcsAre DEF Still

LEMMA RpLeaseTruths ==
    ASSUME TypeOK, VolumeInv, SpotJoined, HostsGo, NEW s \in Sandbox,
           SandboxInv(s), TruthInv(s),
           RpLease
    PROVE  TruthInv(s)'
<1>1. CASE Ends
    BY <1>1, RpLeaseDoes, TruthOnMove, PcsAre DEF Still, Ends
<1>2. CASE ~Ends
    <2>1. /\ UNCHANGED <<vm, rec, work, job>>
          /\ pass'.pc \in {"empty", "target"} /\ pass.src \in Standby
          /\ s \in pass'.view => rec[s].tgt = pass.src
          /\ rec[s].tgt = pass.src => lease[s] = "none"
        BY <1>2, RpLeaseDoes, PcsAre DEF Still, Owned, TypeOK
    <2>2. JoinedInv(s)'
        BY <2>1 DEF TruthInv, JoinedInv, Joined, HostsGo
    <2>3. OrigInv(s)'
        BY <2>1, PcsAre DEF TruthInv, OrigInv, Working
    <2>4. WayInv(s)'
        BY <2>1, PlacesAre DEF TruthInv, WayInv
    <2>5. BusyInv(s)'
        BY <2>1 DEF TruthInv, BusyInv, SandboxInv, LeaseInv
    <2>6. WorkerInv(s)'
        BY <2>1, PlacesAre, RecordPlaces
        DEF TruthInv, WorkerInv, Runs, Live, Up, HostsGo, JoinedInv, Joined
    <2>7. RunsInv(s)'
        BY <2>1, PlacesAre, RecordPlaces
        DEF TruthInv, RunsInv, Runs, Live, Up, Working, HostsGo, JoinedInv, Joined
    <2> QED
        BY <2>2, <2>3, <2>4, <2>5, <2>6, <2>7 DEF TruthInv
<1> QED
    BY <1>1, <1>2

LEMMA LeaseLostTruths ==
    ASSUME TypeOK, VolumeInv, SpotJoined, HostsGo, NEW s \in Sandbox,
           SandboxInv(s), TruthInv(s),
           LeaseLost
    PROVE  TruthInv(s)'
    BY LeaseLostDoes, TruthOnMove, PcsAre DEF Still, Ends, PassIs

LEMMA RpEmptyTruths ==
    ASSUME TypeOK, VolumeInv, SpotJoined, HostsGo, NEW s \in Sandbox,
           SandboxInv(s), TruthInv(s),
           RpEmpty
    PROVE  TruthInv(s)'
    BY RpEmptyDoes, TruthOnMove, PcsAre DEF Still, Ends, PassIs

LEMMA RpDiscardTruths ==
    ASSUME TypeOK, VolumeInv, SpotJoined, HostsGo, NEW s \in Sandbox,
           SandboxInv(s), TruthInv(s),
           RpDiscard
    PROVE  TruthInv(s)'
    BY RpDiscardDoes, TruthOnMove, PcsAre, PlacesAre DEF Still, Ends, PassIs

LEMMA RpTargetTruths ==
    ASSUME TypeOK, VolumeInv, SpotJoined, HostsGo, NEW s \in Sandbox,
           SandboxInv(s), TruthInv(s),
           RpTarget
    PROVE  TruthInv(s)'
    BY RpTargetDoes, TruthOnMove, PcsAre DEF Still, Ends, PassIs

LEMMA RpMarkTruths ==
    ASSUME TypeOK, VolumeInv, SpotJoined, HostsGo, NEW s \in Sandbox,
           SandboxInv(s), TruthInv(s),
           RpMark
    PROVE  TruthInv(s)'
<1>1. /\ UNCHANGED <<vm, work, job>> /\ pass.pc = "mark2"
      /\ pass'.pc = "checkpoint" /\ pass'.view = pass.view
      /\ rec'[s].tgt = rec[s].tgt /\ rec'[s].node = rec[s].node
      /\ s \notin pass.view => rec'[s] = rec[s]
      /\ s \in pass.view =>
            /\ rec'[s].state = "repatriating"
            /\ rec'[s].orig = IF rec[s].orig = "none" THEN rec[s].state
                              ELSE rec[s].orig
    BY RpMarkDoes DEF PassIs
<1>2. JoinedInv(s)' /\ BusyInv(s)'
    BY <1>1 DEF TruthInv, JoinedInv, Joined, HostsGo, BusyInv
<1>3. OrigInv(s)'
    BY <1>1, PcsAre, HandingIs, PlacesAre, PassPlaces, NoJobs
    DEF TruthInv, OrigInv, BusyInv, SandboxInv, ViewInv, PlaceInv, Working,
        Recoverable
<1>4. WayInv(s)'
    BY <1>1, PcsAre DEF TruthInv, WayInv, Recoverable
<1>5. WorkerInv(s)'
    BY <1>1, PlacesAre, RecordPlaces
    DEF TruthInv, WorkerInv, Runs, Live, Up, HostsGo, JoinedInv, Joined
<1>6. RunsInv(s)'
    BY <1>1, PlacesAre, RecordPlaces
    DEF TruthInv, RunsInv, Runs, Live, Up, Working, HostsGo, JoinedInv, Joined
<1> QED
    BY <1>2, <1>3, <1>4, <1>5, <1>6 DEF TruthInv

LEMMA RpHandoffTruths ==
    ASSUME TypeOK, VolumeInv, SpotJoined, HostsGo, NEW s \in Sandbox,
           SandboxInv(s), TruthInv(s),
           RpHandoff
    PROVE  TruthInv(s)'
    BY RpHandoffDoes, TruthOnMove, PcsAre DEF Still, Ends, PassIs

LEMMA RpUnmountTruths ==
    ASSUME TypeOK, VolumeInv, SpotJoined, HostsGo, NEW s \in Sandbox,
           SandboxInv(s), TruthInv(s),
           RpUnmount
    PROVE  TruthInv(s)'
    BY RpUnmountDoes, TruthOnMove, PcsAre DEF Still, Ends, PassIs, QuiesceIs

LEMMA RpUnmountReplacedTruths ==
    ASSUME TypeOK, VolumeInv, SpotJoined, HostsGo, NEW s \in Sandbox,
           SandboxInv(s), TruthInv(s),
           RpUnmountReplaced
    PROVE  TruthInv(s)'
    BY RpUnmountReplacedDoes, TruthOnMove, PcsAre
    DEF Still, Ends, PassIs, QuiesceIs

LEMMA RpDetachTruths ==
    ASSUME TypeOK, VolumeInv, SpotJoined, HostsGo, NEW s \in Sandbox,
           SandboxInv(s), TruthInv(s),
           RpDetach
    PROVE  TruthInv(s)'
    BY RpDetachDoes, TruthOnMove, PcsAre DEF Still, Ends, PassIs

LEMMA RpDetachReplacedTruths ==
    ASSUME TypeOK, VolumeInv, SpotJoined, HostsGo, NEW s \in Sandbox,
           SandboxInv(s), TruthInv(s),
           RpDetachReplaced
    PROVE  TruthInv(s)'
    BY RpDetachReplacedDoes, TruthOnMove, PcsAre DEF Still, Ends, PassIs

LEMMA RpAttachTruths ==
    ASSUME TypeOK, VolumeInv, SpotJoined, HostsGo, NEW s \in Sandbox,
           SandboxInv(s), TruthInv(s),
           RpAttach
    PROVE  TruthInv(s)'
    BY RpAttachDoes, TruthOnMove, PcsAre DEF Still, Ends, PassIs

LEMMA RpMountTruths ==
    ASSUME TypeOK, VolumeInv, SpotJoined, HostsGo, NEW s \in Sandbox,
           SandboxInv(s), TruthInv(s),
           RpMount
    PROVE  TruthInv(s)'
    BY RpMountDoes, TruthOnMove, PcsAre DEF Still, Ends, PassIs

LEMMA RpHealthTruths ==
    ASSUME TypeOK, VolumeInv, SpotJoined, HostsGo, NEW s \in Sandbox,
           SandboxInv(s), TruthInv(s),
           RpHealth
    PROVE  TruthInv(s)'
    BY RpHealthDoes, TruthOnMove, PcsAre DEF Still, Ends, PassIs

LEMMA RpReleaseTruths ==
    ASSUME TypeOK, VolumeInv, SpotJoined, HostsGo, NEW s \in Sandbox,
           SandboxInv(s), TruthInv(s),
           RpRelease
    PROVE  TruthInv(s)'
    BY RpReleaseDoes, TruthOnMove, PcsAre DEF Still, Ends, PassIs

LEMMA RpTerminateTruths ==
    ASSUME TypeOK, VolumeInv, SpotJoined, HostsGo, NEW s \in Sandbox,
           SandboxInv(s), TruthInv(s),
           RpTerminate
    PROVE  TruthInv(s)'
<1>1. /\ UNCHANGED <<rec, work>> /\ job'[s] = "none" /\ pass'.pc = "idle"
      /\ pass.src \in Standby
      /\ \/ UNCHANGED <<host, vm>>
         \/ \A m \in Node :
               /\ host'[m] = IF m = pass.src THEN "gone" ELSE host[m]
               /\ vm'[m][s] = IF m = pass.src THEN "none" ELSE vm[m][s]
    BY RpTerminateDoes DEF Ends
<1>2. JoinedInv(s)'
    BY <1>1, PlacesAre DEF TruthInv, JoinedInv, Joined
<1>3. OrigInv(s)' /\ WayInv(s)'
    BY <1>1, PcsAre DEF TruthInv, OrigInv, Working, WayInv
<1>4. BusyInv(s)'
    BY <1>1 DEF TruthInv, BusyInv
<1>5. WorkerInv(s)' /\ RunsInv(s)'
    BY <1>1, PlacesAre, RecordPlaces
    DEF TruthInv, WorkerInv, Runs, Live, Up, HostsGo, RunsInv, Working
<1> QED
    BY <1>2, <1>3, <1>4, <1>5 DEF TruthInv

-----------------------------------------------------------------------------
(* Every step. *)

\* All of it.
GuestsInv ==
    /\ VolumeInv /\ SpotJoined
    /\ \A s \in Sandbox : SandboxInv(s) /\ TruthInv(s)

LEMMA SpotsStay ==
    ASSUME SpotJoined, HostsGo
    PROVE  SpotJoined'
    BY PlacesAre DEF SpotJoined, Joined, HostsGo

LEMMA OneSandbox ==
    ASSUME TypeOK, GuestsInv, HostsGo, NEW s \in Sandbox,
           Settled, Others(s), SandboxInv(s)', TruthInv(s)',
           rec'[s].sess \in {Source, None},
           UNCHANGED ck \/ evac[Source] # "calm"
    PROVE  GuestsInv'
<1>1. VolumeInv'
    BY SettledVolume DEF GuestsInv
<1>2. ASSUME NEW r \in Sandbox \ {s} PROVE SandboxInv(r)' /\ TruthInv(r)'
    <2>1. Same(r) /\ UNCHANGED <<host, mnt, pass>>
        BY <1>2 DEF Others, Settled
    <2> QED
        BY <1>2, <2>1, Untouched, TruthStays DEF GuestsInv, Up
<1> QED
    BY <1>1, <1>2, SpotsStay DEF GuestsInv

LEMMA CheckpointsGuests ==
    ASSUME TypeOK, GuestsInv, HostsGo, NEW n \in Spot, NEW s \in Sandbox,
           CkStart(n, s) \/ CkWrite(n, s) \/ CkDone(n, s) \/ CkFail(n, s)
    PROVE  GuestsInv'
<1>0. /\ VolumeInv /\ SpotJoined /\ SandboxInv(s) /\ TruthInv(s)
      /\ rec[s].sess \in {Source, None}
    BY DEF GuestsInv, VolumeInv, SourceInv
<1>1. CASE CkStart(n, s)
    BY <1>0, <1>1, CkStartDoes, CkStartGuest, CkStartTruth, OneSandbox
    DEF JournalIs
<1>2. CASE CkWrite(n, s)
    BY <1>0, <1>2, CkWriteDoes, CkWriteGuest, CkWriteTruth, OneSandbox
    DEF JournalIs
<1>3. CASE CkDone(n, s)
    BY <1>0, <1>3, CkDoneDoes, CkDoneGuest, CkDoneTruth, OneSandbox
    DEF JournalIs
<1>4. CASE CkFail(n, s)
    BY <1>0, <1>4, CkFailDoes, CkFailGuest, CkFailTruth, OneSandbox
    DEF JournalIs
<1> QED
    BY <1>1, <1>2, <1>3, <1>4

LEMMA WorkersGuests ==
    ASSUME TypeOK, GuestsInv, HostsGo, WorkStep
    PROVE  GuestsInv'
<1>0. PICK s \in Sandbox :
         \/ \E k \in {"suspend", "resume", "delete"} : WorkStart(s, k)
         \/ WorkCall(s)
         \/ WorkDone(s)
    BY DEF WorkStep
<1>1. /\ VolumeInv /\ SpotJoined /\ SandboxInv(s) /\ TruthInv(s)
      /\ rec[s].sess \in {Source, None}
    BY DEF GuestsInv, VolumeInv, SourceInv
<1>2. ASSUME NEW k \in {"suspend", "resume", "delete"}, WorkStart(s, k)
      PROVE  GuestsInv'
    BY <1>1, <1>2, WorkStartDoes, WorkStartGuest, WorkStartTruth, OneSandbox
    DEF RecIs
<1>3. CASE WorkCall(s)
    BY <1>1, <1>3, WorkCallDoes, WorkCallGuest, WorkCallTruth, OneSandbox
<1>4. CASE WorkDone(s)
    <2>1. rec'[s].sess \in {Source, None}
        BY <1>1, <1>4, WorkDoneDoes, NoRecordIs DEF RecIs
    <2> QED
        BY <1>1, <1>4, <2>1, WorkDoneDoes, WorkDoneGuest, WorkDoneTruth,
           OneSandbox
<1> QED
    BY <1>0, <1>2, <1>3, <1>4

LEMMA JobsGuests ==
    ASSUME TypeOK, GuestsInv, HostsGo, NEW s \in Sandbox,
           \/ RcStart(s) \/ RcBoot(s) \/ RcDone(s) \/ RcFail(s)
           \/ RpSave(s) \/ RpFlag(s)
           \/ RpReturn(s) \/ RpBoot(s) \/ RpBootFails(s) \/ RpDone(s)
    PROVE  GuestsInv'
<1>0. /\ VolumeInv /\ SpotJoined /\ SandboxInv(s) /\ TruthInv(s)
      /\ rec[s].sess \in {Source, None}
    BY DEF GuestsInv, VolumeInv, SourceInv
<1>1. CASE RcStart(s)
    BY <1>0, <1>1, RcStartDoes, RcStartGuest, RcStartTruth, OneSandbox DEF RecIs
<1>2. CASE RcBoot(s)
    BY <1>0, <1>2, RcBootDoes, RcBootGuest, RcBootTruth, OneSandbox DEF RecIs
<1>3. CASE RcDone(s)
    BY <1>0, <1>3, RcDoneDoes, RcDoneGuest, RcDoneTruth, OneSandbox DEF RecIs
<1>4. CASE RcFail(s)
    BY <1>0, <1>4, RcFailDoes, RcFailGuest, RcFailTruth, OneSandbox DEF RecIs
<1>5. CASE RpSave(s)
    BY <1>0, <1>5, RpSaveDoes, RpSaveGuest, RpSaveTruth, OneSandbox DEF RecIs
<1>6. CASE RpFlag(s)
    BY <1>0, <1>6, RpFlagDoes, RpFlagGuest, RpFlagTruth, OneSandbox
    DEF FlaggedIs
<1>7. CASE RpReturn(s)
    BY <1>0, <1>7, RpReturnDoes, RpReturnGuest, RpReturnTruth, OneSandbox
    DEF RecIs
<1>8. CASE RpBoot(s)
    BY <1>0, <1>8, RpBootDoes, RpBootGuest, RpBootTruth, OneSandbox DEF RecIs
<1>9. CASE RpBootFails(s)
    BY <1>0, <1>9, RpBootFailsDoes, RpBootFailsGuest, RpBootFailsTruth,
       OneSandbox
    DEF RecIs
<1>10. CASE RpDone(s)
    BY <1>0, <1>10, RpDoneDoes, RpDoneGuest, RpDoneTruth, OneSandbox DEF RecIs
<1> QED
    BY <1>1, <1>2, <1>3, <1>4, <1>5, <1>6, <1>7, <1>8, <1>9, <1>10

LEMMA AgentsGuests ==
    ASSUME TypeOK, GuestsInv, HostsGo, AgentStep
    PROVE  GuestsInv'
<1>0. VolumeInv /\ SpotJoined /\ SpotJoined'
    BY SpotsStay DEF GuestsInv
<1>1. ASSUME NEW n \in Node, Heartbeat(n) PROVE GuestsInv'
    BY <1>0, <1>1, HeartbeatDoes, HeartbeatGuests, HeartbeatTruths DEF GuestsInv
<1>2. ASSUME NEW n \in Node, HeartbeatExpire(n) PROVE GuestsInv'
    BY <1>0, <1>2, HeartbeatExpireDoes, HeartbeatExpireGuests,
       HeartbeatExpireTruths
    DEF GuestsInv
<1>3. ASSUME NEW n \in Spot, Detect(n) PROVE GuestsInv'
    BY <1>0, <1>3, DetectDoes, DetectGuests, DetectTruths DEF GuestsInv
<1>4. ASSUME NEW n \in Spot, Preserve(n) PROVE GuestsInv'
    BY <1>0, <1>4, PreserveDoes, PreserveGuests, PreserveTruths DEF GuestsInv
<1> QED
    BY <1>1, <1>2, <1>3, <1>4, CheckpointsGuests DEF AgentStep

LEMMA Ec2Guests ==
    ASSUME TypeOK, GuestsInv, HostsGo, Ec2Step
    PROVE  GuestsInv'
<1>0. VolumeInv /\ SpotJoined /\ SpotJoined'
    BY SpotsStay DEF GuestsInv
<1>1. ASSUME NEW n \in Spot, Deadline(n) PROVE GuestsInv'
    BY <1>0, <1>1, DeadlineDoes, DeadlineGuests, DeadlineTruths DEF GuestsInv
<1>2. ASSUME NEW n \in Spot, Terminate(n) PROVE GuestsInv'
    BY <1>0, <1>2, TerminateDoes, TerminateGuests, TerminateTruths DEF GuestsInv
<1>3. ASSUME NEW n \in Standby, StandbyLost(n) PROVE GuestsInv'
    BY <1>0, <1>3, StandbyLostDoes, StandbyLostGuests, StandbyLostTruths
    DEF GuestsInv
<1>4. ASSUME NEW n \in Standby, StandbyJoins(n) PROVE GuestsInv'
    BY <1>0, <1>4, StandbyJoinsDoes, StandbyJoinsGuests, StandbyJoinsTruths
    DEF GuestsInv
<1> QED
    BY <1>1, <1>2, <1>3, <1>4 DEF Ec2Step

LEMMA RecoveryGuests ==
    ASSUME TypeOK, GuestsInv, HostsGo, RcStep
    PROVE  GuestsInv'
<1>0. VolumeInv /\ SpotJoined /\ SpotJoined'
    BY SpotsStay DEF GuestsInv
<1>1. ASSUME NEW n \in Spot, RcRead(n) PROVE GuestsInv'
    BY <1>0, <1>1, RcReadDoes, RcReadGuests, RcReadTruths DEF GuestsInv
<1>2. CASE RcLookup
    BY <1>0, <1>2, RcLookupDoes, RcLookupGuests, RcLookupTruths DEF GuestsInv
<1>3. CASE RcClaim
    BY <1>0, <1>3, RcClaimDoes, RcClaimGuests, RcClaimTruths DEF GuestsInv
<1>4. CASE RcMark
    BY <1>0, <1>4, RcMarkDoes, RcMarkGuests, RcMarkTruths DEF GuestsInv
<1>5. CASE RcAttach
    BY <1>0, <1>5, RcAttachDoes, RcAttachGuests, RcAttachTruths DEF GuestsInv
<1>6. CASE RcMount
    BY <1>0, <1>6, RcMountDoes, RcMountGuests, RcMountTruths DEF GuestsInv
<1>7. CASE RcEnd
    BY <1>0, <1>7, RcEndDoes, RcEndGuests, RcEndTruths DEF GuestsInv
<1> QED
    BY <1>1, <1>2, <1>3, <1>4, <1>5, <1>6, <1>7, JobsGuests DEF RcStep

LEMMA RepatriationGuests ==
    ASSUME TypeOK, GuestsInv, HostsGo, RpStep
    PROVE  GuestsInv'
<1>0. VolumeInv /\ SpotJoined /\ SpotJoined'
    BY SpotsStay DEF GuestsInv
<1>1. ASSUME NEW n \in Standby, RpRead(n) PROVE GuestsInv'
    BY <1>0, <1>1, RpReadDoes, RpReadGuests, RpReadTruths DEF GuestsInv
<1>2. CASE RpLease
    BY <1>0, <1>2, RpLeaseDoes, RpLeaseGuests, RpLeaseTruths DEF GuestsInv
<1>3. CASE RpEmpty
    BY <1>0, <1>3, RpEmptyDoes, RpEmptyGuests, RpEmptyTruths DEF GuestsInv
<1>4. CASE RpDiscard
    BY <1>0, <1>4, RpDiscardDoes, RpDiscardGuests, RpDiscardTruths DEF GuestsInv
<1>5. CASE RpTarget
    BY <1>0, <1>5, RpTargetDoes, RpTargetGuests, RpTargetTruths DEF GuestsInv
<1>6. CASE RpMark
    BY <1>0, <1>6, RpMarkDoes, RpMarkGuests, RpMarkTruths DEF GuestsInv
<1>7. CASE RpNoGuest
    BY <1>0, <1>7, RpNoGuestDoes, RpNoGuestGuests, RpNoGuestTruths DEF GuestsInv
<1>8. CASE RpHandoff
    BY <1>0, <1>8, RpHandoffDoes, RpHandoffGuests, RpHandoffTruths DEF GuestsInv
<1>9. CASE RpUnmount
    BY <1>0, <1>9, RpUnmountDoes, RpUnmountGuests, RpUnmountTruths DEF GuestsInv
<1>10. CASE RpDetach
    BY <1>0, <1>10, RpDetachDoes, RpDetachGuests, RpDetachTruths DEF GuestsInv
<1>11. CASE RpUnmountReplaced
    BY <1>0, <1>11, RpUnmountReplacedDoes, RpUnmountReplacedGuests,
       RpUnmountReplacedTruths
    DEF GuestsInv
<1>12. CASE RpDetachReplaced
    BY <1>0, <1>12, RpDetachReplacedDoes, RpDetachReplacedGuests,
       RpDetachReplacedTruths
    DEF GuestsInv
<1>13. CASE RpAttach
    BY <1>0, <1>13, RpAttachDoes, RpAttachGuests, RpAttachTruths DEF GuestsInv
<1>14. CASE RpMount
    BY <1>0, <1>14, RpMountDoes, RpMountGuests, RpMountTruths DEF GuestsInv
<1>15. CASE RpHealth
    BY <1>0, <1>15, RpHealthDoes, RpHealthGuests, RpHealthTruths DEF GuestsInv
<1>16. CASE RpRelease
    BY <1>0, <1>16, RpReleaseDoes, RpReleaseGuests, RpReleaseTruths
    DEF GuestsInv
<1>17. CASE RpTerminate
    BY <1>0, <1>17, RpTerminateDoes, RpTerminateGuests, RpTerminateTruths
    DEF GuestsInv
<1> QED
    BY <1>1, <1>2, <1>3, <1>4, <1>5, <1>6, <1>7, <1>8, <1>9, <1>10, <1>11,
       <1>12, <1>13, <1>14, <1>15, <1>16, <1>17, JobsGuests
    DEF RpStep

LEMMA FaultsGuests ==
    ASSUME TypeOK, GuestsInv, HostsGo, OperatorFault
    PROVE  GuestsInv'
<1>0. VolumeInv /\ SpotJoined /\ SpotJoined'
    BY SpotsStay DEF GuestsInv
<1>1. CASE Crash
    BY <1>0, <1>1, CrashDoes, CrashGuests, CrashTruths DEF GuestsInv
<1>2. CASE LeaseLost
    BY <1>0, <1>2, LeaseLostDoes, LeaseLostGuests, LeaseLostTruths DEF GuestsInv
<1> QED
    BY <1>1, <1>2 DEF OperatorFault

LEMMA GuestsInit ==
    ASSUME RecoveryInit
    PROVE  GuestsInv
<1>1. /\ \A n \in Node : mnt[n] = IF n \in Spot THEN n ELSE None
      /\ at[Home] = Home
    BY PlacesAre DEF RecoveryInit, StateVolumeInit
<1>2. \A n \in Node, s \in Sandbox :
         IF n = Source THEN vm[n][s] \in {"suspended", "running"}
         ELSE vm[n][s] = "none"
    <2>1. StateVolumeInit
        BY DEF RecoveryInit
    <2>2. PICK asleep \in SUBSET Asked :
             vm = [n \in Node |-> [s \in Sandbox |->
                     IF n # Source THEN "none"
                     ELSE IF s \in asleep THEN "suspended" ELSE "running"]]
        BY <2>1 DEF StateVolumeInit
    <2> QED
        BY <2>2
<1>3. /\ hb[Source].vol = mnt[Source]
      /\ rclaim[Source].by = None
      /\ past = {}
      /\ \A n \in Spot : evac[n] = "calm"
    BY PlacesAre DEF RecoveryInit, Unclaimed
<1>4. pass.pc = "idle" /\ \A s \in Sandbox : job[s] = "none"
    BY IdleIs DEF RecoveryInit, NoJob
<1>5. ASSUME NEW s \in Sandbox
      PROVE  /\ rec[s].state = vm[Source][s] /\ rec[s].node = Source
             /\ rec[s].tgt = None /\ rec[s].sess = None /\ rec[s].orig = "none"
             /\ ck[s] = "none" /\ lease[s] = "none"
             /\ work[s].kind = "none" /\ work[s].res = "none"
    <2>1. rec[s] = [NoRecord EXCEPT !.state = vm[Source][s], !.node = Source]
        BY DEF RecoveryInit
    <2>2. work[s] = NoWork /\ ck[s] = "none" /\ lease[s] = "none"
        BY DEF RecoveryInit
    <2> QED
        BY <2>1, <2>2, NoRecordIs DEF NoRecord, NoWork
<1>6. SpotJoined
    BY PlacesAre, StateVolumeAssumption
    DEF SpotJoined, Joined, RecoveryInit, StateVolumeInit
<1>7. VolumeInv
    BY <1>1, <1>3, <1>4, <1>5, PlacesAre, PcsAre, HandingIs
    DEF VolumeInv, MountedInv, SourceInv, RecoveryPassInv, HandoffPassInv
<1>8. ASSUME NEW s \in Sandbox PROVE SandboxInv(s)
    <2>1. vm[Source][s] \in {"suspended", "running"}
        BY <1>2, PlacesAre
    <2>2. LeaseInv(s) /\ ViewInv(s) /\ MarkedInv(s) /\ JobInv(s)
        BY <1>4, <1>5, PcsAre, HandingIs, PlacesAre
        DEF LeaseInv, ViewInv, MarkedInv, JobInv, Working
    <2>3. PlaceInv(s) /\ EndedInv(s) /\ StillInv(s)
        BY <1>4, <1>5, <2>1, StatesAre, HandingIs, PlacesAre
        DEF PlaceInv, EndedInv, StillInv, Working, Recoverable
    <2>4. ParkedInv(s) /\ HomeInv(s) /\ GhostInv(s)
        BY <1>4, <1>5, <2>1, PcsAre, StatesAre, PlacesAre
        DEF ParkedInv, InRecovery, HomeInv, GhostInv, Ghost, Recoverable
    <2>5. GuestInv(s)
        BY <1>1, <1>2, PlacesAre DEF GuestInv
    <2> QED
        BY <2>2, <2>3, <2>4, <2>5 DEF SandboxInv
<1>9. ASSUME NEW s \in Sandbox PROVE TruthInv(s)
    <2>1. /\ vm[Source][s] \in {"suspended", "running"}
          /\ work[s].at = None
          /\ Joined(Source)
        BY <1>2, <1>6, PlacesAre DEF SpotJoined, RecoveryInit, NoWork
    <2>2. JoinedInv(s) /\ OrigInv(s) /\ WayInv(s) /\ BusyInv(s)
        BY <1>4, <1>5, <2>1, PcsAre, PlacesAre, StatesAre
        DEF JoinedInv, OrigInv, WayInv, BusyInv, Joined
    <2>3. WorkerInv(s) /\ RunsInv(s)
        BY <1>4, <1>5, <2>1, PlacesAre
        DEF WorkerInv, RunsInv, Runs, Working
    <2> QED
        BY <2>2, <2>3 DEF TruthInv
<1> QED
    BY <1>6, <1>7, <1>8, <1>9 DEF GuestsInv

LEMMA GuestsStay ==
    ASSUME TypeOK, GuestsInv, HostsGo, UNCHANGED vars
    PROVE  GuestsInv'
<1>1. UNCHANGED <<host, at, mnt, hb, claim, rclaim, evac, past, pass, rec, ck>>
      /\ UNCHANGED <<work, lease, job, vm>>
    BY DEF vars, recoveryVars
<1>2. VolumeInv'
    BY <1>1, VolumeStays DEF GuestsInv, VolumeInv, SourceInv
<1>3. ASSUME NEW s \in Sandbox PROVE SandboxInv(s)' /\ TruthInv(s)'
    <2>1. Same(s)
        BY <1>1 DEF Same
    <2> QED
        BY <1>1, <2>1, Untouched, TruthStays DEF GuestsInv, Up
<1> QED
    BY <1>2, <1>3, SpotsStay DEF GuestsInv

LEMMA GuestsStep ==
    ASSUME TypeOK, GuestsInv, [Next]_vars
    PROVE  GuestsInv'
<1>1. HostsGo
    BY HostsOnlyGo DEF GuestsInv
<1> QED
    BY <1>1, AgentsGuests, Ec2Guests, WorkersGuests, RecoveryGuests,
        RepatriationGuests, FaultsGuests, GuestsStay
    DEF Next

\* Evacuation, recovery, handoff and the operator's own work, with all their
\* failures, keep the guests where the volume is and the records true.
THEOREM GuestsStayTrue == Spec => []GuestsInv
<1>1. RecoveryInit => GuestsInv
    BY GuestsInit
<1>2. TypeOK /\ GuestsInv /\ [Next]_vars => GuestsInv'
    BY GuestsStep
<1> QED
    BY <1>1, <1>2, SpotTypeCorrect, PTL DEF Spec

\* A guest runs only on the host that has the state volume attached and mounted,
\* whatever is interrupted and in whatever order hosts end and requests come in
\* (but for a record that a recovery pass brought back after its deletion).
THEOREM GuestsOnTheirVolume == Spec => []GuestOnItsVolume
<1>1. GuestsInv => GuestOnItsVolume
    BY DEF GuestsInv, VolumeInv, MountedInv, SandboxInv, GuestInv,
           GuestOnItsVolume
<1> QED
    BY <1>1, GuestsStayTrue, PTL

\* A record that says running is true while its host is up and not reclaimed:
\* the records that a recovery, a handoff or a late worker writes (recovery.py,
\* operator.py) never name a host the guest is not on.
THEOREM RunningStaysTrue == Spec => []RunningIsTrue
<1>1. TypeOK /\ GuestsInv => RunningIsTrue
    BY DEF GuestsInv, TruthInv, RunsInv, Runs, Live, RunningIsTrue
<1> QED
    BY <1>1, GuestsStayTrue, SpotTypeCorrect, PTL

-----------------------------------------------------------------------------
(* The volume and the hosts that may have it. *)

\* A Spot host that is not reclaimed stays up.
SpotInv == \A q \in Spot \ {Source} : Up(q)

\* A host that a recovery claimed and that the registry lists.
Claimed(n) == claim[n] # None /\ hb[n].listed

\* Claims are of the one session, and of one live standby: a host that has a
\* claim is in the registry for as long as it lives, and a pass works with it.
ClaimInv ==
    /\ \A n \in Standby :
          /\ claim[n] \in {None, Source}
          /\ hb[n].listed => host[n] \in {"up", "gone"}
          /\ claim[n] # None => host[n] \in {"up", "gone"}
          /\ claim[n] # None /\ Up(n) => hb[n].listed
    /\ \A m, n \in Standby :
          Claimed(m) /\ Claimed(n) => m = n
    /\ pass.pc = "claim" => \A n \in Standby : ~Claimed(n)
    /\ pass.pc \in {"mark", "attach", "mount", "resume"} =>
          /\ claim[pass.tgt] # None
          /\ \A n \in Standby : Claimed(n) => n = pass.tgt
    /\ pass.pc \in RepatriationPc =>
          \A n \in Standby : Claimed(n) => n = pass.src

\* The volume survives its hosts from the reclaim on.
KeepInv ==
    /\ Home \in keep \/ at[Home] \in {Source, "deleted"}
    /\ evac[Source] = "saving" \/ pass.pc = "detach" => Home \in keep

\* A sandbox with a recovery host: the host has a claim, or it is a Spot host
\* and has the volume.
TakenInv(s) ==
    /\ rec[s].tgt \in Standby => claim[rec[s].tgt] # None
    /\ rec[s].tgt \in Spot => at[Home] = rec[s].tgt
    /\ rec[s].tgt # None \/ InRecovery(s) => Home \in keep

-----------------------------------------------------------------------------
(* What a step does to hosts, volumes and claims. *)

\* Only the first Spot host ends.
LEMMA SpotsKept ==
    ASSUME TypeOK, VolumeInv, [Next]_vars
    PROVE  \A q \in Spot \ {Source} : host'[q] = host[q]
<1>1. CASE AgentStep
    <2>1. ASSUME NEW n \in Node, Heartbeat(n)
          PROVE  \A q \in Spot \ {Source} : host'[q] = host[q]
        BY <2>1 DEF Heartbeat, ec2
    <2>2. ASSUME NEW n \in Node, HeartbeatExpire(n)
          PROVE  \A q \in Spot \ {Source} : host'[q] = host[q]
        BY <2>2 DEF HeartbeatExpire, ec2
    <2>3. ASSUME NEW n \in Spot, Detect(n)
          PROVE  \A q \in Spot \ {Source} : host'[q] = host[q]
        BY <2>3 DEF Detect, ec2
    <2>4. ASSUME NEW n \in Spot, Preserve(n)
          PROVE  \A q \in Spot \ {Source} : host'[q] = host[q]
        BY <2>4 DEF Preserve
    <2>5. ASSUME NEW n \in Spot, NEW r \in Sandbox, CkStart(n, r)
          PROVE  \A q \in Spot \ {Source} : host'[q] = host[q]
        BY <2>5 DEF CkStart, ec2
    <2>6. ASSUME NEW n \in Spot, NEW r \in Sandbox, CkWrite(n, r)
          PROVE  \A q \in Spot \ {Source} : host'[q] = host[q]
        BY <2>6 DEF CkWrite, ec2
    <2>7. ASSUME NEW n \in Spot, NEW r \in Sandbox, CkDone(n, r)
          PROVE  \A q \in Spot \ {Source} : host'[q] = host[q]
        BY <2>7 DEF CkDone, ec2
    <2>8. ASSUME NEW n \in Spot, NEW r \in Sandbox, CkFail(n, r)
          PROVE  \A q \in Spot \ {Source} : host'[q] = host[q]
        BY <2>8 DEF CkFail, ec2
    <2> QED
        BY <1>1, <2>1, <2>2, <2>3, <2>4, <2>5, <2>6, <2>7, <2>8 DEF AgentStep
<1>2. CASE Ec2Step
    <2>1. ASSUME NEW n \in Spot, Deadline(n)
          PROVE  \A q \in Spot \ {Source} : host'[q] = host[q]
        BY <2>1 DEF Deadline, ec2
    <2>2. ASSUME NEW n \in Spot, Terminate(n)
          PROVE  \A q \in Spot \ {Source} : host'[q] = host[q]
        BY <2>2, TerminateDoes, EndDoes, PlacesAre
        DEF Terminate, VolumeInv, SourceInv
    <2>3. ASSUME NEW n \in Standby, StandbyLost(n)
          PROVE  \A q \in Spot \ {Source} : host'[q] = host[q]
        BY <2>3, StandbyLostDoes, PlacesAre
    <2>4. ASSUME NEW n \in Standby, StandbyJoins(n)
          PROVE  \A q \in Spot \ {Source} : host'[q] = host[q]
        BY <2>4, StandbyJoinsDoes, PlacesAre
    <2> QED
        BY <1>2, <2>1, <2>2, <2>3, <2>4 DEF Ec2Step
<1>3. CASE WorkStep
    <2>1. ASSUME NEW r \in Sandbox, NEW k \in {"suspend", "resume", "delete"},
                 WorkStart(r, k)
          PROVE  \A q \in Spot \ {Source} : host'[q] = host[q]
        BY <2>1 DEF WorkStart, ec2
    <2>2. ASSUME NEW r \in Sandbox, WorkCall(r)
          PROVE  \A q \in Spot \ {Source} : host'[q] = host[q]
        BY <2>2 DEF WorkCall, ec2
    <2>3. ASSUME NEW r \in Sandbox, WorkDone(r)
          PROVE  \A q \in Spot \ {Source} : host'[q] = host[q]
        BY <2>3 DEF WorkDone, ec2
    <2> QED
        BY <1>3, <2>1, <2>2, <2>3 DEF WorkStep
<1>4. CASE RcStep
    <2>1. ASSUME NEW n \in Spot, RcRead(n)
          PROVE  \A q \in Spot \ {Source} : host'[q] = host[q]
        BY <2>1 DEF RcRead, ec2
    <2>2. CASE RcLookup
        BY <2>2 DEF RcLookup, ec2
    <2>3. CASE RcClaim
        BY <2>3 DEF RcClaim, ec2
    <2>4. CASE RcMark
        BY <2>4 DEF RcMark, ec2
    <2>5. CASE RcAttach
        BY <2>5 DEF RcAttach
    <2>6. CASE RcMount
        BY <2>6 DEF RcMount, ec2
    <2>7. ASSUME NEW r \in Sandbox, RcStart(r)
          PROVE  \A q \in Spot \ {Source} : host'[q] = host[q]
        BY <2>7 DEF RcStart, ec2
    <2>8. ASSUME NEW r \in Sandbox, RcBoot(r)
          PROVE  \A q \in Spot \ {Source} : host'[q] = host[q]
        BY <2>8 DEF RcBoot, ec2
    <2>9. ASSUME NEW r \in Sandbox, RcDone(r)
          PROVE  \A q \in Spot \ {Source} : host'[q] = host[q]
        BY <2>9 DEF RcDone, ec2
    <2>10. ASSUME NEW r \in Sandbox, RcFail(r)
           PROVE  \A q \in Spot \ {Source} : host'[q] = host[q]
        BY <2>10 DEF RcFail, ec2
    <2>11. CASE RcEnd
        BY <2>11, PlacesAre DEF RcEnd, TypeOK, RecoveryTypeOK, StateVolumeTypeOK
    <2> QED
        BY <1>4, <2>1, <2>2, <2>3, <2>4, <2>5, <2>6, <2>7, <2>8, <2>9, <2>10,
           <2>11
        DEF RcStep
<1>5. CASE RpStep
    <2>1. ASSUME NEW n \in Standby, RpRead(n)
          PROVE  \A q \in Spot \ {Source} : host'[q] = host[q]
        BY <2>1 DEF RpRead, ec2
    <2>2. CASE RpLease
        BY <2>2 DEF RpLease, ec2
    <2>3. CASE RpEmpty
        BY <2>3 DEF RpEmpty
    <2>4. CASE RpDiscard
        BY <2>4 DEF RpDiscard
    <2>5. CASE RpTarget
        BY <2>5 DEF RpTarget, ec2
    <2>6. CASE RpMark
        BY <2>6 DEF RpMark, ec2
    <2>7. ASSUME NEW r \in Sandbox, RpSave(r)
          PROVE  \A q \in Spot \ {Source} : host'[q] = host[q]
        BY <2>7 DEF RpSave, ec2
    <2>8. ASSUME NEW r \in Sandbox, RpFlag(r)
          PROVE  \A q \in Spot \ {Source} : host'[q] = host[q]
        BY <2>8 DEF RpFlag, ec2
    <2>9. CASE RpNoGuest
        BY <2>9 DEF RpNoGuest, ec2
    <2>10. CASE RpHandoff
        BY <2>10 DEF RpHandoff, ec2
    <2>11. CASE RpUnmount
        BY <2>11 DEF RpUnmount, Quiesce, ec2
    <2>12. CASE RpDetach
        BY <2>12 DEF RpDetach, Release
    <2>13. CASE RpUnmountReplaced
        BY <2>13 DEF RpUnmountReplaced, Quiesce, ec2
    <2>14. CASE RpDetachReplaced
        BY <2>14 DEF RpDetachReplaced, Release
    <2>15. CASE RpAttach
        BY <2>15 DEF RpAttach
    <2>16. CASE RpMount
        BY <2>16 DEF RpMount, ec2
    <2>17. ASSUME NEW r \in Sandbox, RpReturn(r)
           PROVE  \A q \in Spot \ {Source} : host'[q] = host[q]
        BY <2>17 DEF RpReturn, ec2
    <2>18. ASSUME NEW r \in Sandbox, RpBoot(r)
           PROVE  \A q \in Spot \ {Source} : host'[q] = host[q]
        BY <2>18 DEF RpBoot, ec2
    <2>19. ASSUME NEW r \in Sandbox, RpBootFails(r)
           PROVE  \A q \in Spot \ {Source} : host'[q] = host[q]
        BY <2>19 DEF RpBootFails, ec2
    <2>20. ASSUME NEW r \in Sandbox, RpDone(r)
           PROVE  \A q \in Spot \ {Source} : host'[q] = host[q]
        BY <2>20 DEF RpDone, ec2
    <2>21. CASE RpHealth
        BY <2>21 DEF RpHealth
    <2>22. CASE RpRelease
        BY <2>22 DEF RpRelease, ec2
    <2>23. CASE RpTerminate
        BY <2>23, RpTerminateDoes, PlacesAre
    <2> QED
        BY <1>5, <2>1, <2>2, <2>3, <2>4, <2>5, <2>6, <2>7, <2>8, <2>9, <2>10,
           <2>11, <2>12, <2>13, <2>14, <2>15, <2>16, <2>17, <2>18, <2>19, <2>20,
           <2>21, <2>22, <2>23
        DEF RpStep
<1>6. CASE OperatorFault
    <2>1. CASE Crash
        BY <2>1 DEF Crash, ec2
    <2>2. CASE LeaseLost
        BY <2>2 DEF LeaseLost, ec2
    <2> QED
        BY <1>6, <2>1, <2>2 DEF OperatorFault
<1>7. CASE UNCHANGED vars
    BY <1>7 DEF vars, recoveryVars
<1> QED
    BY <1>1, <1>2, <1>3, <1>4, <1>5, <1>6, <1>7 DEF Next

\* What a step does to the registry: a heartbeat, its expiry, a claim.
RegistryStep ==
    \/ UNCHANGED <<hb, claim>>
    \/ \E n \in Node : Heartbeat(n) \/ HeartbeatExpire(n)
    \/ RcClaim

LEMMA RegistrySteps ==
    ASSUME [Next]_vars
    PROVE  RegistryStep
<1>1. CASE AgentStep
    <2>1. ASSUME NEW n \in Node, Heartbeat(n) PROVE RegistryStep
        BY <2>1 DEF RegistryStep
    <2>2. ASSUME NEW n \in Node, HeartbeatExpire(n) PROVE RegistryStep
        BY <2>2 DEF RegistryStep
    <2>3. ASSUME NEW n \in Spot, Detect(n) PROVE RegistryStep
        BY <2>3 DEF Detect, registry, RegistryStep
    <2>4. ASSUME NEW n \in Spot, Preserve(n) PROVE RegistryStep
        BY <2>4 DEF Preserve, registry, RegistryStep
    <2>5. ASSUME NEW n \in Spot, NEW r \in Sandbox, CkStart(n, r)
          PROVE  RegistryStep
        BY <2>5 DEF CkStart, registry, RegistryStep
    <2>6. ASSUME NEW n \in Spot, NEW r \in Sandbox, CkWrite(n, r)
          PROVE  RegistryStep
        BY <2>6 DEF CkWrite, registry, RegistryStep
    <2>7. ASSUME NEW n \in Spot, NEW r \in Sandbox, CkDone(n, r)
          PROVE  RegistryStep
        BY <2>7 DEF CkDone, registry, RegistryStep
    <2>8. ASSUME NEW n \in Spot, NEW r \in Sandbox, CkFail(n, r)
          PROVE  RegistryStep
        BY <2>8 DEF CkFail, registry, RegistryStep
    <2> QED
        BY <1>1, <2>1, <2>2, <2>3, <2>4, <2>5, <2>6, <2>7, <2>8 DEF AgentStep
<1>2. CASE Ec2Step
    <2>1. ASSUME NEW n \in Spot, Deadline(n) PROVE RegistryStep
        BY <2>1 DEF Deadline, registry, RegistryStep
    <2>2. ASSUME NEW n \in Spot, Terminate(n) PROVE RegistryStep
        BY <2>2 DEF Terminate, registry, RegistryStep
    <2>3. ASSUME NEW n \in Standby, StandbyLost(n) PROVE RegistryStep
        BY <2>3 DEF StandbyLost, registry, RegistryStep
    <2>4. ASSUME NEW n \in Standby, StandbyJoins(n) PROVE RegistryStep
        BY <2>4 DEF StandbyJoins, registry, RegistryStep
    <2> QED
        BY <1>2, <2>1, <2>2, <2>3, <2>4 DEF Ec2Step
<1>3. CASE WorkStep
    <2>1. ASSUME NEW r \in Sandbox, NEW k \in {"suspend", "resume", "delete"},
                 WorkStart(r, k)
          PROVE  RegistryStep
        BY <2>1 DEF WorkStart, registry, RegistryStep
    <2>2. ASSUME NEW r \in Sandbox, WorkCall(r) PROVE RegistryStep
        BY <2>2 DEF WorkCall, registry, RegistryStep
    <2>3. ASSUME NEW r \in Sandbox, WorkDone(r) PROVE RegistryStep
        BY <2>3 DEF WorkDone, registry, RegistryStep
    <2> QED
        BY <1>3, <2>1, <2>2, <2>3 DEF WorkStep
<1>4. CASE RcStep
    <2>1. ASSUME NEW n \in Spot, RcRead(n) PROVE RegistryStep
        BY <2>1 DEF RcRead, registry, RegistryStep
    <2>2. CASE RcLookup
        BY <2>2 DEF RcLookup, registry, RegistryStep
    <2>3. CASE RcClaim
        BY <2>3 DEF RegistryStep
    <2>4. CASE RcMark
        BY <2>4 DEF RcMark, registry, RegistryStep
    <2>5. CASE RcAttach
        BY <2>5 DEF RcAttach, registry, RegistryStep
    <2>6. CASE RcMount
        BY <2>6 DEF RcMount, registry, RegistryStep
    <2>7. ASSUME NEW r \in Sandbox, RcStart(r) PROVE RegistryStep
        BY <2>7 DEF RcStart, registry, RegistryStep
    <2>8. ASSUME NEW r \in Sandbox, RcBoot(r) PROVE RegistryStep
        BY <2>8 DEF RcBoot, registry, RegistryStep
    <2>9. ASSUME NEW r \in Sandbox, RcDone(r) PROVE RegistryStep
        BY <2>9 DEF RcDone, registry, RegistryStep
    <2>10. ASSUME NEW r \in Sandbox, RcFail(r) PROVE RegistryStep
        BY <2>10 DEF RcFail, registry, RegistryStep
    <2>11. CASE RcEnd
        BY <2>11 DEF RcEnd, registry, RegistryStep
    <2> QED
        BY <1>4, <2>1, <2>2, <2>3, <2>4, <2>5, <2>6, <2>7, <2>8, <2>9, <2>10,
           <2>11
        DEF RcStep
<1>5. CASE RpStep
    <2>1. ASSUME NEW n \in Standby, RpRead(n) PROVE RegistryStep
        BY <2>1 DEF RpRead, registry, RegistryStep
    <2>2. CASE RpLease
        BY <2>2 DEF RpLease, registry, RegistryStep
    <2>3. CASE RpEmpty
        BY <2>3 DEF RpEmpty, RegistryStep
    <2>4. CASE RpDiscard
        BY <2>4 DEF RpDiscard, registry, RegistryStep
    <2>5. CASE RpTarget
        BY <2>5 DEF RpTarget, RegistryStep
    <2>6. CASE RpMark
        BY <2>6 DEF RpMark, registry, RegistryStep
    <2>7. ASSUME NEW r \in Sandbox, RpSave(r) PROVE RegistryStep
        BY <2>7 DEF RpSave, registry, RegistryStep
    <2>8. ASSUME NEW r \in Sandbox, RpFlag(r) PROVE RegistryStep
        BY <2>8 DEF RpFlag, registry, RegistryStep
    <2>9. CASE RpNoGuest
        BY <2>9 DEF RpNoGuest, registry, RegistryStep
    <2>10. CASE RpHandoff
        BY <2>10 DEF RpHandoff, registry, RegistryStep
    <2>11. CASE RpUnmount
        BY <2>11 DEF RpUnmount, Quiesce, registry, RegistryStep
    <2>12. CASE RpDetach
        BY <2>12 DEF RpDetach, Release, registry, RegistryStep
    <2>13. CASE RpUnmountReplaced
        BY <2>13 DEF RpUnmountReplaced, Quiesce, registry, RegistryStep
    <2>14. CASE RpDetachReplaced
        BY <2>14 DEF RpDetachReplaced, Release, registry, RegistryStep
    <2>15. CASE RpAttach
        BY <2>15 DEF RpAttach, registry, RegistryStep
    <2>16. CASE RpMount
        BY <2>16 DEF RpMount, registry, RegistryStep
    <2>17. ASSUME NEW r \in Sandbox, RpReturn(r) PROVE RegistryStep
        BY <2>17 DEF RpReturn, registry, RegistryStep
    <2>18. ASSUME NEW r \in Sandbox, RpBoot(r) PROVE RegistryStep
        BY <2>18 DEF RpBoot, registry, RegistryStep
    <2>19. ASSUME NEW r \in Sandbox, RpBootFails(r) PROVE RegistryStep
        BY <2>19 DEF RpBootFails, registry, RegistryStep
    <2>20. ASSUME NEW r \in Sandbox, RpDone(r) PROVE RegistryStep
        BY <2>20 DEF RpDone, registry, RegistryStep
    <2>21. CASE RpHealth
        BY <2>21 DEF RpHealth, registry, RegistryStep
    <2>22. CASE RpRelease
        BY <2>22 DEF RpRelease, RegistryStep
    <2>23. CASE RpTerminate
        BY <2>23 DEF RpTerminate, registry, RegistryStep
    <2> QED
        BY <1>5, <2>1, <2>2, <2>3, <2>4, <2>5, <2>6, <2>7, <2>8, <2>9, <2>10,
           <2>11, <2>12, <2>13, <2>14, <2>15, <2>16, <2>17, <2>18, <2>19, <2>20,
           <2>21, <2>22, <2>23
        DEF RpStep
<1>6. CASE OperatorFault
    <2>1. CASE Crash
        BY <2>1 DEF Crash, registry, RegistryStep
    <2>2. CASE LeaseLost
        BY <2>2 DEF LeaseLost, registry, RegistryStep
    <2> QED
        BY <1>6, <2>1, <2>2 DEF OperatorFault
<1>7. CASE UNCHANGED vars
    BY <1>7 DEF vars, recoveryVars, RegistryStep
<1> QED
    BY <1>1, <1>2, <1>3, <1>4, <1>5, <1>6, <1>7 DEF Next

\* The pass goes on with the host it has, ends, or is not one that has any.
PassOn ==
    \/ UNCHANGED pass
    \/ pass'.pc \in {"idle", "lookup"}
    \/ /\ pass.pc \in {"mark", "attach", "mount"}
       /\ pass'.pc \in {"attach", "mount", "resume"} /\ pass'.tgt = pass.tgt
    \/ /\ pass.pc \in RepatriationPc /\ pass'.pc \in RepatriationPc
       /\ pass'.src = pass.src

PassStep == PassOn \/ RcLookup \/ RcClaim \/ \E n \in Standby : RpRead(n)

LEMMA PassSteps ==
    ASSUME TypeOK, VolumeInv, [Next]_vars
    PROVE  PassStep
<1>1. CASE AgentStep
    <2>1. ASSUME NEW n \in Node, Heartbeat(n) PROVE PassStep
        BY <2>1 DEF PassStep, PassOn, Heartbeat, passes
    <2>2. ASSUME NEW n \in Node, HeartbeatExpire(n) PROVE PassStep
        BY <2>2 DEF PassStep, PassOn, HeartbeatExpire, passes
    <2>3. ASSUME NEW n \in Spot, Detect(n) PROVE PassStep
        BY <2>3 DEF PassStep, PassOn, Detect, passes
    <2>4. ASSUME NEW n \in Spot, Preserve(n) PROVE PassStep
        BY <2>4 DEF PassStep, PassOn, Preserve, passes
    <2>5. ASSUME NEW n \in Spot, NEW r \in Sandbox, CkStart(n, r) PROVE PassStep
        BY <2>5 DEF PassStep, PassOn, CkStart, passes
    <2>6. ASSUME NEW n \in Spot, NEW r \in Sandbox, CkWrite(n, r) PROVE PassStep
        BY <2>6 DEF PassStep, PassOn, CkWrite, passes
    <2>7. ASSUME NEW n \in Spot, NEW r \in Sandbox, CkDone(n, r) PROVE PassStep
        BY <2>7 DEF PassStep, PassOn, CkDone, passes
    <2>8. ASSUME NEW n \in Spot, NEW r \in Sandbox, CkFail(n, r) PROVE PassStep
        BY <2>8 DEF PassStep, PassOn, CkFail, passes
    <2> QED
        BY <1>1, <2>1, <2>2, <2>3, <2>4, <2>5, <2>6, <2>7, <2>8 DEF AgentStep
<1>2. CASE Ec2Step
    <2>1. ASSUME NEW n \in Spot, Deadline(n) PROVE PassStep
        BY <2>1 DEF PassStep, PassOn, Deadline, passes
    <2>2. ASSUME NEW n \in Spot, Terminate(n) PROVE PassStep
        BY <2>2 DEF PassStep, PassOn, Terminate, passes
    <2>3. ASSUME NEW n \in Standby, StandbyLost(n) PROVE PassStep
        BY <2>3 DEF PassStep, PassOn, StandbyLost, passes
    <2>4. ASSUME NEW n \in Standby, StandbyJoins(n) PROVE PassStep
        BY <2>4 DEF PassStep, PassOn, StandbyJoins, passes
    <2> QED
        BY <1>2, <2>1, <2>2, <2>3, <2>4 DEF Ec2Step
<1>3. CASE WorkStep
    <2>1. ASSUME NEW r \in Sandbox, NEW k \in {"suspend", "resume", "delete"},
                 WorkStart(r, k)
          PROVE  PassStep
        BY <2>1 DEF PassStep, PassOn, WorkStart, passes
    <2>2. ASSUME NEW r \in Sandbox, WorkCall(r) PROVE PassStep
        BY <2>2 DEF PassStep, PassOn, WorkCall, passes
    <2>3. ASSUME NEW r \in Sandbox, WorkDone(r) PROVE PassStep
        BY <2>3 DEF PassStep, PassOn, WorkDone, passes
    <2> QED
        BY <1>3, <2>1, <2>2, <2>3 DEF WorkStep
<1>4. CASE RcStep
    <2>1. ASSUME NEW n \in Spot, RcRead(n) PROVE PassStep
        BY <2>1, RcReadDoes DEF PassStep, PassOn
    <2>2. CASE RcLookup
        BY <2>2 DEF PassStep
    <2>3. CASE RcClaim
        BY <2>3 DEF PassStep
    <2>4. CASE RcMark
        BY <2>4, RcMarkDoes DEF PassStep, PassOn
    <2>5. CASE RcAttach
        BY <2>5, RcAttachDoes DEF PassStep, PassOn, Ends
    <2>6. CASE RcMount
        BY <2>6, RcMountDoes DEF PassStep, PassOn, Ends
    <2>7. ASSUME NEW r \in Sandbox, RcStart(r) PROVE PassStep
        BY <2>7 DEF PassStep, PassOn, RcStart
    <2>8. ASSUME NEW r \in Sandbox, RcBoot(r) PROVE PassStep
        BY <2>8 DEF PassStep, PassOn, RcBoot
    <2>9. ASSUME NEW r \in Sandbox, RcDone(r) PROVE PassStep
        BY <2>9 DEF PassStep, PassOn, RcDone
    <2>10. ASSUME NEW r \in Sandbox, RcFail(r) PROVE PassStep
        BY <2>10 DEF PassStep, PassOn, RcFail
    <2>11. CASE RcEnd
        BY <2>11, RcEndDoes DEF PassStep, PassOn, Ends
    <2> QED
        BY <1>4, <2>1, <2>2, <2>3, <2>4, <2>5, <2>6, <2>7, <2>8, <2>9, <2>10,
           <2>11
        DEF RcStep
<1>5. CASE RpStep
    <2>1. ASSUME NEW n \in Standby, RpRead(n) PROVE PassStep
        BY <2>1 DEF PassStep
    <2>2. CASE RpLease
        BY <2>2, RpLeaseDoes, PcsAre DEF PassStep, PassOn, Ends
    <2>3. CASE RpEmpty
        BY <2>3, RpEmptyDoes, PcsAre DEF PassStep, PassOn, Ends, PassIs
    <2>4. CASE RpDiscard
        BY <2>4, RpDiscardDoes, PcsAre DEF PassStep, PassOn, Ends, PassIs
    <2>5. CASE RpTarget
        BY <2>5, RpTargetDoes, PcsAre DEF PassStep, PassOn, Ends
    <2>6. CASE RpMark
        BY <2>6, RpMarkDoes, PcsAre DEF PassStep, PassOn, Ends, PassIs
    <2>7. ASSUME NEW r \in Sandbox, RpSave(r) PROVE PassStep
        BY <2>7 DEF PassStep, PassOn, RpSave, passes
    <2>8. ASSUME NEW r \in Sandbox, RpFlag(r) PROVE PassStep
        BY <2>8 DEF PassStep, PassOn, RpFlag, passes
    <2>9. CASE RpNoGuest
        BY <2>9, RpNoGuestDoes, PcsAre DEF PassStep, PassOn, Ends, PassIs
    <2>10. CASE RpHandoff
        BY <2>10, RpHandoffDoes, PcsAre DEF PassStep, PassOn, Ends, PassIs
    <2>11. CASE RpUnmount
        BY <2>11, RpUnmountDoes, PcsAre DEF PassStep, PassOn, Ends, PassIs
    <2>12. CASE RpDetach
        BY <2>12, RpDetachDoes, PcsAre DEF PassStep, PassOn, Ends, PassIs
    <2>13. CASE RpUnmountReplaced
        BY <2>13, RpUnmountReplacedDoes, PcsAre
        DEF PassStep, PassOn, Ends, PassIs
    <2>14. CASE RpDetachReplaced
        BY <2>14, RpDetachReplacedDoes, PcsAre
        DEF PassStep, PassOn, Ends, PassIs
    <2>15. CASE RpAttach
        BY <2>15, RpAttachDoes, PcsAre DEF PassStep, PassOn, Ends, PassIs
    <2>16. CASE RpMount
        BY <2>16, RpMountDoes, PcsAre DEF PassStep, PassOn, Ends, PassIs
    <2>17. ASSUME NEW r \in Sandbox, RpReturn(r) PROVE PassStep
        BY <2>17 DEF PassStep, PassOn, RpReturn
    <2>18. ASSUME NEW r \in Sandbox, RpBoot(r) PROVE PassStep
        BY <2>18 DEF PassStep, PassOn, RpBoot
    <2>19. ASSUME NEW r \in Sandbox, RpBootFails(r) PROVE PassStep
        BY <2>19 DEF PassStep, PassOn, RpBootFails
    <2>20. ASSUME NEW r \in Sandbox, RpDone(r) PROVE PassStep
        BY <2>20 DEF PassStep, PassOn, RpDone
    <2>21. CASE RpHealth
        BY <2>21, RpHealthDoes, PcsAre DEF PassStep, PassOn, Ends, PassIs
    <2>22. CASE RpRelease
        BY <2>22, RpReleaseDoes, PcsAre DEF PassStep, PassOn, Ends, PassIs
    <2>23. CASE RpTerminate
        BY <2>23, RpTerminateDoes, PcsAre DEF PassStep, PassOn, Ends, PassIs
    <2> QED
        BY <1>5, <2>1, <2>2, <2>3, <2>4, <2>5, <2>6, <2>7, <2>8, <2>9, <2>10,
           <2>11, <2>12, <2>13, <2>14, <2>15, <2>16, <2>17, <2>18, <2>19, <2>20,
           <2>21, <2>22, <2>23
        DEF RpStep
<1>6. CASE OperatorFault
    <2>1. CASE Crash
        BY <2>1, CrashDoes DEF PassStep, PassOn, Ends
    <2>2. CASE LeaseLost
        BY <2>2, LeaseLostDoes, PcsAre DEF PassStep, PassOn, Ends, PassIs
    <2> QED
        BY <1>6, <2>1, <2>2 DEF OperatorFault
<1>7. CASE UNCHANGED vars
    BY <1>7 DEF vars, recoveryVars, PassStep, PassOn
<1> QED
    BY <1>1, <1>2, <1>3, <1>4, <1>5, <1>6, <1>7 DEF Next

\* A volume that survives its host goes on to.
LEMMA KeepGrows ==
    ASSUME [Next]_vars
    PROVE  keep \subseteq keep'
<1>1. CASE AgentStep
    <2>1. ASSUME NEW n \in Node, Heartbeat(n) PROVE keep \subseteq keep'
        BY <2>1 DEF Heartbeat, ec2
    <2>2. ASSUME NEW n \in Node, HeartbeatExpire(n) PROVE keep \subseteq keep'
        BY <2>2 DEF HeartbeatExpire, ec2
    <2>3. ASSUME NEW n \in Spot, Detect(n) PROVE keep \subseteq keep'
        BY <2>3 DEF Detect, ec2
    <2>4. ASSUME NEW n \in Spot, Preserve(n) PROVE keep \subseteq keep'
        BY <2>4 DEF Preserve
    <2>5. ASSUME NEW n \in Spot, NEW r \in Sandbox, CkStart(n, r)
          PROVE  keep \subseteq keep'
        BY <2>5 DEF CkStart, ec2
    <2>6. ASSUME NEW n \in Spot, NEW r \in Sandbox, CkWrite(n, r)
          PROVE  keep \subseteq keep'
        BY <2>6 DEF CkWrite, ec2
    <2>7. ASSUME NEW n \in Spot, NEW r \in Sandbox, CkDone(n, r)
          PROVE  keep \subseteq keep'
        BY <2>7 DEF CkDone, ec2
    <2>8. ASSUME NEW n \in Spot, NEW r \in Sandbox, CkFail(n, r)
          PROVE  keep \subseteq keep'
        BY <2>8 DEF CkFail, ec2
    <2> QED
        BY <1>1, <2>1, <2>2, <2>3, <2>4, <2>5, <2>6, <2>7, <2>8 DEF AgentStep
<1>2. CASE Ec2Step
    <2>1. ASSUME NEW n \in Spot, Deadline(n) PROVE keep \subseteq keep'
        BY <2>1 DEF Deadline, ec2
    <2>2. ASSUME NEW n \in Spot, Terminate(n) PROVE keep \subseteq keep'
        BY <2>2 DEF Terminate
    <2>3. ASSUME NEW n \in Standby, StandbyLost(n) PROVE keep \subseteq keep'
        BY <2>3 DEF StandbyLost
    <2>4. ASSUME NEW n \in Standby, StandbyJoins(n) PROVE keep \subseteq keep'
        BY <2>4 DEF StandbyJoins
    <2> QED
        BY <1>2, <2>1, <2>2, <2>3, <2>4 DEF Ec2Step
<1>3. CASE WorkStep
    <2>1. ASSUME NEW r \in Sandbox, NEW k \in {"suspend", "resume", "delete"},
                 WorkStart(r, k)
          PROVE  keep \subseteq keep'
        BY <2>1 DEF WorkStart, ec2
    <2>2. ASSUME NEW r \in Sandbox, WorkCall(r) PROVE keep \subseteq keep'
        BY <2>2 DEF WorkCall, ec2
    <2>3. ASSUME NEW r \in Sandbox, WorkDone(r) PROVE keep \subseteq keep'
        BY <2>3 DEF WorkDone, ec2
    <2> QED
        BY <1>3, <2>1, <2>2, <2>3 DEF WorkStep
<1>4. CASE RcStep
    <2>1. ASSUME NEW n \in Spot, RcRead(n) PROVE keep \subseteq keep'
        BY <2>1 DEF RcRead, ec2
    <2>2. CASE RcLookup
        BY <2>2 DEF RcLookup, ec2
    <2>3. CASE RcClaim
        BY <2>3 DEF RcClaim, ec2
    <2>4. CASE RcMark
        BY <2>4 DEF RcMark, ec2
    <2>5. CASE RcAttach
        BY <2>5 DEF RcAttach, Attach
    <2>6. CASE RcMount
        BY <2>6 DEF RcMount, ec2
    <2>7. ASSUME NEW r \in Sandbox, RcStart(r) PROVE keep \subseteq keep'
        BY <2>7 DEF RcStart, ec2
    <2>8. ASSUME NEW r \in Sandbox, RcBoot(r) PROVE keep \subseteq keep'
        BY <2>8 DEF RcBoot, ec2
    <2>9. ASSUME NEW r \in Sandbox, RcDone(r) PROVE keep \subseteq keep'
        BY <2>9 DEF RcDone, ec2
    <2>10. ASSUME NEW r \in Sandbox, RcFail(r) PROVE keep \subseteq keep'
        BY <2>10 DEF RcFail, ec2
    <2>11. CASE RcEnd
        BY <2>11 DEF RcEnd
    <2> QED
        BY <1>4, <2>1, <2>2, <2>3, <2>4, <2>5, <2>6, <2>7, <2>8, <2>9, <2>10,
           <2>11
        DEF RcStep
<1>5. CASE RpStep
    <2>1. ASSUME NEW n \in Standby, RpRead(n) PROVE keep \subseteq keep'
        BY <2>1 DEF RpRead, ec2
    <2>2. CASE RpLease
        BY <2>2 DEF RpLease, ec2
    <2>3. CASE RpEmpty
        BY <2>3 DEF RpEmpty
    <2>4. CASE RpDiscard
        BY <2>4 DEF RpDiscard
    <2>5. CASE RpTarget
        BY <2>5 DEF RpTarget, ec2
    <2>6. CASE RpMark
        BY <2>6 DEF RpMark, ec2
    <2>7. ASSUME NEW r \in Sandbox, RpSave(r) PROVE keep \subseteq keep'
        BY <2>7 DEF RpSave, ec2
    <2>8. ASSUME NEW r \in Sandbox, RpFlag(r) PROVE keep \subseteq keep'
        BY <2>8 DEF RpFlag, ec2
    <2>9. CASE RpNoGuest
        BY <2>9 DEF RpNoGuest, ec2
    <2>10. CASE RpHandoff
        BY <2>10 DEF RpHandoff, ec2
    <2>11. CASE RpUnmount
        BY <2>11 DEF RpUnmount, Quiesce, ec2
    <2>12. CASE RpDetach
        BY <2>12 DEF RpDetach, Release
    <2>13. CASE RpUnmountReplaced
        BY <2>13 DEF RpUnmountReplaced, Quiesce, ec2
    <2>14. CASE RpDetachReplaced
        BY <2>14 DEF RpDetachReplaced, Release
    <2>15. CASE RpAttach
        BY <2>15 DEF RpAttach, Attach
    <2>16. CASE RpMount
        BY <2>16 DEF RpMount, ec2
    <2>17. ASSUME NEW r \in Sandbox, RpReturn(r) PROVE keep \subseteq keep'
        BY <2>17 DEF RpReturn, ec2
    <2>18. ASSUME NEW r \in Sandbox, RpBoot(r) PROVE keep \subseteq keep'
        BY <2>18 DEF RpBoot, ec2
    <2>19. ASSUME NEW r \in Sandbox, RpBootFails(r) PROVE keep \subseteq keep'
        BY <2>19 DEF RpBootFails, ec2
    <2>20. ASSUME NEW r \in Sandbox, RpDone(r) PROVE keep \subseteq keep'
        BY <2>20 DEF RpDone, ec2
    <2>21. CASE RpHealth
        BY <2>21 DEF RpHealth
    <2>22. CASE RpRelease
        BY <2>22 DEF RpRelease, ec2
    <2>23. CASE RpTerminate
        BY <2>23 DEF RpTerminate
    <2> QED
        BY <1>5, <2>1, <2>2, <2>3, <2>4, <2>5, <2>6, <2>7, <2>8, <2>9, <2>10,
           <2>11, <2>12, <2>13, <2>14, <2>15, <2>16, <2>17, <2>18, <2>19, <2>20,
           <2>21, <2>22, <2>23
        DEF RpStep
<1>6. CASE OperatorFault
    <2>1. CASE Crash
        BY <2>1 DEF Crash, ec2
    <2>2. CASE LeaseLost
        BY <2>2 DEF LeaseLost, ec2
    <2> QED
        BY <1>6, <2>1, <2>2 DEF OperatorFault
<1>7. CASE UNCHANGED vars
    BY <1>7 DEF vars, recoveryVars
<1> QED
    BY <1>1, <1>2, <1>3, <1>4, <1>5, <1>6, <1>7 DEF Next

\* Where the volume goes: it is attached where it was free, it leaves the first
\* host or a standby that ends, a handoff detaches it, or it is deleted with the
\* last host that had it.
HomeStep ==
    \/ at'[Home] = at[Home]
    \/ at[Home] = None /\ at'[Home] \in Node /\ Home \in keep'
    \/ /\ at[Home] \in Standby \cup {Source}
       /\ at'[Home] = IF Home \in keep THEN None ELSE "deleted"
    \/ pass.pc = "detach" /\ at'[Home] = None
    \/ pass.pc = "empty" /\ at[Home] \notin Node /\ at'[Home] = "deleted"
    \/ /\ pass.pc = "discard" /\ at[Home] \in {pass.src, None}
       /\ at'[Home] = "deleted"

LEMMA HomeSteps ==
    ASSUME TypeOK, VolumeInv, [Next]_vars
    PROVE  HomeStep
<1>1. CASE AgentStep
    <2>1. ASSUME NEW n \in Node, Heartbeat(n) PROVE HomeStep
        BY <2>1 DEF HomeStep, Heartbeat, ec2
    <2>2. ASSUME NEW n \in Node, HeartbeatExpire(n) PROVE HomeStep
        BY <2>2 DEF HomeStep, HeartbeatExpire, ec2
    <2>3. ASSUME NEW n \in Spot, Detect(n) PROVE HomeStep
        BY <2>3 DEF HomeStep, Detect, ec2
    <2>4. ASSUME NEW n \in Spot, Preserve(n) PROVE HomeStep
        BY <2>4 DEF HomeStep, Preserve
    <2>5. ASSUME NEW n \in Spot, NEW r \in Sandbox, CkStart(n, r) PROVE HomeStep
        BY <2>5 DEF HomeStep, CkStart, ec2
    <2>6. ASSUME NEW n \in Spot, NEW r \in Sandbox, CkWrite(n, r) PROVE HomeStep
        BY <2>6 DEF HomeStep, CkWrite, ec2
    <2>7. ASSUME NEW n \in Spot, NEW r \in Sandbox, CkDone(n, r) PROVE HomeStep
        BY <2>7 DEF HomeStep, CkDone, ec2
    <2>8. ASSUME NEW n \in Spot, NEW r \in Sandbox, CkFail(n, r) PROVE HomeStep
        BY <2>8 DEF HomeStep, CkFail, ec2
    <2> QED
        BY <1>1, <2>1, <2>2, <2>3, <2>4, <2>5, <2>6, <2>7, <2>8 DEF AgentStep
<1>2. CASE Ec2Step
    <2>1. ASSUME NEW n \in Spot, Deadline(n) PROVE HomeStep
        BY <2>1 DEF HomeStep, Deadline, ec2
    <2>2. ASSUME NEW n \in Spot, Terminate(n) PROVE HomeStep
        BY <2>2, TerminateDoes, PlacesAre
        DEF HomeStep, Terminate, End, VolumeInv, SourceInv
    <2>3. ASSUME NEW n \in Standby, StandbyLost(n) PROVE HomeStep
        BY <2>3, PlacesAre DEF HomeStep, StandbyLost, End
    <2>4. ASSUME NEW n \in Standby, StandbyJoins(n) PROVE HomeStep
        BY <2>4 DEF HomeStep, StandbyJoins
    <2> QED
        BY <1>2, <2>1, <2>2, <2>3, <2>4 DEF Ec2Step
<1>3. CASE WorkStep
    <2>1. ASSUME NEW r \in Sandbox, NEW k \in {"suspend", "resume", "delete"},
                 WorkStart(r, k)
          PROVE  HomeStep
        BY <2>1 DEF HomeStep, WorkStart, ec2
    <2>2. ASSUME NEW r \in Sandbox, WorkCall(r) PROVE HomeStep
        BY <2>2 DEF HomeStep, WorkCall, ec2
    <2>3. ASSUME NEW r \in Sandbox, WorkDone(r) PROVE HomeStep
        BY <2>3 DEF HomeStep, WorkDone, ec2
    <2> QED
        BY <1>3, <2>1, <2>2, <2>3 DEF WorkStep
<1>4. CASE RcStep
    <2>1. ASSUME NEW n \in Spot, RcRead(n) PROVE HomeStep
        BY <2>1 DEF HomeStep, RcRead, ec2
    <2>2. CASE RcLookup
        BY <2>2 DEF HomeStep, RcLookup, ec2
    <2>3. CASE RcClaim
        BY <2>3 DEF HomeStep, RcClaim, ec2
    <2>4. CASE RcMark
        BY <2>4 DEF HomeStep, RcMark, ec2
    <2>5. CASE RcAttach
        BY <2>5, PassPlaces, PlacesAre, PcsAre
        DEF HomeStep, RcAttach, Attach, VolumeInv, RecoveryPassInv, TypeOK,
            RecoveryTypeOK, StateVolumeTypeOK
    <2>6. CASE RcMount
        BY <2>6 DEF HomeStep, RcMount, ec2
    <2>7. ASSUME NEW r \in Sandbox, RcStart(r) PROVE HomeStep
        BY <2>7 DEF HomeStep, RcStart, ec2
    <2>8. ASSUME NEW r \in Sandbox, RcBoot(r) PROVE HomeStep
        BY <2>8 DEF HomeStep, RcBoot, ec2
    <2>9. ASSUME NEW r \in Sandbox, RcDone(r) PROVE HomeStep
        BY <2>9 DEF HomeStep, RcDone, ec2
    <2>10. ASSUME NEW r \in Sandbox, RcFail(r) PROVE HomeStep
        BY <2>10 DEF HomeStep, RcFail, ec2
    <2>11. CASE RcEnd
        BY <2>11 DEF HomeStep, RcEnd
    <2> QED
        BY <1>4, <2>1, <2>2, <2>3, <2>4, <2>5, <2>6, <2>7, <2>8, <2>9, <2>10,
           <2>11
        DEF RcStep
<1>5. CASE RpStep
    <2>1. ASSUME NEW n \in Standby, RpRead(n) PROVE HomeStep
        BY <2>1 DEF HomeStep, RpRead, ec2
    <2>2. CASE RpLease
        BY <2>2 DEF HomeStep, RpLease, ec2
    <2>3. CASE RpEmpty
        BY <2>3, PlacesAre DEF HomeStep, RpEmpty
    <2>4. CASE RpDiscard
        BY <2>4, PlacesAre
        DEF HomeStep, RpDiscard, TypeOK, RecoveryTypeOK, StateVolumeTypeOK
    <2>5. CASE RpTarget
        BY <2>5 DEF HomeStep, RpTarget, ec2
    <2>6. CASE RpMark
        BY <2>6 DEF HomeStep, RpMark, ec2
    <2>7. ASSUME NEW r \in Sandbox, RpSave(r) PROVE HomeStep
        BY <2>7 DEF HomeStep, RpSave, ec2
    <2>8. ASSUME NEW r \in Sandbox, RpFlag(r) PROVE HomeStep
        BY <2>8 DEF HomeStep, RpFlag, ec2
    <2>9. CASE RpNoGuest
        BY <2>9 DEF HomeStep, RpNoGuest, ec2
    <2>10. CASE RpHandoff
        BY <2>10 DEF HomeStep, RpHandoff, ec2
    <2>11. CASE RpUnmount
        BY <2>11 DEF HomeStep, RpUnmount, Quiesce, ec2
    <2>12. CASE RpDetach
        BY <2>12, PlacesAre
        DEF HomeStep, RpDetach, Release, Detach, Moved, TypeOK, RecoveryTypeOK,
            StateVolumeTypeOK
    <2>13. CASE RpUnmountReplaced
        BY <2>13 DEF HomeStep, RpUnmountReplaced, Quiesce, ec2
    <2>14. CASE RpDetachReplaced
        BY <2>14, PlacesAre, HandingIs
        DEF HomeStep, RpDetachReplaced, Release, Detach, VolumeInv,
            HandoffPassInv, TypeOK, RecoveryTypeOK, StateVolumeTypeOK
    <2>15. CASE RpAttach
        BY <2>15, PassPlaces, PlacesAre, HandingIs
        DEF HomeStep, RpAttach, Attach, VolumeInv, HandoffPassInv, Moved,
            TypeOK, RecoveryTypeOK, StateVolumeTypeOK
    <2>16. CASE RpMount
        BY <2>16 DEF HomeStep, RpMount, ec2
    <2>17. ASSUME NEW r \in Sandbox, RpReturn(r) PROVE HomeStep
        BY <2>17 DEF HomeStep, RpReturn, ec2
    <2>18. ASSUME NEW r \in Sandbox, RpBoot(r) PROVE HomeStep
        BY <2>18 DEF HomeStep, RpBoot, ec2
    <2>19. ASSUME NEW r \in Sandbox, RpBootFails(r) PROVE HomeStep
        BY <2>19 DEF HomeStep, RpBootFails, ec2
    <2>20. ASSUME NEW r \in Sandbox, RpDone(r) PROVE HomeStep
        BY <2>20 DEF HomeStep, RpDone, ec2
    <2>21. CASE RpHealth
        BY <2>21, PlacesAre, HandingIs
        DEF HomeStep, RpHealth, Delete, VolumeInv, HandoffPassInv, TypeOK,
            RecoveryTypeOK, StateVolumeTypeOK
    <2>22. CASE RpRelease
        BY <2>22 DEF HomeStep, RpRelease, ec2
    <2>23. CASE RpTerminate
        BY <2>23, PassPlaces, PlacesAre, PcsAre
        DEF HomeStep, RpTerminate, End, TypeOK
    <2> QED
        BY <1>5, <2>1, <2>2, <2>3, <2>4, <2>5, <2>6, <2>7, <2>8, <2>9, <2>10,
           <2>11, <2>12, <2>13, <2>14, <2>15, <2>16, <2>17, <2>18, <2>19, <2>20,
           <2>21, <2>22, <2>23
        DEF RpStep
<1>6. CASE OperatorFault
    <2>1. CASE Crash
        BY <2>1 DEF HomeStep, Crash, ec2
    <2>2. CASE LeaseLost
        BY <2>2 DEF HomeStep, LeaseLost, ec2
    <2> QED
        BY <1>6, <2>1, <2>2 DEF OperatorFault
<1>7. CASE UNCHANGED vars
    BY <1>7 DEF vars, recoveryVars, HomeStep
<1> QED
    BY <1>1, <1>2, <1>3, <1>4, <1>5, <1>6, <1>7 DEF Next

LEMMA SpotStep ==
    ASSUME TypeOK, VolumeInv, SpotInv, [Next]_vars
    PROVE  SpotInv'
    BY SpotsKept, PlacesAre DEF SpotInv, Up

\* A claim stays; a host that has one is not entered anew.
LEMMA Listings ==
    ASSUME TypeOK, ClaimInv, HostsGo, RegistryStep, NEW n \in Standby
    PROVE  /\ host[n] \in {"up", "gone"} => host'[n] \in {host[n], "gone"}
           /\ hb'[n].listed => host'[n] \in {"up", "gone"}
           /\ hb'[n].listed => hb[n].listed \/ claim[n] = None
           /\ hb[n].listed /\ Up(n)' => hb'[n].listed
           /\ claim'[n] = claim[n] \/ RcClaim
<1>1. CASE UNCHANGED <<hb, claim>>
    BY <1>1, PlacesAre DEF ClaimInv, HostsGo, Up
<1>2. ASSUME NEW m \in Node, Heartbeat(m)
      PROVE  /\ UNCHANGED <<claim, host>> /\ Up(m)
             /\ hb'[n].listed <=> (hb[n].listed \/ m = n)
    <2>1. Beat(m).listed = TRUE
        BY DEF Beat
    <2>2. hb' = [hb EXCEPT ![m] = Beat(m)]
        BY <1>2 DEF Heartbeat
    <2>3. hb'[n] = IF n = m THEN Beat(m) ELSE hb[n]
        BY <2>2, PlacesAre DEF TypeOK, RecoveryTypeOK
    <2>4. hb[n].listed \in BOOLEAN
        BY PlacesAre DEF TypeOK, RecoveryTypeOK, Item
    <2>5. UNCHANGED <<claim, host>> /\ Up(m)
        BY <1>2 DEF Heartbeat, ec2
    <2> QED
        BY <2>1, <2>3, <2>4, <2>5
<1>3. ASSUME NEW m \in Node, HeartbeatExpire(m)
      PROVE  /\ UNCHANGED <<claim, host>> /\ ~Up(m)
             /\ hb'[n].listed <=> (hb[n].listed /\ m # n)
    <2>1. hb' = [hb EXCEPT ![m] = [@ EXCEPT !.listed = FALSE]]
        BY <1>3 DEF HeartbeatExpire
    <2>2. [hb[m] EXCEPT !.listed = FALSE].listed = FALSE
        BY DEF TypeOK, RecoveryTypeOK, Item
    <2>3. hb'[n] = IF n = m THEN [hb[m] EXCEPT !.listed = FALSE] ELSE hb[n]
        BY <2>1, PlacesAre DEF TypeOK, RecoveryTypeOK
    <2>4. hb[n].listed \in BOOLEAN
        BY PlacesAre DEF TypeOK, RecoveryTypeOK, Item
    <2>5. UNCHANGED <<claim, host>> /\ ~Up(m)
        BY <1>3 DEF HeartbeatExpire, ec2
    <2> QED
        BY <2>2, <2>3, <2>4, <2>5
<1>4. CASE RcClaim
    <2>1. UNCHANGED <<hb, host>>
        BY <1>4 DEF RcClaim, ec2
    <2> QED
        BY <1>4, <2>1, PlacesAre DEF ClaimInv, Up
<1>5. ASSUME NEW m \in Node, Heartbeat(m)
      PROVE  /\ host[n] \in {"up", "gone"} => host'[n] \in {host[n], "gone"}
             /\ hb'[n].listed => host'[n] \in {"up", "gone"}
             /\ hb'[n].listed => hb[n].listed \/ claim[n] = None
             /\ hb[n].listed /\ Up(n)' => hb'[n].listed
             /\ claim'[n] = claim[n]
    BY <1>2, <1>5, PlacesAre DEF ClaimInv, Up
<1>6. ASSUME NEW m \in Node, HeartbeatExpire(m)
      PROVE  /\ host[n] \in {"up", "gone"} => host'[n] \in {host[n], "gone"}
             /\ hb'[n].listed => host'[n] \in {"up", "gone"}
             /\ hb'[n].listed => hb[n].listed \/ claim[n] = None
             /\ hb[n].listed /\ Up(n)' => hb'[n].listed
             /\ claim'[n] = claim[n]
    BY <1>3, <1>6, PlacesAre DEF ClaimInv, Up
<1> QED
    BY <1>1, <1>4, <1>5, <1>6 DEF RegistryStep

\* The claim on a standby that a pass works with is the only one that lives.
LEMMA ClaimStep ==
    ASSUME TypeOK, VolumeInv, ClaimInv, HostsGo, [Next]_vars
    PROVE  ClaimInv'
<1>1. RegistryStep /\ PassStep
    BY RegistrySteps, PassSteps
<1>2. \A n \in Standby :
         /\ host[n] \in {"up", "gone"} => host'[n] \in {host[n], "gone"}
         /\ hb'[n].listed => host'[n] \in {"up", "gone"}
         /\ hb'[n].listed => hb[n].listed \/ claim[n] = None
         /\ hb[n].listed /\ Up(n)' => hb'[n].listed
         /\ claim'[n] = claim[n] \/ RcClaim
    BY <1>1, Listings
<1>3. CASE RcClaim
    <2>1. /\ pass.pc = "claim" /\ pass.src = Source /\ UNCHANGED hb
          /\ \A n \in Standby : ~Claimed(n)
        BY <1>3, PcsAre DEF RcClaim, ClaimInv, VolumeInv, RecoveryPassInv
    <2>2. CASE Finish /\ UNCHANGED claim
        <3>1. pass'.pc = "idle"
            BY <2>2, FinishIs DEF PassIs
        <3> QED
            BY <1>2, <2>1, <2>2, <3>1, PcsAre, PlacesAre
            DEF ClaimInv, Claimed, Up
    <2>3. ASSUME NEW n \in Standby, Claimable(n, pass.src),
                 claim' = [claim EXCEPT ![n] = pass.src], Onto(n, "mark")
          PROVE  ClaimInv'
        <3>1. pass'.pc = "mark" /\ pass'.tgt = n
            BY <2>3, OntoIs, PcsAre, PlacesAre
            DEF PassIs, TypeOK, RecoveryTypeOK
        <3>2. \A m \in Standby :
                 claim'[m] = IF m = n THEN Source ELSE claim[m]
            BY <2>1, <2>3 DEF TypeOK, RecoveryTypeOK
        <3>3. hb[n].listed
            BY <2>3 DEF Claimable
        <3>4. \A m \in Standby : Claimed(m)' => m = n
            BY <1>2, <2>1, <3>2 DEF Claimed
        <3> QED
            BY <1>2, <2>1, <3>1, <3>2, <3>3, <3>4, PcsAre, PlacesAre
            DEF ClaimInv, Up
    <2> QED
        BY <1>3, <2>2, <2>3 DEF RcClaim
<1>4. CASE ~RcClaim
    <2>1. \A n \in Standby :
             /\ claim'[n] = claim[n]
             /\ Claimed(n)' => Claimed(n)
        BY <1>2, <1>4 DEF Claimed
    <2>2. /\ \A n \in Standby :
                /\ claim'[n] \in {None, Source}
                /\ hb'[n].listed => host'[n] \in {"up", "gone"}
                /\ claim'[n] # None => host'[n] \in {"up", "gone"}
                /\ claim'[n] # None /\ Up(n)' => hb'[n].listed
          /\ \A m, n \in Standby : Claimed(m)' /\ Claimed(n)' => m = n
        BY <1>2, <2>1, PlacesAre DEF ClaimInv, Up
    <2>3. CASE PassOn
        BY <2>1, <2>2, <2>3, PcsAre
        DEF PassOn, ClaimInv, VolumeInv, RecoveryPassInv
    <2>4. CASE RcLookup
        <3>1. pass.pc = "lookup" /\ pass.src = Source /\ UNCHANGED hb
            BY <2>4, PcsAre
            DEF RcLookup, VolumeInv, RecoveryPassInv, registry
        <3>2. CASE Finish
            <4>1. pass'.pc = "idle"
                BY <3>2, FinishIs DEF PassIs
            <4> QED
                BY <2>2, <4>1, PcsAre DEF ClaimInv
        <3>3. ASSUME NEW n \in Standby, hb[n].listed, claim[n] = pass.src,
                     Onto(n, "mark")
              PROVE  ClaimInv'
            <4>1. pass'.pc = "mark" /\ pass'.tgt = n
                BY <3>3, OntoIs, PcsAre, PlacesAre
                DEF PassIs, TypeOK, RecoveryTypeOK
            <4> QED
                BY <2>1, <2>2, <3>1, <3>3, <4>1, PcsAre, PlacesAre
                DEF ClaimInv, Claimed
        <3>4. ASSUME ~\E n \in Standby : hb[n].listed /\ claim[n] = pass.src,
                     Goto("claim")
              PROVE  ClaimInv'
            <4>1. pass'.pc = "claim"
                BY <3>4, GotoIs, PcsAre DEF PassIs, TypeOK, RecoveryTypeOK
            <4>2. \A n \in Standby : ~Claimed(n)
                BY <3>1, <3>4 DEF ClaimInv, Claimed
            <4> QED
                BY <2>1, <2>2, <4>1, <4>2, PcsAre DEF ClaimInv
        <3> QED
            BY <2>4, <3>2, <3>3, <3>4 DEF RcLookup
    <2>5. ASSUME NEW n \in Standby, RpRead(n)
          PROVE  ClaimInv'
        <3>1. pass'.pc = "lease" /\ pass'.src = n
            BY <2>5, RpReadDoes
        <3>2. Claimed(n)
            BY <2>5 DEF RpRead, Claimed
        <3> QED
            BY <2>1, <2>2, <3>1, <3>2, PcsAre DEF ClaimInv
    <2> QED
        BY <1>1, <1>4, <2>3, <2>4, <2>5 DEF PassStep
<1> QED
    BY <1>3, <1>4

\* The volume survives what comes.
LEMMA KeepStep ==
    ASSUME TypeOK, VolumeInv, KeepInv, [Next]_vars,
           evac'[Source] = "saving" => evac[Source] = "saving" \/ Home \in keep',
           pass'.pc = "detach" =>
               pass.pc = "detach" \/ at[Home] \in Standby
    PROVE  KeepInv'
<1>1. HomeStep /\ keep \subseteq keep'
    BY HomeSteps, KeepGrows
<1>2. pass.pc = "discard" => pass.src \in Standby
    BY PassPlaces, PcsAre
<1> QED
    BY <1>1, <1>2, PlacesAre DEF HomeStep, KeepInv

\* Guests are checkpointed only into a volume that survives.
SavingStep == evac'[Source] = "saving" => evac[Source] = "saving" \/ Home \in keep'

LEMMA SavingSteps ==
    ASSUME TypeOK, VolumeInv, [Next]_vars
    PROVE  SavingStep
<1>1. CASE AgentStep
    <2>1. ASSUME NEW n \in Node, Heartbeat(n)
          PROVE  SavingStep
        BY <2>1 DEF Heartbeat, reclaim, SavingStep
    <2>2. ASSUME NEW n \in Node, HeartbeatExpire(n)
          PROVE  SavingStep
        BY <2>2 DEF HeartbeatExpire, reclaim, SavingStep
    <2>3. ASSUME NEW n \in Spot, Detect(n)
          PROVE  SavingStep
        BY <2>3 DEF Detect, TypeOK, RecoveryTypeOK, SavingStep
    <2>4. ASSUME NEW n \in Spot, Preserve(n)
          PROVE  SavingStep
        BY <2>4, PlacesAre
        DEF Preserve, VolumeInv, MountedInv, SourceInv, TypeOK, RecoveryTypeOK,
            SavingStep
    <2>5. ASSUME NEW n \in Spot, NEW r \in Sandbox, CkStart(n, r)
          PROVE  SavingStep
        BY <2>5 DEF CkStart, SavingStep
    <2>6. ASSUME NEW n \in Spot, NEW r \in Sandbox, CkWrite(n, r)
          PROVE  SavingStep
        BY <2>6 DEF CkWrite, SavingStep
    <2>7. ASSUME NEW n \in Spot, NEW r \in Sandbox, CkDone(n, r)
          PROVE  SavingStep
        BY <2>7 DEF CkDone, SavingStep
    <2>8. ASSUME NEW n \in Spot, NEW r \in Sandbox, CkFail(n, r)
          PROVE  SavingStep
        BY <2>8 DEF CkFail, SavingStep
    <2> QED
        BY <1>1, <2>1, <2>2, <2>3, <2>4, <2>5, <2>6, <2>7, <2>8 DEF AgentStep
<1>2. CASE Ec2Step
    <2>1. ASSUME NEW n \in Spot, Deadline(n)
          PROVE  SavingStep
        BY <2>1 DEF Deadline, SavingStep
    <2>2. ASSUME NEW n \in Spot, Terminate(n)
          PROVE  SavingStep
        BY <2>2 DEF Terminate, SavingStep
    <2>3. ASSUME NEW n \in Standby, StandbyLost(n)
          PROVE  SavingStep
        BY <2>3 DEF StandbyLost, reclaim, SavingStep
    <2>4. ASSUME NEW n \in Standby, StandbyJoins(n)
          PROVE  SavingStep
        BY <2>4 DEF StandbyJoins, reclaim, SavingStep
    <2> QED
        BY <1>2, <2>1, <2>2, <2>3, <2>4 DEF Ec2Step
<1>3. CASE WorkStep
    <2>1. ASSUME NEW r \in Sandbox, NEW k \in {"suspend", "resume", "delete"},
                 WorkStart(r, k)
          PROVE  SavingStep
        BY <2>1 DEF WorkStart, reclaim, SavingStep
    <2>2. ASSUME NEW r \in Sandbox, WorkCall(r)
          PROVE  SavingStep
        BY <2>2 DEF WorkCall, reclaim, SavingStep
    <2>3. ASSUME NEW r \in Sandbox, WorkDone(r)
          PROVE  SavingStep
        BY <2>3 DEF WorkDone, reclaim, SavingStep
    <2> QED
        BY <1>3, <2>1, <2>2, <2>3 DEF WorkStep
<1>4. CASE RcStep
    <2>1. ASSUME NEW n \in Spot, RcRead(n)
          PROVE  SavingStep
        BY <2>1 DEF RcRead, reclaim, SavingStep
    <2>2. CASE RcLookup
        BY <2>2 DEF RcLookup, reclaim, SavingStep
    <2>3. CASE RcClaim
        BY <2>3 DEF RcClaim, reclaim, SavingStep
    <2>4. CASE RcMark
        BY <2>4 DEF RcMark, reclaim, SavingStep
    <2>5. CASE RcAttach
        BY <2>5 DEF RcAttach, reclaim, SavingStep
    <2>6. CASE RcMount
        BY <2>6 DEF RcMount, reclaim, SavingStep
    <2>7. ASSUME NEW r \in Sandbox, RcStart(r)
          PROVE  SavingStep
        BY <2>7 DEF RcStart, reclaim, SavingStep
    <2>8. ASSUME NEW r \in Sandbox, RcBoot(r)
          PROVE  SavingStep
        BY <2>8 DEF RcBoot, reclaim, SavingStep
    <2>9. ASSUME NEW r \in Sandbox, RcDone(r)
          PROVE  SavingStep
        BY <2>9 DEF RcDone, reclaim, SavingStep
    <2>10. ASSUME NEW r \in Sandbox, RcFail(r)
           PROVE  SavingStep
        BY <2>10 DEF RcFail, reclaim, SavingStep
    <2>11. CASE RcEnd
        BY <2>11 DEF RcEnd, reclaim, SavingStep
    <2> QED
        BY <1>4, <2>1, <2>2, <2>3, <2>4, <2>5, <2>6, <2>7, <2>8, <2>9, <2>10,
           <2>11
        DEF RcStep
<1>5. CASE RpStep
    <2>1. ASSUME NEW n \in Standby, RpRead(n)
          PROVE  SavingStep
        BY <2>1 DEF RpRead, reclaim, SavingStep
    <2>2. CASE RpLease
        BY <2>2 DEF RpLease, reclaim, SavingStep
    <2>3. CASE RpEmpty
        BY <2>3 DEF RpEmpty, reclaim, SavingStep
    <2>4. CASE RpDiscard
        BY <2>4 DEF RpDiscard, reclaim, SavingStep
    <2>5. CASE RpTarget
        BY <2>5 DEF RpTarget, reclaim, SavingStep
    <2>6. CASE RpMark
        BY <2>6 DEF RpMark, reclaim, SavingStep
    <2>7. ASSUME NEW r \in Sandbox, RpSave(r)
          PROVE  SavingStep
        BY <2>7 DEF RpSave, reclaim, SavingStep
    <2>8. ASSUME NEW r \in Sandbox, RpFlag(r)
          PROVE  SavingStep
        BY <2>8 DEF RpFlag, reclaim, SavingStep
    <2>9. CASE RpNoGuest
        BY <2>9 DEF RpNoGuest, reclaim, SavingStep
    <2>10. CASE RpHandoff
        BY <2>10 DEF RpHandoff, reclaim, SavingStep
    <2>11. CASE RpUnmount
        BY <2>11 DEF RpUnmount, Quiesce, reclaim, SavingStep
    <2>12. CASE RpDetach
        BY <2>12 DEF RpDetach, Release, reclaim, SavingStep
    <2>13. CASE RpUnmountReplaced
        BY <2>13 DEF RpUnmountReplaced, Quiesce, reclaim, SavingStep
    <2>14. CASE RpDetachReplaced
        BY <2>14 DEF RpDetachReplaced, Release, reclaim, SavingStep
    <2>15. CASE RpAttach
        BY <2>15 DEF RpAttach, reclaim, SavingStep
    <2>16. CASE RpMount
        BY <2>16 DEF RpMount, reclaim, SavingStep
    <2>17. ASSUME NEW r \in Sandbox, RpReturn(r)
           PROVE  SavingStep
        BY <2>17 DEF RpReturn, reclaim, SavingStep
    <2>18. ASSUME NEW r \in Sandbox, RpBoot(r)
           PROVE  SavingStep
        BY <2>18 DEF RpBoot, reclaim, SavingStep
    <2>19. ASSUME NEW r \in Sandbox, RpBootFails(r)
           PROVE  SavingStep
        BY <2>19 DEF RpBootFails, reclaim, SavingStep
    <2>20. ASSUME NEW r \in Sandbox, RpDone(r)
           PROVE  SavingStep
        BY <2>20 DEF RpDone, reclaim, SavingStep
    <2>21. CASE RpHealth
        BY <2>21 DEF RpHealth, reclaim, SavingStep
    <2>22. CASE RpRelease
        BY <2>22 DEF RpRelease, reclaim, SavingStep
    <2>23. CASE RpTerminate
        BY <2>23 DEF RpTerminate, reclaim, SavingStep
    <2> QED
        BY <1>5, <2>1, <2>2, <2>3, <2>4, <2>5, <2>6, <2>7, <2>8, <2>9, <2>10,
           <2>11, <2>12, <2>13, <2>14, <2>15, <2>16, <2>17, <2>18, <2>19, <2>20,
           <2>21, <2>22, <2>23
        DEF RpStep
<1>6. CASE OperatorFault
    <2>1. CASE Crash
        BY <2>1 DEF Crash, reclaim, SavingStep
    <2>2. CASE LeaseLost
        BY <2>2 DEF LeaseLost, reclaim, SavingStep
    <2> QED
        BY <1>6, <2>1, <2>2 DEF OperatorFault
<1>7. CASE UNCHANGED vars
    BY <1>7 DEF vars, recoveryVars, SavingStep
<1> QED
    BY <1>1, <1>2, <1>3, <1>4, <1>5, <1>6, <1>7 DEF Next

\* The volume is detached from a standby.
DetachStep == pass'.pc = "detach" => pass.pc = "detach" \/ at[Home] \in Standby

LEMMA DetachSteps ==
    ASSUME TypeOK, VolumeInv, [Next]_vars
    PROVE  DetachStep
<1>1. CASE AgentStep
    <2>1. ASSUME NEW n \in Node, Heartbeat(n)
          PROVE  DetachStep
        BY <2>1 DEF Heartbeat, passes, DetachStep
    <2>2. ASSUME NEW n \in Node, HeartbeatExpire(n)
          PROVE  DetachStep
        BY <2>2 DEF HeartbeatExpire, passes, DetachStep
    <2>3. ASSUME NEW n \in Spot, Detect(n)
          PROVE  DetachStep
        BY <2>3 DEF Detect, passes, DetachStep
    <2>4. ASSUME NEW n \in Spot, Preserve(n)
          PROVE  DetachStep
        BY <2>4 DEF Preserve, passes, DetachStep
    <2>5. ASSUME NEW n \in Spot, NEW r \in Sandbox, CkStart(n, r)
          PROVE  DetachStep
        BY <2>5 DEF CkStart, passes, DetachStep
    <2>6. ASSUME NEW n \in Spot, NEW r \in Sandbox, CkWrite(n, r)
          PROVE  DetachStep
        BY <2>6 DEF CkWrite, passes, DetachStep
    <2>7. ASSUME NEW n \in Spot, NEW r \in Sandbox, CkDone(n, r)
          PROVE  DetachStep
        BY <2>7 DEF CkDone, passes, DetachStep
    <2>8. ASSUME NEW n \in Spot, NEW r \in Sandbox, CkFail(n, r)
          PROVE  DetachStep
        BY <2>8 DEF CkFail, passes, DetachStep
    <2> QED
        BY <1>1, <2>1, <2>2, <2>3, <2>4, <2>5, <2>6, <2>7, <2>8 DEF AgentStep
<1>2. CASE Ec2Step
    <2>1. ASSUME NEW n \in Spot, Deadline(n)
          PROVE  DetachStep
        BY <2>1 DEF Deadline, passes, DetachStep
    <2>2. ASSUME NEW n \in Spot, Terminate(n)
          PROVE  DetachStep
        BY <2>2 DEF Terminate, passes, DetachStep
    <2>3. ASSUME NEW n \in Standby, StandbyLost(n)
          PROVE  DetachStep
        BY <2>3 DEF StandbyLost, passes, DetachStep
    <2>4. ASSUME NEW n \in Standby, StandbyJoins(n)
          PROVE  DetachStep
        BY <2>4 DEF StandbyJoins, passes, DetachStep
    <2> QED
        BY <1>2, <2>1, <2>2, <2>3, <2>4 DEF Ec2Step
<1>3. CASE WorkStep
    <2>1. ASSUME NEW r \in Sandbox, NEW k \in {"suspend", "resume", "delete"},
                 WorkStart(r, k)
          PROVE  DetachStep
        BY <2>1 DEF WorkStart, passes, DetachStep
    <2>2. ASSUME NEW r \in Sandbox, WorkCall(r)
          PROVE  DetachStep
        BY <2>2 DEF WorkCall, passes, DetachStep
    <2>3. ASSUME NEW r \in Sandbox, WorkDone(r)
          PROVE  DetachStep
        BY <2>3 DEF WorkDone, passes, DetachStep
    <2> QED
        BY <1>3, <2>1, <2>2, <2>3 DEF WorkStep
<1>4. CASE RcStep
    <2>1. ASSUME NEW n \in Spot, RcRead(n)
          PROVE  DetachStep
        BY <2>1, RcReadDoes DEF DetachStep
    <2>2. CASE RcLookup
        BY <2>2, RcLookupDoes DEF Ends, DetachStep
    <2>3. CASE RcClaim
        BY <2>3, RcClaimDoes DEF Ends, DetachStep
    <2>4. CASE RcMark
        BY <2>4, RcMarkDoes DEF DetachStep
    <2>5. CASE RcAttach
        BY <2>5, RcAttachDoes DEF Ends, DetachStep
    <2>6. CASE RcMount
        BY <2>6, RcMountDoes DEF Ends, DetachStep
    <2>7. ASSUME NEW r \in Sandbox, RcStart(r)
          PROVE  DetachStep
        BY <2>7 DEF RcStart, DetachStep
    <2>8. ASSUME NEW r \in Sandbox, RcBoot(r)
          PROVE  DetachStep
        BY <2>8 DEF RcBoot, DetachStep
    <2>9. ASSUME NEW r \in Sandbox, RcDone(r)
          PROVE  DetachStep
        BY <2>9 DEF RcDone, DetachStep
    <2>10. ASSUME NEW r \in Sandbox, RcFail(r)
           PROVE  DetachStep
        BY <2>10 DEF RcFail, DetachStep
    <2>11. CASE RcEnd
        BY <2>11, RcEndDoes DEF Ends, DetachStep
    <2> QED
        BY <1>4, <2>1, <2>2, <2>3, <2>4, <2>5, <2>6, <2>7, <2>8, <2>9, <2>10,
           <2>11
        DEF RcStep
<1>5. CASE RpStep
    <2>1. ASSUME NEW n \in Standby, RpRead(n)
          PROVE  DetachStep
        BY <2>1, RpReadDoes DEF DetachStep
    <2>2. CASE RpLease
        BY <2>2, RpLeaseDoes DEF Ends, DetachStep
    <2>3. CASE RpEmpty
        BY <2>3, RpEmptyDoes DEF Ends, PassIs, DetachStep
    <2>4. CASE RpDiscard
        BY <2>4, RpDiscardDoes DEF Ends, PassIs, DetachStep
    <2>5. CASE RpTarget
        BY <2>5, RpTargetDoes DEF Ends, DetachStep
    <2>6. CASE RpMark
        BY <2>6, RpMarkDoes DEF Ends, PassIs, DetachStep
    <2>7. ASSUME NEW r \in Sandbox, RpSave(r)
          PROVE  DetachStep
        BY <2>7 DEF RpSave, passes, DetachStep
    <2>8. ASSUME NEW r \in Sandbox, RpFlag(r)
          PROVE  DetachStep
        BY <2>8 DEF RpFlag, passes, DetachStep
    <2>9. CASE RpNoGuest
        BY <2>9, RpNoGuestDoes DEF Ends, PassIs, DetachStep
    <2>10. CASE RpHandoff
        BY <2>10, RpHandoffDoes DEF Ends, PassIs, DetachStep
    <2>11. CASE RpUnmount
        <3>1. CASE at[Home] = pass.src
            BY <3>1, <2>11, PassPlaces, PcsAre
            DEF RpUnmount, Quiesce, DetachStep
        <3>2. CASE at[Home] # pass.src
            <4>1. Goto("unmount2")
                BY <3>2, <2>11 DEF RpUnmount, Quiesce, Moved, DetachStep
            <4> QED
                BY <4>1, GotoIs, PassPlaces, PcsAre DEF PassIs, DetachStep
        <3> QED
            BY <3>1, <3>2 DEF DetachStep
    <2>12. CASE RpDetach
        BY <2>12, RpDetachDoes DEF Ends, PassIs, DetachStep
    <2>13. CASE RpUnmountReplaced
        BY <2>13, RpUnmountReplacedDoes DEF Ends, PassIs, DetachStep
    <2>14. CASE RpDetachReplaced
        BY <2>14, RpDetachReplacedDoes DEF Ends, PassIs, DetachStep
    <2>15. CASE RpAttach
        BY <2>15, RpAttachDoes DEF Ends, PassIs, DetachStep
    <2>16. CASE RpMount
        BY <2>16, RpMountDoes DEF Ends, PassIs, DetachStep
    <2>17. ASSUME NEW r \in Sandbox, RpReturn(r)
           PROVE  DetachStep
        BY <2>17 DEF RpReturn, DetachStep
    <2>18. ASSUME NEW r \in Sandbox, RpBoot(r)
           PROVE  DetachStep
        BY <2>18 DEF RpBoot, DetachStep
    <2>19. ASSUME NEW r \in Sandbox, RpBootFails(r)
           PROVE  DetachStep
        BY <2>19 DEF RpBootFails, DetachStep
    <2>20. ASSUME NEW r \in Sandbox, RpDone(r)
           PROVE  DetachStep
        BY <2>20 DEF RpDone, DetachStep
    <2>21. CASE RpHealth
        BY <2>21, RpHealthDoes DEF Ends, PassIs, DetachStep
    <2>22. CASE RpRelease
        BY <2>22, RpReleaseDoes DEF Ends, PassIs, DetachStep
    <2>23. CASE RpTerminate
        BY <2>23, RpTerminateDoes DEF Ends, PassIs, DetachStep
    <2> QED
        BY <1>5, <2>1, <2>2, <2>3, <2>4, <2>5, <2>6, <2>7, <2>8, <2>9, <2>10,
           <2>11, <2>12, <2>13, <2>14, <2>15, <2>16, <2>17, <2>18, <2>19, <2>20,
           <2>21, <2>22, <2>23
        DEF RpStep
<1>6. CASE OperatorFault
    <2>1. CASE Crash
        BY <2>1, CrashDoes DEF Ends, DetachStep
    <2>2. CASE LeaseLost
        BY <2>2, LeaseLostDoes DEF Ends, PassIs, DetachStep
    <2> QED
        BY <1>6, <2>1, <2>2 DEF OperatorFault
<1>7. CASE UNCHANGED vars
    BY <1>7 DEF vars, recoveryVars, DetachStep
<1> QED
    BY <1>1, <1>2, <1>3, <1>4, <1>5, <1>6, <1>7 DEF Next

\* A sandbox gets a host from the pass that recovers it or hands it over.
TargetStep(s) ==
    \/ rec'[s].tgt \in {rec[s].tgt, None}
    \/ /\ pass.pc \in {"mark", "resume"} /\ InRecovery(s)
       /\ rec'[s].tgt = pass.tgt
    \/ pass.pc = "restore" /\ rec'[s].tgt = pass.tgt

LEMMA TargetSteps ==
    ASSUME TypeOK, VolumeInv, NEW s \in Sandbox, SandboxInv(s), [Next]_vars
    PROVE  TargetStep(s)
<1>1. CASE AgentStep
    <2>1. ASSUME NEW n \in Node, Heartbeat(n) PROVE TargetStep(s)
        BY <2>1, HeartbeatDoes DEF TargetStep, Kept, Same
    <2>2. ASSUME NEW n \in Node, HeartbeatExpire(n) PROVE TargetStep(s)
        BY <2>2, HeartbeatExpireDoes DEF TargetStep, Kept, Same
    <2>3. ASSUME NEW n \in Spot, Detect(n) PROVE TargetStep(s)
        BY <2>3, DetectDoes DEF TargetStep
    <2>4. ASSUME NEW n \in Spot, Preserve(n) PROVE TargetStep(s)
        BY <2>4, PreserveDoes DEF TargetStep, Same, JournalIs
    <2>5. ASSUME NEW n \in Spot, NEW r \in Sandbox, CkStart(n, r)
          PROVE  TargetStep(s)
        BY <2>5, CkStartDoes DEF TargetStep, Settled, Others, Same, JournalIs
    <2>6. ASSUME NEW n \in Spot, NEW r \in Sandbox, CkWrite(n, r)
          PROVE  TargetStep(s)
        BY <2>6, CkWriteDoes DEF TargetStep, Settled, Others, Same
    <2>7. ASSUME NEW n \in Spot, NEW r \in Sandbox, CkDone(n, r)
          PROVE  TargetStep(s)
        BY <2>7, CkDoneDoes DEF TargetStep, Settled, Others, Same, JournalIs
    <2>8. ASSUME NEW n \in Spot, NEW r \in Sandbox, CkFail(n, r)
          PROVE  TargetStep(s)
        BY <2>8, CkFailDoes DEF TargetStep, Settled, Others, Same, JournalIs
    <2> QED
        BY <1>1, <2>1, <2>2, <2>3, <2>4, <2>5, <2>6, <2>7, <2>8 DEF AgentStep
<1>2. CASE Ec2Step
    <2>1. ASSUME NEW n \in Spot, Deadline(n) PROVE TargetStep(s)
        BY <2>1, DeadlineDoes DEF TargetStep, Kept, Same
    <2>2. ASSUME NEW n \in Spot, Terminate(n) PROVE TargetStep(s)
        BY <2>2, TerminateDoes DEF TargetStep
    <2>3. ASSUME NEW n \in Standby, StandbyLost(n) PROVE TargetStep(s)
        BY <2>3, StandbyLostDoes DEF TargetStep, Kept, Same
    <2>4. ASSUME NEW n \in Standby, StandbyJoins(n) PROVE TargetStep(s)
        BY <2>4, StandbyJoinsDoes DEF TargetStep, Kept, Same
    <2> QED
        BY <1>2, <2>1, <2>2, <2>3, <2>4 DEF Ec2Step
<1>3. CASE WorkStep
    <2>1. ASSUME NEW r \in Sandbox, NEW k \in {"suspend", "resume", "delete"},
                 WorkStart(r, k)
          PROVE  TargetStep(s)
        BY <2>1, WorkStartDoes DEF TargetStep, Settled, Others, Same, RecIs
    <2>2. ASSUME NEW r \in Sandbox, WorkCall(r) PROVE TargetStep(s)
        BY <2>2, WorkCallDoes DEF TargetStep, Settled, Others, Same
    <2>3. ASSUME NEW r \in Sandbox, WorkDone(r) PROVE TargetStep(s)
        BY <2>3, WorkDoneDoes, NoRecordIs
        DEF TargetStep, Settled, Others, Same, RecIs
    <2> QED
        BY <1>3, <2>1, <2>2, <2>3 DEF WorkStep
<1>4. CASE RcStep
    <2>1. ASSUME NEW n \in Spot, RcRead(n) PROVE TargetStep(s)
        BY <2>1, RcReadDoes DEF TargetStep, Still
    <2>2. CASE RcLookup
        BY <2>2, RcLookupDoes DEF TargetStep, RecIs
    <2>3. CASE RcClaim
        BY <2>3, RcClaimDoes DEF TargetStep, Still
    <2>4. CASE RcMark
        BY <2>4, RcMarkDoes, PcsAre, NoJobs
        DEF TargetStep, RecIs, InRecovery, SandboxInv, JobInv
    <2>5. CASE RcAttach
        BY <2>5, RcAttachDoes DEF TargetStep, Still
    <2>6. CASE RcMount
        BY <2>6, RcMountDoes DEF TargetStep
    <2>7. ASSUME NEW r \in Sandbox, RcStart(r) PROVE TargetStep(s)
        BY <2>7, RcStartDoes, PcsAre, PlacesAre
        DEF TargetStep, Settled, Others, Same, RecIs, InRecovery, SandboxInv,
            JobInv
    <2>8. ASSUME NEW r \in Sandbox, RcBoot(r) PROVE TargetStep(s)
        BY <2>8, RcBootDoes DEF TargetStep, Settled, Others, Same
    <2>9. ASSUME NEW r \in Sandbox, RcDone(r) PROVE TargetStep(s)
        BY <2>9, RcDoneDoes DEF TargetStep, Settled, Others, Same, RecIs
    <2>10. ASSUME NEW r \in Sandbox, RcFail(r) PROVE TargetStep(s)
        BY <2>10, RcFailDoes DEF TargetStep, Settled, Others, Same, RecIs
    <2>11. CASE RcEnd
        BY <2>11, RcEndDoes DEF TargetStep
    <2> QED
        BY <1>4, <2>1, <2>2, <2>3, <2>4, <2>5, <2>6, <2>7, <2>8, <2>9, <2>10,
           <2>11
        DEF RcStep
<1>5. CASE RpStep
    <2>1. ASSUME NEW n \in Standby, RpRead(n) PROVE TargetStep(s)
        BY <2>1, RpReadDoes DEF TargetStep, Still
    <2>2. CASE RpLease
        BY <2>2, RpLeaseDoes DEF TargetStep, Still
    <2>3. CASE RpEmpty
        BY <2>3, RpEmptyDoes DEF TargetStep, Still
    <2>4. CASE RpDiscard
        BY <2>4, RpDiscardDoes DEF TargetStep
    <2>5. CASE RpTarget
        BY <2>5, RpTargetDoes DEF TargetStep, Still
    <2>6. CASE RpMark
        BY <2>6, RpMarkDoes DEF TargetStep
    <2>7. ASSUME NEW r \in Sandbox, RpSave(r) PROVE TargetStep(s)
        BY <2>7, RpSaveDoes DEF TargetStep, Settled, Others, Same
    <2>8. ASSUME NEW r \in Sandbox, RpFlag(r) PROVE TargetStep(s)
        BY <2>8, RpFlagDoes DEF TargetStep, Settled, Others, Same, FlaggedIs
    <2>9. CASE RpNoGuest
        BY <2>9, RpNoGuestDoes DEF TargetStep, Still
    <2>10. CASE RpHandoff
        BY <2>10, RpHandoffDoes DEF TargetStep, Still
    <2>11. CASE RpUnmount
        BY <2>11, RpUnmountDoes DEF TargetStep
    <2>12. CASE RpDetach
        BY <2>12, RpDetachDoes DEF TargetStep, Still
    <2>13. CASE RpUnmountReplaced
        BY <2>13, RpUnmountReplacedDoes DEF TargetStep
    <2>14. CASE RpDetachReplaced
        BY <2>14, RpDetachReplacedDoes DEF TargetStep, Still
    <2>15. CASE RpAttach
        BY <2>15, RpAttachDoes DEF TargetStep, Still
    <2>16. CASE RpMount
        BY <2>16, RpMountDoes DEF TargetStep
    <2>17. ASSUME NEW r \in Sandbox, RpReturn(r) PROVE TargetStep(s)
        BY <2>17, RpReturnDoes DEF TargetStep, Settled, Others, Same, RecIs
    <2>18. ASSUME NEW r \in Sandbox, RpBoot(r) PROVE TargetStep(s)
        BY <2>18, RpBootDoes DEF TargetStep, Settled, Others, Same
    <2>19. ASSUME NEW r \in Sandbox, RpBootFails(r) PROVE TargetStep(s)
        BY <2>19, RpBootFailsDoes DEF TargetStep, Settled, Others, Same
    <2>20. ASSUME NEW r \in Sandbox, RpDone(r) PROVE TargetStep(s)
        BY <2>20, RpDoneDoes DEF TargetStep, Settled, Others, Same, RecIs
    <2>21. CASE RpHealth
        BY <2>21, RpHealthDoes DEF TargetStep, Still
    <2>22. CASE RpRelease
        BY <2>22, RpReleaseDoes DEF TargetStep, Still
    <2>23. CASE RpTerminate
        BY <2>23, RpTerminateDoes DEF TargetStep
    <2> QED
        BY <1>5, <2>1, <2>2, <2>3, <2>4, <2>5, <2>6, <2>7, <2>8, <2>9, <2>10,
           <2>11, <2>12, <2>13, <2>14, <2>15, <2>16, <2>17, <2>18, <2>19, <2>20,
           <2>21, <2>22, <2>23
        DEF RpStep
<1>6. CASE OperatorFault
    <2>1. CASE Crash
        BY <2>1, CrashDoes DEF TargetStep, Still
    <2>2. CASE LeaseLost
        BY <2>2, LeaseLostDoes DEF TargetStep, Still
    <2> QED
        BY <1>6, <2>1, <2>2 DEF OperatorFault
<1>7. CASE UNCHANGED vars
    BY <1>7 DEF vars, recoveryVars, TargetStep
<1> QED
    BY <1>1, <1>2, <1>3, <1>4, <1>5, <1>6, <1>7 DEF Next

\* A recovery begins with a checkpoint.
LEMMA RecoveriesBegin ==
    ASSUME TypeOK, VolumeInv, NEW s \in Sandbox, SandboxInv(s), [Next]_vars
    PROVE  InRecovery(s)' => InRecovery(s) \/ evac[Source] = "saving"
<1>1. CASE AgentStep
    <2>1. ASSUME NEW n \in Node, Heartbeat(n)
          PROVE  InRecovery(s)' => InRecovery(s) \/ evac[Source] = "saving"
        BY <2>1, HeartbeatDoes DEF InRecovery, Kept, Same
    <2>2. ASSUME NEW n \in Node, HeartbeatExpire(n)
          PROVE  InRecovery(s)' => InRecovery(s) \/ evac[Source] = "saving"
        BY <2>2, HeartbeatExpireDoes DEF InRecovery, Kept, Same
    <2>3. ASSUME NEW n \in Spot, Detect(n)
          PROVE  InRecovery(s)' => InRecovery(s) \/ evac[Source] = "saving"
        BY <2>3, DetectDoes DEF InRecovery
    <2>4. ASSUME NEW n \in Spot, Preserve(n)
          PROVE  InRecovery(s)' => InRecovery(s) \/ evac[Source] = "saving"
        BY <2>4, PreserveDoes DEF InRecovery, Same, JournalIs, Recoverable
    <2>5. ASSUME NEW n \in Spot, NEW r \in Sandbox, CkStart(n, r)
          PROVE  InRecovery(s)' => InRecovery(s) \/ evac[Source] = "saving"
        BY <2>5, CkStartDoes
        DEF InRecovery, Settled, Others, Same, JournalIs, CkStart, Recoverable
    <2>6. ASSUME NEW n \in Spot, NEW r \in Sandbox, CkWrite(n, r)
          PROVE  InRecovery(s)' => InRecovery(s) \/ evac[Source] = "saving"
        BY <2>6, CkWriteDoes DEF InRecovery, Settled, Others, Same, CkWrite
    <2>7. ASSUME NEW n \in Spot, NEW r \in Sandbox, CkDone(n, r)
          PROVE  InRecovery(s)' => InRecovery(s) \/ evac[Source] = "saving"
        BY <2>7, CkDoneDoes
        DEF InRecovery, Settled, Others, Same, JournalIs, CkDone, Recoverable
    <2>8. ASSUME NEW n \in Spot, NEW r \in Sandbox, CkFail(n, r)
          PROVE  InRecovery(s)' => InRecovery(s) \/ evac[Source] = "saving"
        BY <2>8, CkFailDoes
        DEF InRecovery, Settled, Others, Same, JournalIs, CkFail, Recoverable
    <2> QED
        BY <1>1, <2>1, <2>2, <2>3, <2>4, <2>5, <2>6, <2>7, <2>8 DEF AgentStep
<1>2. CASE Ec2Step
    <2>1. ASSUME NEW n \in Spot, Deadline(n)
          PROVE  InRecovery(s)' => InRecovery(s) \/ evac[Source] = "saving"
        BY <2>1, DeadlineDoes DEF InRecovery, Kept, Same
    <2>2. ASSUME NEW n \in Spot, Terminate(n)
          PROVE  InRecovery(s)' => InRecovery(s) \/ evac[Source] = "saving"
        BY <2>2, TerminateDoes DEF InRecovery
    <2>3. ASSUME NEW n \in Standby, StandbyLost(n)
          PROVE  InRecovery(s)' => InRecovery(s) \/ evac[Source] = "saving"
        BY <2>3, StandbyLostDoes DEF InRecovery, Kept, Same
    <2>4. ASSUME NEW n \in Standby, StandbyJoins(n)
          PROVE  InRecovery(s)' => InRecovery(s) \/ evac[Source] = "saving"
        BY <2>4, StandbyJoinsDoes DEF InRecovery, Kept, Same
    <2> QED
        BY <1>2, <2>1, <2>2, <2>3, <2>4 DEF Ec2Step
<1>3. CASE WorkStep
    <2>1. ASSUME NEW r \in Sandbox, NEW k \in {"suspend", "resume", "delete"},
                 WorkStart(r, k)
          PROVE  InRecovery(s)' => InRecovery(s) \/ evac[Source] = "saving"
        BY <2>1, WorkStartDoes, HandingIs
        DEF InRecovery, Settled, Others, Same, RecIs, Recoverable, Marked
    <2>2. ASSUME NEW r \in Sandbox, WorkCall(r)
          PROVE  InRecovery(s)' => InRecovery(s) \/ evac[Source] = "saving"
        BY <2>2, WorkCallDoes DEF InRecovery, Settled, Others, Same, Recoverable
    <2>3. ASSUME NEW r \in Sandbox, WorkDone(r)
          PROVE  InRecovery(s)' => InRecovery(s) \/ evac[Source] = "saving"
        BY <2>3, WorkDoneDoes, NoRecordIs
        DEF InRecovery, Settled, Others, Same, RecIs, Recoverable
    <2> QED
        BY <1>3, <2>1, <2>2, <2>3 DEF WorkStep
<1>4. CASE RcStep
    <2>1. ASSUME NEW n \in Spot, RcRead(n)
          PROVE  InRecovery(s)' => InRecovery(s) \/ evac[Source] = "saving"
        BY <2>1, RcReadDoes, PcsAre DEF InRecovery, Still, ViewOf, Ends, PassIs
    <2>2. CASE RcLookup
        BY <2>2, RcLookupDoes, PcsAre, NoJobs
        DEF InRecovery, RecIs, Recoverable, Ends, PassIs
    <2>3. CASE RcClaim
        BY <2>3, RcClaimDoes, PcsAre, NoJobs DEF InRecovery, Still, Ends, PassIs
    <2>4. CASE RcMark
        BY <2>4, RcMarkDoes, PcsAre, NoJobs DEF InRecovery, RecIs, Recoverable
    <2>5. CASE RcAttach
        BY <2>5, RcAttachDoes, PcsAre, NoJobs
        DEF InRecovery, Still, Ends, PassIs
    <2>6. CASE RcMount
        BY <2>6, RcMountDoes, PcsAre, NoJobs
        DEF InRecovery, Ends, PassIs, Recoverable
    <2>7. ASSUME NEW r \in Sandbox, RcStart(r)
          PROVE  InRecovery(s)' => InRecovery(s) \/ evac[Source] = "saving"
        BY <2>7, RcStartDoes, PlacesAre, PcsAre
        DEF InRecovery, Settled, Others, Same, RecIs, Recoverable, SandboxInv,
            JobInv
    <2>8. ASSUME NEW r \in Sandbox, RcBoot(r)
          PROVE  InRecovery(s)' => InRecovery(s) \/ evac[Source] = "saving"
        BY <2>8, RcBootDoes, PlacesAre
        DEF InRecovery, Settled, Others, Same, SandboxInv, JobInv, Recoverable
    <2>9. ASSUME NEW r \in Sandbox, RcDone(r)
          PROVE  InRecovery(s)' => InRecovery(s) \/ evac[Source] = "saving"
        BY <2>9, RcDoneDoes, PlacesAre
        DEF InRecovery, Settled, Others, Same, RecIs, Recoverable, SandboxInv,
            JobInv
    <2>10. ASSUME NEW r \in Sandbox, RcFail(r)
           PROVE  InRecovery(s)' => InRecovery(s) \/ evac[Source] = "saving"
        BY <2>10, RcFailDoes, PlacesAre
        DEF InRecovery, Settled, Others, Same, RecIs, Recoverable, SandboxInv,
            JobInv
    <2>11. CASE RcEnd
        BY <2>11, RcEndDoes, PcsAre DEF InRecovery, Ends, PassIs
    <2> QED
        BY <1>4, <2>1, <2>2, <2>3, <2>4, <2>5, <2>6, <2>7, <2>8, <2>9, <2>10,
           <2>11
        DEF RcStep
<1>5. CASE RpStep
    <2>1. ASSUME NEW n \in Standby, RpRead(n)
          PROVE  InRecovery(s)' => InRecovery(s) \/ evac[Source] = "saving"
        BY <2>1, RpReadDoes, PcsAre DEF InRecovery, Still, Ends, PassIs
    <2>2. CASE RpLease
        BY <2>2, RpLeaseDoes, PcsAre DEF InRecovery, Still, Ends, PassIs
    <2>3. CASE RpEmpty
        BY <2>3, RpEmptyDoes, PcsAre DEF InRecovery, Still, Ends, PassIs
    <2>4. CASE RpDiscard
        BY <2>4, RpDiscardDoes, PcsAre DEF InRecovery, Ends, PassIs
    <2>5. CASE RpTarget
        BY <2>5, RpTargetDoes, PcsAre DEF InRecovery, Still, Ends, PassIs
    <2>6. CASE RpMark
        BY <2>6, RpMarkDoes, PcsAre DEF InRecovery, Recoverable, Ends, PassIs
    <2>7. ASSUME NEW r \in Sandbox, RpSave(r)
          PROVE  InRecovery(s)' => InRecovery(s) \/ evac[Source] = "saving"
        BY <2>7, RpSaveDoes DEF InRecovery, Settled, Others, Same
    <2>8. ASSUME NEW r \in Sandbox, RpFlag(r)
          PROVE  InRecovery(s)' => InRecovery(s) \/ evac[Source] = "saving"
        BY <2>8, RpFlagDoes
        DEF InRecovery, Settled, Others, Same, FlaggedIs, Recoverable
    <2>9. CASE RpNoGuest
        BY <2>9, RpNoGuestDoes, PcsAre DEF InRecovery, Still, Ends, PassIs
    <2>10. CASE RpHandoff
        BY <2>10, RpHandoffDoes, PcsAre DEF InRecovery, Still, Ends, PassIs
    <2>11. CASE RpUnmount
        BY <2>11, RpUnmountDoes, PcsAre DEF InRecovery, Ends, PassIs
    <2>12. CASE RpDetach
        BY <2>12, RpDetachDoes, PcsAre DEF InRecovery, Still, Ends, PassIs
    <2>13. CASE RpUnmountReplaced
        BY <2>13, RpUnmountReplacedDoes, PcsAre DEF InRecovery, Ends, PassIs
    <2>14. CASE RpDetachReplaced
        BY <2>14, RpDetachReplacedDoes, PcsAre
        DEF InRecovery, Still, Ends, PassIs
    <2>15. CASE RpAttach
        BY <2>15, RpAttachDoes, PcsAre DEF InRecovery, Still, Ends, PassIs
    <2>16. CASE RpMount
        BY <2>16, RpMountDoes, PcsAre DEF InRecovery, Ends, PassIs
    <2>17. ASSUME NEW r \in Sandbox, RpReturn(r)
           PROVE  InRecovery(s)' => InRecovery(s) \/ evac[Source] = "saving"
        BY <2>17, RpReturnDoes, PcsAre
        DEF InRecovery, Settled, Others, Same, RecIs, Recoverable, SandboxInv,
            EndedInv
    <2>18. ASSUME NEW r \in Sandbox, RpBoot(r)
           PROVE  InRecovery(s)' => InRecovery(s) \/ evac[Source] = "saving"
        BY <2>18, RpBootDoes, PlacesAre
        DEF InRecovery, Settled, Others, Same, SandboxInv, JobInv, Recoverable
    <2>19. ASSUME NEW r \in Sandbox, RpBootFails(r)
           PROVE  InRecovery(s)' => InRecovery(s) \/ evac[Source] = "saving"
        BY <2>19, RpBootFailsDoes, PlacesAre
        DEF InRecovery, Settled, Others, Same, SandboxInv, JobInv, Recoverable
    <2>20. ASSUME NEW r \in Sandbox, RpDone(r)
           PROVE  InRecovery(s)' => InRecovery(s) \/ evac[Source] = "saving"
        BY <2>20, RpDoneDoes
        DEF InRecovery, Settled, Others, Same, RecIs, Recoverable
    <2>21. CASE RpHealth
        BY <2>21, RpHealthDoes, PcsAre DEF InRecovery, Still, Ends, PassIs
    <2>22. CASE RpRelease
        BY <2>22, RpReleaseDoes, PcsAre DEF InRecovery, Still, Ends, PassIs
    <2>23. CASE RpTerminate
        BY <2>23, RpTerminateDoes, PcsAre DEF InRecovery, Ends, PassIs
    <2> QED
        BY <1>5, <2>1, <2>2, <2>3, <2>4, <2>5, <2>6, <2>7, <2>8, <2>9, <2>10,
           <2>11, <2>12, <2>13, <2>14, <2>15, <2>16, <2>17, <2>18, <2>19, <2>20,
           <2>21, <2>22, <2>23
        DEF RpStep
<1>6. CASE OperatorFault
    <2>1. CASE Crash
        BY <2>1, CrashDoes, PcsAre DEF InRecovery, Still, Ends, PassIs
    <2>2. CASE LeaseLost
        BY <2>2, LeaseLostDoes, PcsAre DEF InRecovery, Still, Ends, PassIs
    <2> QED
        BY <1>6, <2>1, <2>2 DEF OperatorFault
<1>7. CASE UNCHANGED vars
    BY <1>7 DEF vars, recoveryVars, InRecovery
<1> QED
    BY <1>1, <1>2, <1>3, <1>4, <1>5, <1>6, <1>7 DEF Next

-----------------------------------------------------------------------------
(* A volume that was taken over. *)

\* A volume of a Spot host that is not reclaimed stays there.
LEMMA SpotKeepsHome ==
    ASSUME TypeOK, VolumeInv, at[Home] \in Spot \ {Source}, [Next]_vars
    PROVE  at'[Home] = at[Home]
<1>1. HomeStep
    BY HomeSteps
<1>2. /\ pass.pc = "detach" => pass.src \in Standby
      /\ pass.pc = "discard" => pass.src \in Standby
    BY PassPlaces, PcsAre
<1>3. pass.pc # "detach"
    BY <1>2, PlacesAre DEF VolumeInv, HandoffPassInv
<1> QED
    BY <1>1, <1>2, <1>3, PlacesAre DEF HomeStep

\* A claim is never taken back.
LEMMA ClaimsGrow ==
    ASSUME TypeOK, ClaimInv, HostsGo, NEW n \in Standby, claim[n] # None,
           [Next]_vars
    PROVE  claim'[n] # None
<1>1. claim'[n] = claim[n] \/ RcClaim
    BY RegistrySteps, Listings
<1>2. CASE RcClaim
    <2>1. pass.src \in Spot
        BY <1>2, PassPlaces, PcsAre DEF RcClaim
    <2> QED
        BY <1>2, <2>1, PlacesAre DEF RcClaim, TypeOK, RecoveryTypeOK
<1> QED
    BY <1>1, <1>2

\* A sandbox that has a host goes where the claim is, or the volume.
LEMMA TakenStep ==
    ASSUME TypeOK, VolumeInv, ClaimInv, KeepInv, HostsGo,
           NEW s \in Sandbox, SandboxInv(s), TakenInv(s), [Next]_vars
    PROVE  TakenInv(s)'
<1>1. TargetStep(s)
    BY TargetSteps
<1>2. /\ pass.pc \in {"mark", "resume"} =>
            pass.tgt \in Standby /\ claim[pass.tgt] # None
      /\ pass.pc = "restore" =>
            /\ pass.tgt \in Spot \ {Source}
            /\ at[Home] = pass.tgt
    BY PlacesAre, HandingIs, TargetIs
    DEF ClaimInv, VolumeInv, MountedInv, RecoveryPassInv, HandoffPassInv
<1>3. rec'[s].tgt \in Standby => claim'[rec'[s].tgt] # None
    BY <1>1, <1>2, ClaimsGrow, PlacesAre DEF TargetStep, TakenInv
<1>4. rec'[s].tgt \in Spot => at'[Home] = rec'[s].tgt
    BY <1>1, <1>2, SpotKeepsHome, PlacesAre
    DEF TargetStep, TakenInv, SandboxInv, PlaceInv
<1>5. rec'[s].tgt # None => Home \in keep
    BY <1>1, <1>2, PlacesAre DEF TargetStep, TakenInv, KeepInv
<1>6. InRecovery(s)' => Home \in keep
    BY RecoveriesBegin DEF TakenInv, KeepInv
<1>7. keep \subseteq keep'
    BY KeepGrows
<1> QED
    BY <1>3, <1>4, <1>5, <1>6, <1>7 DEF TakenInv

\* While its host lives, the volume is not deleted: a handoff that finds no
\* sandbox is not on that host, which is the one that has the claim.
LEMMA TakenKept ==
    ASSUME TypeOK, VolumeInv, SpotInv, ClaimInv, KeepInv,
           NEW s \in Sandbox, SandboxInv(s), TakenInv(s), [Next]_vars,
           Up(rec[s].tgt), at'[Home] = "deleted"
    PROVE  at[Home] = "deleted"
<1>1. HomeStep
    BY HomeSteps
<1>2. rec[s].tgt \in Spot \cup Standby /\ Home \in keep
    BY RecordPlaces, PlacesAre DEF Up, TakenInv
<1>3. CASE pass.pc \in {"empty", "discard"}
    <2>1. pass.src \in Standby
        BY <1>3, PassPlaces, PcsAre
    <2>2. rec[s].tgt # pass.src
        BY <1>3 DEF SandboxInv, ViewInv
    <2>3. rec[s].tgt \notin Standby
        BY <1>3, <2>2, PcsAre DEF ClaimInv, Claimed, TakenInv
    <2>4. at[Home] \in Spot
        BY <1>2, <2>3 DEF TakenInv
    <2> QED
        BY <1>1, <1>2, <1>3, <2>1, <2>4, PlacesAre DEF HomeStep
<1>4. CASE pass.pc \notin {"empty", "discard"}
    BY <1>1, <1>2, <1>4, PlacesAre DEF HomeStep
<1> QED
    BY <1>3, <1>4

\* What is kept of the volume, of the claims and of every sandbox.
KeptInv ==
    /\ SpotInv /\ ClaimInv /\ KeepInv
    /\ \A s \in Sandbox : TakenInv(s)

\* At first nothing is claimed and nothing recovered.
LEMMA KeptInit ==
    ASSUME RecoveryInit
    PROVE  KeptInv
<1>1. /\ \A n \in Standby : claim[n] = None
      /\ host = [n \in Node |-> IF n \in Late THEN "absent" ELSE "up"]
      /\ at[Home] = Home
      /\ evac[Source] = "calm"
    BY PlacesAre DEF RecoveryInit, StateVolumeInit
<1>2. \A n \in Node : hb[n].listed => n \notin Late
    BY DEF RecoveryInit
<1>3. pass.pc = "idle"
    BY IdleIs DEF RecoveryInit
<1>4. SpotInv
    BY <1>1, PlacesAre, StateVolumeAssumption DEF SpotInv, Up
<1>5. ClaimInv
    BY <1>1, <1>2, <1>3, PlacesAre, PcsAre DEF ClaimInv, Claimed, Up
<1>6. KeepInv
    BY <1>1, <1>3, PlacesAre DEF KeepInv
<1>7. ASSUME NEW s \in Sandbox
      PROVE  TakenInv(s)
    <2>1. rec[s] = [NoRecord EXCEPT !.state = vm[Source][s], !.node = Source]
        BY DEF RecoveryInit
    <2>2. rec[s].tgt = None /\ rec[s].state = vm[Source][s] /\ ck[s] = "none"
        BY <2>1, NoRecordIs DEF NoRecord, RecoveryInit
    <2>3. vm[Source][s] \in {"suspended", "running"}
        <3>1. PICK asleep \in SUBSET Asked :
                 vm = [n \in Node |-> [q \in Sandbox |->
                         IF n # Source THEN "none"
                         ELSE IF q \in asleep THEN "suspended" ELSE "running"]]
            BY DEF RecoveryInit, StateVolumeInit
        <3> QED
            BY <3>1, PlacesAre
    <2> QED
        BY <1>3, <2>2, <2>3, PlacesAre, PcsAre
        DEF TakenInv, InRecovery, Recoverable
<1> QED
    BY <1>4, <1>5, <1>6, <1>7 DEF KeptInv

\* Every step keeps it.
LEMMA KeptStep ==
    ASSUME TypeOK, GuestsInv, KeptInv, [Next]_vars
    PROVE  KeptInv'
<1>1. VolumeInv /\ HostsGo
    BY HostsOnlyGo DEF GuestsInv
<1>2. SpotInv' /\ ClaimInv' /\ KeepInv'
    BY <1>1, SpotStep, ClaimStep, KeepStep, SavingSteps, DetachSteps
    DEF KeptInv, SavingStep, DetachStep
<1>3. ASSUME NEW s \in Sandbox
      PROVE  TakenInv(s)'
    BY <1>1, TakenStep DEF GuestsInv, KeptInv
<1> QED
    BY <1>2, <1>3 DEF KeptInv

\* Recoveries, handoffs and faults keep to one claimed live standby, which the
\* volume survives: claim_recovery_host and _repatriate_host_locked.
THEOREM ClaimsStay == Spec => []KeptInv
<1>1. RecoveryInit => KeptInv
    BY KeptInit
<1>2. TypeOK /\ GuestsInv /\ KeptInv /\ [Next]_vars => KeptInv'
    BY KeptStep
<1> QED
    BY <1>1, <1>2, SpotTypeCorrect, GuestsStayTrue, PTL DEF Spec

\* The volume is not deleted while a sandbox that was recovered, or handed back,
\* has a host that lives (_repatriate_host_locked deletes volumes).
THEOREM RecoveredAreKept == Spec => KeepsRecovered
<1>1. TypeOK /\ GuestsInv /\ KeptInv /\ [Next]_vars =>
         [\A s \in Sandbox :
             Up(rec[s].tgt) /\ at'[Home] = "deleted"
                 => at[Home] = "deleted"]_vars
    BY TakenKept DEF GuestsInv, KeptInv
<1> QED
    BY <1>1, SpotTypeCorrect, GuestsStayTrue, ClaimsStay, PTL
    DEF Spec, KeepsRecovered

-----------------------------------------------------------------------------
(* What a guest would be resumed from. *)

\* The snapshot on the volume has everything, or a client deleted it.
Whole(s) == snap[s] \in {"current", "gone"}

\* Nobody runs it, and what it would start from has everything.
Asleep(s) ==
    /\ \A n \in Node : vm[n][s] # "running"
    /\ Whole(s)
    /\ Ghost(s) => snap[s] = "gone" \/ s3[s] = "current"

\* An agent has an entry for it only on a live host that has the volume, and
\* on another Spot host only after its return.
EntryInv(s) ==
    \A n \in Node : vm[n][s] # "none" =>
        /\ Up(n) /\ (n \in Standby => claim[n] # None)
        /\ mnt[n] = Home \/ Ghost(s)
        /\ Ghost(s) => n = rec[s].node
        /\ n \in Spot \ {Source} =>
              /\ rec[s].state \notin Recoverable
              /\ pass.pc \in RecoveryPc => s \notin pass.view

\* Records and workers name hosts that have a claim; a checkpoint is due only
\* while the first host lives.
PlacedInv(s) ==
    /\ rec[s].node \in Standby => claim[rec[s].node] # None
    /\ work[s].at \in Standby => claim[work[s].at] # None
    /\ ck[s] \notin {"none", "ended"} => Up(Source)

\* A deleted ghost has no entry; a suspended entry has its snapshot.
LeftInv(s) ==
    /\ work[s].kind = "delete" /\ work[s].res = "ok" /\ Ghost(s)
          => vm[rec[s].node][s] = "none"
    /\ \A n \in Node : vm[n][s] = "suspended" => Whole(s)

\* What a recovery starts has everything, or runs already where the record says.
FreshInv(s) ==
    InRecovery(s) =>
        \/ Whole(s)
        \/ \E n \in Standby :
              /\ vm[n][s] = "running"
              /\ rec[s].state \in Recoverable => rec[s].tgt = n

\* A record that says suspended is true, and so will one be that a worker is
\* about to write; nobody is about to resume anything else.
AsleepInv(s) ==
    /\ Working(s) => rec[s].state # "suspended"
    /\ rec[s].state = "suspended" => Asleep(s)
    /\ work[s].kind = "suspend" /\ work[s].res = "ok"
          /\ rec[s].state = "suspending" => Asleep(s)
    /\ work[s].kind = "resume" /\ work[s].res = "none" /\ Up(work[s].at)
          => Asleep(s)

\* What a handoff noted as suspended still is, until it is back.
NotedInv(s) ==
    rec[s].orig = "suspended" =>
        /\ rec[s].tgt # None
        /\ rec[s].tgt \in Standby =>
              /\ Asleep(s) /\ ~Working(s)
              /\ rec[s].state \notin Active \cup Recoverable
              /\ pass.pc \in RecoveryPc => s \notin pass.view

\* What a handoff saved has everything until it runs on the Spot host, and it
\* saves everything that ran before it moves the volume.
SavedInv(s) ==
    /\ rec[s].saved => rec[s].orig = "running" /\ rec[s].tgt # None
    /\ rec[s].saved /\ rec[s].tgt \in Standby =>
          Whole(s) \/ \E q \in Spot \ {Source} : vm[q][s] = "running"
    /\ pass.pc \in Handing /\ s \in pass.view /\ rec[s].tgt = pass.src
          /\ rec[s].orig = "running" => rec[s].saved

\* All that is about the copies of one sandbox.
CopyInv(s) ==
    /\ EntryInv(s) /\ PlacedInv(s) /\ LeftInv(s) /\ FreshInv(s)
    /\ AsleepInv(s) /\ NotedInv(s) /\ SavedInv(s)

-----------------------------------------------------------------------------
(* Where a sandbox is not. *)

\* Only one agent has an entry.
LEMMA OneEntry ==
    ASSUME MountedInv, NEW s \in Sandbox, EntryInv(s),
           NEW m \in Node, NEW n \in Node, vm[m][s] # "none", vm[n][s] # "none"
    PROVE  m = n
<1>1. CASE Ghost(s)
    BY <1>1 DEF EntryInv
<1>2. CASE ~Ghost(s)
    BY <1>2 DEF EntryInv, MountedInv
<1> QED
    BY <1>1, <1>2

\* While the first host lives, it is there.
LEMMA SourceOnly ==
    ASSUME MountedInv, NEW s \in Sandbox, PlaceInv(s), EntryInv(s), Up(Source)
    PROVE  /\ ~Ghost(s)
           /\ \A n \in Node \ {Source} : vm[n][s] = "none"
<1>1. ~Ghost(s)
    BY PlacesAre DEF Ghost, PlaceInv
<1> QED
    BY <1>1 DEF EntryInv, MountedInv

\* A sandbox that is still to be checkpointed.
LEMMA StillDue ==
    ASSUME MountedInv, NEW s \in Sandbox, SandboxInv(s), CopyInv(s),
           ck[s] \notin {"none", "ended"}
    PROVE  /\ Up(Source) /\ ~Ghost(s)
           /\ \A n \in Node \ {Source} : vm[n][s] = "none"
           /\ rec[s].tgt = None /\ rec[s].state \notin Recoverable
           /\ pass.pc # "idle" => s \notin pass.view
           /\ rec[s].orig # "suspended" /\ ~rec[s].saved
<1>1. Up(Source) /\ EntryInv(s) /\ PlaceInv(s)
    BY DEF CopyInv, PlacedInv, SandboxInv
<1>2. rec[s].tgt = None /\ rec[s].state \notin Recoverable
    BY DEF SandboxInv, EndedInv
<1>3. pass.pc # "idle" => s \notin pass.view
    BY DEF SandboxInv, ViewInv
<1>4. rec[s].orig # "suspended" /\ ~rec[s].saved
    BY <1>2 DEF CopyInv, NotedInv, SavedInv
<1> QED
    BY <1>1, <1>2, <1>3, <1>4, SourceOnly

\* One that a recovery has.
LEMMA Taken ==
    ASSUME NEW s \in Sandbox, SandboxInv(s), InRecovery(s)
    PROVE  /\ ~Ghost(s) /\ rec[s].state # "suspended"
           /\ Working(s) => work[s].at = Source
           /\ vm[Source][s] # "running"
           /\ ~(work[s].kind = "resume" /\ work[s].res = "none")
           /\ ~(work[s].kind = "suspend" /\ work[s].res = "ok")
<1>1. Parked(s)
    BY DEF SandboxInv, ParkedInv
<1>2. ~Ghost(s)
    BY <1>1, PlacesAre DEF Parked, Ghost
<1> QED
    BY <1>1, <1>2 DEF Parked, Gone, Working

\* One that the pass recovers.
LEMMA InView ==
    ASSUME TypeOK, NEW s \in Sandbox, SandboxInv(s), TruthInv(s), CopyInv(s),
           pass.pc \in RecoveryPc, s \in pass.view
    PROVE  /\ rec[s].orig # "suspended" /\ ~rec[s].saved
           /\ ck[s] = "ended"
           /\ \A n \in Spot \ {Source} : vm[n][s] = "none"
<1>1. pass.pc # "idle" /\ pass.pc \notin RepatriationPc
    BY PcsAre
<1>2. ck[s] = "ended"
    BY <1>1 DEF SandboxInv, ViewInv
<1>3. rec[s].orig # "running"
    BY DEF TruthInv, OrigInv
<1>4. ~rec[s].saved
    BY <1>3 DEF CopyInv, SavedInv
<1>5. rec[s].orig # "suspended"
    <2>1. CASE rec[s].tgt \in Spot
        BY <2>1 DEF TruthInv, WayInv
    <2>2. CASE rec[s].tgt \in Standby
        BY <2>2 DEF CopyInv, NotedInv
    <2>3. CASE rec[s].tgt = None
        BY <2>3 DEF CopyInv, NotedInv
    <2> QED
        BY <2>1, <2>2, <2>3, RecordPlaces, PlacesAre
<1>6. \A n \in Spot \ {Source} : vm[n][s] = "none"
    BY PlacesAre DEF CopyInv, EntryInv
<1> QED
    BY <1>2, <1>4, <1>5, <1>6

-----------------------------------------------------------------------------
(* A step that leaves a sandbox, its copies and its notes alone. *)

\* Hosts and claims go on.
Steady ==
    /\ MountedInv /\ SpotJoined /\ HostsGo /\ ClaimInv
    /\ \A q \in Spot \ {Source} : Up(q)'
    /\ \A n \in Standby : claim[n] # None => claim'[n] # None

\* An entry stays, with its host and mount, or goes; a guest goes only with its
\* host.
Calm(s) ==
    /\ rec'[s] = rec[s] /\ work'[s] = work[s]
    /\ snap'[s] = snap[s] /\ s3'[s] = s3[s]
    /\ \A n \in Node :
          \/ /\ vm'[n][s] = vm[n][s]
             /\ vm[n][s] # "none" /\ Up(n) => Up(n)'
             /\ vm[n][s] # "none" /\ mnt[n] = Home => mnt'[n] = Home
          \/ /\ vm'[n][s] = "none"
             /\ vm[n][s] = "running" =>
                   ~Up(n)' /\ (n \in Standby => ~InRecovery(s)' \/ Whole(s))
    /\ ck'[s] \notin {"none", "ended"} => Up(Source)'

\* The pass takes on nothing but recoverable records and what a handoff saved.
Onward(s) ==
    /\ pass'.pc \in RecoveryPc /\ s \in pass'.view =>
          \/ pass.pc \in RecoveryPc /\ s \in pass.view
          \/ rec[s].state \in Recoverable
    /\ InRecovery(s)' => InRecovery(s)
    /\ pass'.pc \in Handing /\ s \in pass'.view /\ rec[s].tgt = pass'.src
          /\ rec[s].orig = "running" =>
          \/ rec[s].saved
          \/ pass.pc \in Handing /\ s \in pass.view /\ rec[s].tgt = pass.src

\* Hosts that are named do not join any more.
LEMMA NoneJoins ==
    ASSUME Steady, NEW n \in Place, n \in Standby => claim[n] # None, Up(n)'
    PROVE  Up(n)
<1>1. n \in Node
    BY PlacesAre DEF Up
<1>2. host[n] \in {"up", "gone"}
    BY <1>1, PlacesAre DEF Steady, SpotJoined, Joined, ClaimInv
<1> QED
    BY <1>1, <1>2, PlacesAre DEF Steady, HostsGo, Up

LEMMA CalmCopies ==
    ASSUME TypeOK, Steady, NEW s \in Sandbox, CopyInv(s), Calm(s), Onward(s)
    PROVE  CopyInv(s)'
<1>0. /\ rec'[s] = rec[s] /\ work'[s] = work[s]
      /\ Whole(s)' <=> Whole(s)
      /\ Ghost(s)' <=> Ghost(s)
      /\ Asleep(s) => Asleep(s)'
      /\ Working(s)' <=> Working(s)
    BY DEF Calm, Whole, Ghost, Asleep, Working
<1>1. EntryInv(s)'
    <2> SUFFICES ASSUME NEW n \in Node, vm'[n][s] # "none"
                 PROVE  /\ Up(n)' /\ (n \in Standby => claim'[n] # None)
                        /\ mnt'[n] = Home \/ Ghost(s)'
                        /\ Ghost(s)' => n = rec'[s].node
                        /\ n \in Spot \ {Source} =>
                              /\ rec'[s].state \notin Recoverable
                              /\ pass'.pc \in RecoveryPc => s \notin pass'.view
        BY DEF EntryInv
    <2>1. /\ vm[n][s] # "none"
          /\ Up(n) => Up(n)'
          /\ mnt[n] = Home => mnt'[n] = Home
        BY DEF Calm
    <2>2. /\ Up(n) /\ (n \in Standby => claim[n] # None)
          /\ mnt[n] = Home \/ Ghost(s)
          /\ Ghost(s) => n = rec[s].node
          /\ n \in Spot \ {Source} =>
                /\ rec[s].state \notin Recoverable
                /\ pass.pc \in RecoveryPc => s \notin pass.view
        BY <2>1 DEF CopyInv, EntryInv
    <2>3. n \in Standby => claim'[n] # None
        BY <2>2 DEF Steady
    <2> QED
        BY <1>0, <2>1, <2>2, <2>3 DEF Onward
<1>2. PlacedInv(s)'
    BY <1>0 DEF CopyInv, PlacedInv, Steady, Calm
<1>3. LeftInv(s)'
    <2>1. \A n \in Node : vm'[n][s] \in {vm[n][s], "none"}
        BY DEF Calm
    <2>2. Ghost(s) => rec[s].node \in Node
        BY PlacesAre DEF Ghost
    <2> QED
        BY <1>0, <2>1, <2>2 DEF CopyInv, LeftInv
<1>4. FreshInv(s)'
    <2> SUFFICES ASSUME InRecovery(s)', ~Whole(s)
                 PROVE  \E n \in Standby :
                           /\ vm'[n][s] = "running"
                           /\ rec'[s].state \in Recoverable => rec'[s].tgt = n
        BY <1>0 DEF FreshInv
    <2>1. InRecovery(s)
        BY DEF Onward
    <2>2. PICK n \in Standby :
             /\ vm[n][s] = "running"
             /\ rec[s].state \in Recoverable => rec[s].tgt = n
        BY <2>1 DEF CopyInv, FreshInv
    <2>3. vm'[n][s] = "running"
        BY <2>2, PlacesAre DEF Calm
    <2> QED
        BY <1>0, <2>2, <2>3
<1>5. AsleepInv(s)'
    <2>1. ASSUME NEW n \in Place, n = work[s].at, Up(n)'
          PROVE  Up(n)
        BY <2>1, NoneJoins DEF CopyInv, PlacedInv
    <2>2. work[s].at # None /\ host'[work[s].at] = "up" => Up(work[s].at)
        BY <2>1, RecordPlaces DEF Up
    <2> QED
        BY <1>0, <2>2 DEF CopyInv, AsleepInv, Up
<1>6. NotedInv(s)'
    BY <1>0, PlacesAre DEF CopyInv, NotedInv, Onward
<1>7. SavedInv(s)'
    <2>1. ASSUME NEW q \in Spot \ {Source}, vm[q][s] = "running"
          PROVE  vm'[q][s] = "running"
        BY <2>1, PlacesAre DEF Calm, Steady, Up
    <2>2. rec'[s].saved => rec'[s].orig = "running" /\ rec'[s].tgt # None
        BY <1>0 DEF CopyInv, SavedInv
    <2>3. rec'[s].saved /\ rec'[s].tgt \in Standby =>
             Whole(s)' \/ \E q \in Spot \ {Source} : vm'[q][s] = "running"
        BY <1>0, <2>1 DEF CopyInv, SavedInv
    <2>4. pass'.pc \in Handing /\ s \in pass'.view /\ rec'[s].tgt = pass'.src
             /\ rec'[s].orig = "running" => rec'[s].saved
        BY <1>0 DEF CopyInv, SavedInv, Onward
    <2> QED
        BY <2>2, <2>3, <2>4 DEF SavedInv
<1> QED
    BY <1>1, <1>2, <1>3, <1>4, <1>5, <1>6, <1>7 DEF CopyInv

-----------------------------------------------------------------------------
(* Steps on one sandbox. *)

\* The copies of a sandbox stay.
SameCopies(s) == snap'[s] = snap[s] /\ s3'[s] = s3[s]

\* The others are left alone.
LEMMA OthersCopies ==
    ASSUME TypeOK, Steady, NEW s \in Sandbox, Settled, Others(s),
           NEW r \in Sandbox \ {s}, CopyInv(r), SameCopies(r)
    PROVE  CopyInv(r)'
<1>1. Same(r) /\ UNCHANGED <<host, mnt, pass>>
    BY DEF Others, Settled
<1>2. Calm(r)
    BY <1>1 DEF Calm, Same, SameCopies, Up, CopyInv, PlacedInv
<1>3. Onward(r)
    BY <1>1 DEF Onward, Same, InRecovery
<1> QED
    BY <1>2, <1>3, CalmCopies

\* The pass, or a worker, does something else with it.
LEMMA NothingCopied ==
    ASSUME TypeOK, Steady, NEW s \in Sandbox, CopyInv(s), Settled,
           rec'[s] = rec[s], work'[s] = work[s], ck'[s] = ck[s],
           \A n \in Node : vm'[n][s] = vm[n][s], SameCopies(s),
           pass.pc \notin RecoveryPc
    PROVE  CopyInv(s)'
<1>1. UNCHANGED <<host, mnt, pass>>
    BY DEF Settled
<1>2. Calm(s)
    BY <1>1 DEF Calm, SameCopies, Up, CopyInv, PlacedInv
<1>3. Onward(s)
    BY <1>1 DEF Onward, InRecovery
<1> QED
    BY <1>2, <1>3, CalmCopies

\* The agent's evacuation begins with it, or gives it up.
LEMMA DueCopies ==
    ASSUME VolumeInv, NEW s \in Sandbox, SandboxInv(s), CopyInv(s),
           UNCHANGED <<host, mnt, claim, pass, vm, work>>, SameCopies(s),
           ck[s] \in {"listed", "open"}, ck'[s] \in {"open", "ended"},
           NEW state \in {"checkpointing", "recovery_failed"},
           JournalIs(s, state, Source)
    PROVE  CopyInv(s)'
<1>1. /\ Up(Source) /\ ~Ghost(s)
      /\ \A n \in Node \ {Source} : vm[n][s] = "none"
      /\ rec[s].tgt = None /\ rec[s].state \notin Recoverable
      /\ pass.pc # "idle" => s \notin pass.view
      /\ rec[s].orig # "suspended" /\ ~rec[s].saved
    BY StillDue DEF VolumeInv
<1>2. /\ rec'[s].tgt = None /\ rec'[s].node = rec[s].node
      /\ rec'[s].orig = rec[s].orig /\ ~rec'[s].saved
      /\ rec'[s].state \in {rec[s].state, state}
      /\ rec'[s].state \notin Recoverable
    BY <1>1 DEF JournalIs, Recoverable
<1>3. /\ ~Ghost(s)'
      /\ Whole(s)' <=> Whole(s)
      /\ Asleep(s) => Asleep(s)'
    BY <1>1, <1>2 DEF Ghost, Whole, Asleep, SameCopies
<1>4. EntryInv(s)' /\ PlacedInv(s)'
    BY <1>1, <1>2, <1>3, PlacesAre DEF CopyInv, EntryInv, PlacedInv, Up
<1>5. LeftInv(s)' /\ FreshInv(s)'
    BY <1>1, <1>2, <1>3, PcsAre DEF CopyInv, LeftInv, FreshInv, InRecovery
<1>6. AsleepInv(s)'
    BY <1>2, <1>3 DEF CopyInv, AsleepInv, Working, Up
<1>7. NotedInv(s)' /\ SavedInv(s)'
    BY <1>1, <1>2, PcsAre, HandingIs DEF CopyInv, NotedInv, SavedInv
<1> QED
    BY <1>4, <1>5, <1>6, <1>7 DEF CopyInv

LEMMA CkStartCopies ==
    ASSUME TypeOK, VolumeInv, NEW n \in Spot, NEW s \in Sandbox, SandboxInv(s),
           CopyInv(s), CkStart(n, s)
    PROVE  CopyInv(s)' /\ \A r \in Sandbox \ {s} : SameCopies(r)
<1>1. UNCHANGED <<snap, s3>>
    BY DEF CkStart, agents
<1> QED
    BY <1>1, CkStartDoes, DueCopies DEF Settled, SameCopies

LEMMA CkFailCopies ==
    ASSUME TypeOK, VolumeInv, NEW n \in Spot, NEW s \in Sandbox, SandboxInv(s),
           CopyInv(s), CkFail(n, s)
    PROVE  CopyInv(s)' /\ \A r \in Sandbox \ {s} : SameCopies(r)
<1>1. UNCHANGED <<snap, s3>>
    BY DEF CkFail, agents
<1> QED
    BY <1>1, CkFailDoes, DueCopies DEF Settled, SameCopies

\* A suspend writes the one snapshot, and the copy in S3 if it is to.
LEMMA SuspendCopies ==
    ASSUME TypeOK, NEW n, NEW s \in Sandbox, NEW upload \in BOOLEAN,
           Suspend(n, s, upload)
    PROVE  /\ snap'[s] = "current"
           /\ s3'[s] = IF upload THEN "current" ELSE s3[s]
           /\ \A r \in Sandbox \ {s} : SameCopies(r)
    BY DEF Suspend, SameCopies, TypeOK, RecoveryTypeOK, StateVolumeTypeOK

LEMMA CkWriteCopies ==
    ASSUME TypeOK, VolumeInv, NEW n \in Spot, NEW s \in Sandbox, SandboxInv(s),
           CopyInv(s), CkWrite(n, s)
    PROVE  CopyInv(s)' /\ \A r \in Sandbox \ {s} : SameCopies(r)
<1>1. /\ UNCHANGED <<host, mnt, claim, pass, rec, work, job>> /\ Up(Source)
      /\ ck[s] = "open" /\ ck'[s] = "written" /\ vm[Source][s] = "running"
      /\ \A m \in Node :
             vm'[m][s] = IF m = Source THEN "suspended" ELSE vm[m][s]
    BY CkWriteDoes DEF Settled, VmIs
<1>2. snap'[s] = "current" /\ \A r \in Sandbox \ {s} : SameCopies(r)
    BY SuspendCopies DEF CkWrite
<1>3. /\ ~Ghost(s) /\ \A m \in Node \ {Source} : vm[m][s] = "none"
      /\ pass.pc # "idle" => s \notin pass.view
      /\ rec[s].orig # "suspended" /\ ~rec[s].saved
    BY <1>1, StillDue DEF VolumeInv
<1>4. ~Ghost(s)' /\ Whole(s)' /\ Asleep(s)'
    BY <1>1, <1>2, <1>3 DEF Ghost, Whole, Asleep
<1>5. EntryInv(s)' /\ PlacedInv(s)'
    BY <1>1, <1>3, <1>4, PlacesAre DEF CopyInv, EntryInv, PlacedInv, Up
<1>6. LeftInv(s)' /\ FreshInv(s)' /\ AsleepInv(s)'
    BY <1>1, <1>4 DEF CopyInv, LeftInv, FreshInv, AsleepInv, Working
<1>7. NotedInv(s)' /\ SavedInv(s)'
    BY <1>1, <1>3, PcsAre, HandingIs DEF CopyInv, NotedInv, SavedInv
<1> QED
    BY <1>2, <1>5, <1>6, <1>7 DEF CopyInv

LEMMA CkDoneCopies ==
    ASSUME TypeOK, VolumeInv, NEW n \in Spot, NEW s \in Sandbox, SandboxInv(s),
           CopyInv(s), CkDone(n, s)
    PROVE  CopyInv(s)' /\ \A r \in Sandbox \ {s} : SameCopies(r)
<1>0. UNCHANGED <<snap, s3>>
    BY DEF CkDone, agents
<1>1. /\ UNCHANGED <<host, mnt, claim, pass, vm, work, job>>
      /\ ck[s] = "written" /\ ck'[s] = "ended"
      /\ rec'[s].state \in {rec[s].state, "checkpointed"}
      /\ rec'[s].tgt = rec[s].tgt /\ rec'[s].node = rec[s].node
      /\ rec'[s].orig = rec[s].orig /\ rec'[s].saved = rec[s].saved
    BY CkDoneDoes DEF Settled, JournalIs
<1>2. /\ Up(Source) /\ ~Ghost(s)
      /\ \A m \in Node \ {Source} : vm[m][s] = "none"
      /\ pass.pc # "idle" => s \notin pass.view
      /\ rec[s].orig # "suspended" /\ ~rec[s].saved
    BY <1>1, StillDue DEF VolumeInv
<1>3. Whole(s)
    BY <1>1, <1>2, PlacesAre DEF CopyInv, FreshInv, InRecovery
<1>4. /\ ~Ghost(s)' /\ Whole(s)'
      /\ Asleep(s) => Asleep(s)'
    BY <1>0, <1>1, <1>2, <1>3 DEF Ghost, Whole, Asleep
<1>5. EntryInv(s)' /\ PlacedInv(s)'
    BY <1>1, <1>2, <1>4, PlacesAre DEF CopyInv, EntryInv, PlacedInv, Up
<1>6. LeftInv(s)' /\ FreshInv(s)'
    BY <1>1, <1>4 DEF LeftInv, FreshInv
<1>7. AsleepInv(s)'
    BY <1>1, <1>4 DEF CopyInv, AsleepInv, Working, Up
<1>8. NotedInv(s)' /\ SavedInv(s)'
    BY <1>1, <1>2, PcsAre, HandingIs DEF CopyInv, NotedInv, SavedInv
<1> QED
    BY <1>0, <1>5, <1>6, <1>7, <1>8 DEF CopyInv, SameCopies

LEMMA WorkStartCopies ==
    ASSUME TypeOK, NEW s \in Sandbox, SandboxInv(s), TakenInv(s), CopyInv(s),
           NEW k \in {"suspend", "resume", "delete"}, WorkStart(s, k)
    PROVE  CopyInv(s)' /\ \A r \in Sandbox \ {s} : SameCopies(r)
<1>0. UNCHANGED <<snap, s3>>
    BY DEF WorkStart, agents
<1>1. /\ UNCHANGED <<host, mnt, claim, pass, vm, ck, job>>
      /\ MayStart(k, rec[s].state)
      /\ work'[s].kind = k /\ work'[s].res = "none"
      /\ work'[s].at = IF k = "resume" THEN ResumeNode(rec[s]) ELSE rec[s].node
      /\ rec'[s].state = Marked(k)
      /\ rec'[s].tgt = rec[s].tgt /\ rec'[s].node = rec[s].node
      /\ rec'[s].orig = rec[s].orig /\ rec'[s].saved = rec[s].saved
    BY WorkStartDoes DEF Settled, RecIs
<1>2. /\ rec'[s].state \in {"suspending", "resuming", "destroying"}
      /\ rec'[s].state \notin Recoverable
      /\ k = "resume" => rec[s].state = "suspended"
      /\ k = "suspend" => rec[s].state = "running"
      /\ k = "delete" => rec'[s].state = "destroying"
    BY <1>1 DEF Marked, MayStart, Recoverable
<1>3. /\ Ghost(s)' <=> Ghost(s)
      /\ Whole(s)' <=> Whole(s)
      /\ Asleep(s) => Asleep(s)'
    BY <1>0, <1>1 DEF Ghost, Whole, Asleep
<1>4. EntryInv(s)'
    BY <1>1, <1>2, <1>3 DEF CopyInv, EntryInv, Up
<1>5. PlacedInv(s)'
    BY <1>1 DEF CopyInv, PlacedInv, TakenInv, ResumeNode, Up
<1>6. LeftInv(s)'
    BY <1>1, <1>3 DEF CopyInv, LeftInv
<1>7. FreshInv(s)'
    BY <1>1, <1>2, <1>3 DEF CopyInv, FreshInv, InRecovery
<1>8. AsleepInv(s)'
    <2>1. k = "resume" => Asleep(s)'
        BY <1>2, <1>3 DEF CopyInv, AsleepInv
    <2> QED
        BY <1>1, <1>2, <2>1 DEF AsleepInv
<1>9. NotedInv(s)'
    BY <1>1, <1>2, <1>3, HandingIs DEF CopyInv, NotedInv, Working
<1>10. SavedInv(s)'
    BY <1>1, <1>3 DEF CopyInv, SavedInv
<1> QED
    BY <1>0, <1>4, <1>5, <1>6, <1>7, <1>8, <1>9, <1>10 DEF CopyInv, SameCopies

\* The agent's answer to a worker.
LEMMA SuspendAnswered ==
    ASSUME TypeOK, MountedInv, NEW s \in Sandbox, CopyInv(s),
           UNCHANGED <<host, mnt, claim, pass, rec, ck, job>>,
           NEW n \in Node, vm[n][s] = "running", VmIs(n, s, "suspended"),
           snap'[s] = "current", s3'[s] = "current",
           work[s].kind = "suspend", work'[s].kind = "suspend",
           work'[s].at = work[s].at
    PROVE  CopyInv(s)'
<1>1. \A m \in Node : vm'[m][s] = IF m = n THEN "suspended" ELSE vm[m][s]
    BY DEF VmIs
<1>2. \A m \in Node \ {n} : vm[m][s] = "none"
    BY OneEntry DEF CopyInv
<1>3. Whole(s)' /\ Asleep(s)'
    BY <1>1, <1>2 DEF Whole, Asleep
<1>4. EntryInv(s)'
    BY <1>1 DEF CopyInv, EntryInv, Up, Ghost
<1>5. PlacedInv(s)' /\ LeftInv(s)' /\ FreshInv(s)'
    BY <1>3 DEF CopyInv, PlacedInv, LeftInv, FreshInv, Up
<1>6. AsleepInv(s)' /\ NotedInv(s)' /\ SavedInv(s)'
    BY <1>3 DEF CopyInv, AsleepInv, NotedInv, SavedInv, Working
<1> QED
    BY <1>4, <1>5, <1>6 DEF CopyInv

LEMMA ResumeAnswered ==
    ASSUME TypeOK, NEW s \in Sandbox, SandboxInv(s), TruthInv(s), CopyInv(s),
           SandboxInv(s)',
           UNCHANGED <<host, mnt, claim, pass, rec, ck, job>>, SameCopies(s),
           NEW n \in Node, Up(n), VmIs(n, s, "running"),
           n = work[s].at, work[s].kind = "resume", work[s].res = "none",
           work'[s].kind = "resume", work'[s].at = work[s].at,
           work'[s].res = "ok"
    PROVE  CopyInv(s)'
<1>1. \A m \in Node : vm'[m][s] = IF m = n THEN "running" ELSE vm[m][s]
    BY DEF VmIs
<1>2. /\ Asleep(s) /\ Whole(s) /\ Whole(s)' /\ ~InRecovery(s)
      /\ Ghost(s)' <=> Ghost(s)
    BY Taken DEF CopyInv, AsleepInv, Asleep, Whole, SameCopies, Ghost
<1>3. EntryInv(s)'
    <2>1. mnt'[n] = Home \/ Ghost(s)'
        BY <1>1 DEF SandboxInv, GuestInv
    <2>2. Ghost(s) => n = rec[s].node
        BY DEF SandboxInv, GhostInv
    <2>3. n \in Standby => claim[n] # None
        BY DEF CopyInv, PlacedInv
    <2>4. n \in Spot \ {Source} =>
             /\ rec[s].state \notin Recoverable
             /\ pass.pc \in RecoveryPc => s \notin pass.view
        BY <1>2, RecordPlaces, PlacesAre
        DEF InRecovery, TruthInv, WayInv, SandboxInv, PlaceInv
    <2> QED
        BY <1>1, <1>2, <2>1, <2>2, <2>3, <2>4 DEF CopyInv, EntryInv, Up
<1>4. PlacedInv(s)' /\ LeftInv(s)' /\ FreshInv(s)'
    BY <1>1, <1>2 DEF CopyInv, PlacedInv, LeftInv, FreshInv, InRecovery, Up
<1>5. AsleepInv(s)' /\ NotedInv(s)' /\ SavedInv(s)'
    BY <1>2 DEF CopyInv, AsleepInv, NotedInv, SavedInv, Working
<1> QED
    BY <1>3, <1>4, <1>5 DEF CopyInv

LEMMA DeleteAnswered ==
    ASSUME TypeOK, NEW s \in Sandbox, SandboxInv(s), CopyInv(s),
           UNCHANGED <<host, mnt, claim, pass, rec, ck, job>>,
           NEW n \in Node, VmIs(n, s, "none"), s3'[s] = s3[s],
           snap'[s] = IF mnt[n] = Home THEN "gone" ELSE snap[s],
           n = work[s].at, work[s].kind = "delete", work'[s].kind = "delete",
           work'[s].at = work[s].at
    PROVE  CopyInv(s)'
<1>1. \A m \in Node : vm'[m][s] = IF m = n THEN "none" ELSE vm[m][s]
    BY DEF VmIs
<1>2. /\ Whole(s) => Whole(s)'
      /\ mnt[n] = Home => Whole(s)'
      /\ Ghost(s)' <=> Ghost(s)
    BY DEF Whole, Ghost
<1>3. Asleep(s) => Asleep(s)'
    BY <1>1, <1>2 DEF Asleep
<1>4. EntryInv(s)' /\ PlacedInv(s)'
    BY <1>1, <1>2 DEF CopyInv, EntryInv, PlacedInv, Up
<1>5. LeftInv(s)'
    <2>1. Ghost(s) => n = rec[s].node
        BY DEF SandboxInv, GhostInv
    <2> QED
        BY <1>1, <1>2, <2>1 DEF CopyInv, LeftInv
<1>6. FreshInv(s)'
    <2> SUFFICES ASSUME InRecovery(s), ~Whole(s)'
                 PROVE  \E m \in Standby :
                           /\ vm'[m][s] = "running"
                           /\ rec[s].state \in Recoverable => rec[s].tgt = m
        BY DEF FreshInv, InRecovery
    <2>1. PICK m \in Standby :
             /\ vm[m][s] = "running"
             /\ rec[s].state \in Recoverable => rec[s].tgt = m
        BY <1>2 DEF CopyInv, FreshInv
    <2>2. mnt[m] = Home
        BY <2>1, Taken, PlacesAre DEF CopyInv, EntryInv
    <2> QED
        BY <1>1, <1>2, <2>1, <2>2, PlacesAre
<1>7. AsleepInv(s)' /\ NotedInv(s)'
    BY <1>3 DEF CopyInv, AsleepInv, NotedInv, Working
<1>8. SavedInv(s)'
    <2>1. ASSUME NEW q \in Spot \ {Source}, vm[q][s] = "running", rec[s].tgt # None
          PROVE  Whole(s)' \/ vm'[q][s] = "running"
        BY <1>1, <1>2, <2>1, PlacesAre DEF CopyInv, EntryInv, Ghost
    <2> QED
        BY <1>2, <2>1 DEF CopyInv, SavedInv
<1> QED
    BY <1>4, <1>5, <1>6, <1>7, <1>8 DEF CopyInv

LEMMA ErrorAnswered ==
    ASSUME NEW s \in Sandbox, CopyInv(s),
           UNCHANGED <<host, mnt, claim, pass, rec, ck, job, vm>>,
           SameCopies(s), work'[s].kind = work[s].kind,
           work'[s].at = work[s].at, work'[s].res = "error"
    PROVE  CopyInv(s)'
<1>1. /\ Whole(s)' <=> Whole(s)
      /\ Asleep(s) => Asleep(s)'
    BY DEF Whole, Asleep, SameCopies, Ghost
<1>2. EntryInv(s)' /\ PlacedInv(s)' /\ LeftInv(s)'
    BY <1>1 DEF CopyInv, EntryInv, PlacedInv, LeftInv, Up, Ghost
<1>3. FreshInv(s)' /\ AsleepInv(s)'
    BY <1>1 DEF CopyInv, FreshInv, InRecovery, AsleepInv, Working
<1>4. NotedInv(s)' /\ SavedInv(s)'
    BY <1>1 DEF CopyInv, NotedInv, SavedInv, Working
<1> QED
    BY <1>2, <1>3, <1>4 DEF CopyInv

LEMMA WorkCallCopies ==
    ASSUME TypeOK, VolumeInv, NEW s \in Sandbox, SandboxInv(s), TruthInv(s),
           CopyInv(s), SandboxInv(s)', WorkCall(s)
    PROVE  CopyInv(s)' /\ \A r \in Sandbox \ {s} : SameCopies(r)
<1> DEFINE n == work[s].at
<1>1. /\ UNCHANGED <<host, mnt, claim, pass, rec, ck, job>>
      /\ work[s].kind # "none" /\ work[s].res = "none"
      /\ work'[s].kind = work[s].kind /\ work'[s].at = work[s].at
    BY WorkCallDoes DEF Settled
<1>2. CASE /\ work'[s].res = "ok" /\ work[s].kind = "suspend"
           /\ n \in Node /\ Suspends(n, s) /\ Suspend(n, s, TRUE)
    <2>1. VmIs(n, s, "suspended")
        BY <1>2, VmSet DEF Suspend, TypeOK
    <2>2. /\ snap'[s] = "current" /\ s3'[s] = "current"
          /\ \A r \in Sandbox \ {s} : SameCopies(r)
        BY <1>2, SuspendCopies
    <2> QED
        BY <1>1, <1>2, <2>1, <2>2, SuspendAnswered DEF Suspends, VolumeInv
<1>3. CASE /\ work'[s].res = "ok" /\ work[s].kind = "resume"
           /\ n \in Node /\ Up(n) /\ Resume(n, s) /\ UNCHANGED <<snap, s3>>
    <2>1. VmIs(n, s, "running")
        BY <1>3, VmSet DEF Resume, TypeOK
    <2> QED
        BY <1>1, <1>3, <2>1, ResumeAnswered DEF SameCopies
<1>4. CASE /\ work'[s].res = "ok" /\ work[s].kind = "delete"
           /\ n \in Node /\ Destroy(n, s) /\ UNCHANGED s3
    <2>1. VmIs(n, s, "none")
        BY <1>4, VmSet DEF Destroy, TypeOK
    <2>2. /\ snap'[s] = IF mnt[n] = Home THEN "gone" ELSE snap[s]
          /\ \A r \in Sandbox \ {s} : SameCopies(r)
        BY <1>4
        DEF Destroy, SameCopies, TypeOK, RecoveryTypeOK, StateVolumeTypeOK
    <2> QED
        BY <1>1, <1>4, <2>1, <2>2, DeleteAnswered
<1>5. CASE work'[s].res = "error" /\ UNCHANGED <<vm, snap, s3>>
    BY <1>1, <1>5, ErrorAnswered DEF SameCopies
<1>6. n \in Place /\ (Up(n) => n \in Node)
    BY RecordPlaces, PlacesAre DEF Up
<1>7. \/ /\ work' = [work EXCEPT ![s].res = "ok"]
         /\ \/ /\ work[s].kind = "suspend"
               /\ Suspends(n, s) /\ Suspend(n, s, TRUE)
            \/ /\ work[s].kind = "resume" /\ Up(n) /\ Resume(n, s)
               /\ UNCHANGED <<snap, s3>>
            \/ /\ work[s].kind = "delete" /\ Up(n) /\ Destroy(n, s)
               /\ UNCHANGED s3
      \/ /\ work' = [work EXCEPT ![s].res = "error"]
         /\ UNCHANGED <<vm, snap, s3>>
    BY DEF WorkCall, Resumes
<1>8. ASSUME NEW x, work' = [work EXCEPT ![s].res = x]
      PROVE  work'[s].res = x
    BY <1>8 DEF TypeOK, RecoveryTypeOK, Operation
<1> HIDE DEF n
<1> QED
    BY <1>2, <1>3, <1>4, <1>5, <1>6, <1>7, <1>8 DEF Suspends

\* Copies age only while somebody runs what they are of.
LEMMA PublishCopies ==
    ASSUME TypeOK, NEW s \in Sandbox, Publish(s)
    PROVE  /\ SameCopies(s) \/ \E n \in Node : vm[n][s] = "running"
           /\ \A r \in Sandbox \ {s} : SameCopies(r)
    BY DEF Publish, SameCopies, TypeOK, RecoveryTypeOK, StateVolumeTypeOK

\* A worker is done.
LEMMA ResumeDone ==
    ASSUME TypeOK, MountedInv, NEW s \in Sandbox, SandboxInv(s), TruthInv(s),
           CopyInv(s), UNCHANGED <<host, mnt, claim, pass, vm, ck, job>>,
           SameCopies(s) \/ \E n \in Node : vm[n][s] = "running",
           work[s].kind = "resume", work[s].res = "ok", work'[s].kind = "none",
           work'[s].at = None, RecIs(s, "running", rec[s].tgt, work[s].at)
    PROVE  CopyInv(s)'
<1>1. /\ rec'[s].state = "running" /\ rec'[s].tgt = rec[s].tgt
      /\ rec'[s].node = work[s].at
      /\ rec'[s].orig = rec[s].orig /\ rec'[s].saved = rec[s].saved
      /\ rec'[s].state \notin Recoverable
      /\ Working(s) /\ ~Working(s)'
    BY DEF RecIs, Recoverable, Working
<1>2. rec[s].tgt = None => rec'[s].node = rec[s].node
    BY <1>1 DEF SandboxInv, PlaceInv
<1>3. Ghost(s)' <=> Ghost(s)
    BY <1>1, <1>2 DEF Ghost
<1>4. EntryInv(s)'
    BY <1>1, <1>2, <1>3 DEF CopyInv, EntryInv, Ghost, Up
<1>5. PlacedInv(s)'
    BY <1>1, PlacesAre DEF CopyInv, PlacedInv, Up
<1>6. LeftInv(s)'
    <2>1. ASSUME NEW n \in Node, vm[n][s] = "suspended" PROVE SameCopies(s)
        BY <2>1, OneEntry DEF CopyInv
    <2> QED
        BY <2>1 DEF CopyInv, LeftInv, SameCopies, Whole
<1>7. FreshInv(s)'
    <2> SUFFICES ASSUME InRecovery(s), ~SameCopies(s)
                 PROVE  \E n \in Standby : vm[n][s] = "running"
        BY <1>1
        DEF CopyInv, FreshInv, InRecovery, Whole, SameCopies, Recoverable
    <2>1. PICK n \in Node : vm[n][s] = "running"
        OBVIOUS
    <2>2. CASE n \in Standby
        BY <2>1, <2>2
    <2>3. CASE n \in Spot \ {Source}
        <3>1. ck[s] # "written" /\ rec[s].state \notin Recoverable
            BY <2>1, <2>3, StillDue, PlacesAre DEF CopyInv, EntryInv
        <3>2. ~(pass.pc \in RecoveryPc /\ s \in pass.view)
            BY <2>1, <2>3, PlacesAre DEF CopyInv, EntryInv
        <3> QED
            BY <3>1, <3>2 DEF InRecovery
    <2>4. n # Source
        BY <2>1, Taken
    <2> QED
        BY <2>2, <2>3, <2>4, PlacesAre
<1>8. AsleepInv(s)' /\ NotedInv(s)'
    BY <1>1 DEF CopyInv, AsleepInv, NotedInv
<1>9. SavedInv(s)'
    BY <1>1 DEF CopyInv, SavedInv, TruthInv, OrigInv
<1> QED
    BY <1>4, <1>5, <1>6, <1>7, <1>8, <1>9 DEF CopyInv

LEMMA DeleteDone ==
    ASSUME TypeOK, NEW s \in Sandbox, SandboxInv(s), CopyInv(s),
           UNCHANGED <<host, mnt, claim, pass, vm, ck, job>>, SameCopies(s),
           work[s].kind = "delete", work[s].res = "ok", work'[s].kind = "none",
           work'[s].at = None, rec'[s] = NoRecord
    PROVE  CopyInv(s)'
<1>1. /\ rec'[s].state = "none" /\ rec'[s].tgt = None /\ rec'[s].node = None
      /\ rec'[s].orig = "none" /\ ~rec'[s].saved
      /\ rec'[s].state \notin Recoverable
      /\ ~Working(s)' /\ ~Ghost(s)'
      /\ Whole(s)' <=> Whole(s)
    BY NoRecordIs, PlacesAre
    DEF Recoverable, Working, Ghost, Whole, SameCopies
<1>2. EntryInv(s)'
    <2>1. ASSUME NEW n \in Node, vm[n][s] # "none" PROVE mnt[n] = Home
        BY <2>1 DEF CopyInv, EntryInv, LeftInv
    <2> QED
        BY <1>1, <2>1 DEF CopyInv, EntryInv, Up
<1>3. PlacedInv(s)' /\ LeftInv(s)' /\ FreshInv(s)'
    BY <1>1, PlacesAre
    DEF CopyInv, PlacedInv, LeftInv, FreshInv, InRecovery, Up
<1>4. AsleepInv(s)' /\ NotedInv(s)' /\ SavedInv(s)'
    BY <1>1 DEF AsleepInv, NotedInv, SavedInv
<1> QED
    BY <1>2, <1>3, <1>4 DEF CopyInv

LEMMA StateWritten ==
    ASSUME TypeOK, NEW s \in Sandbox, SandboxInv(s), CopyInv(s),
           UNCHANGED <<host, mnt, claim, pass, vm, ck, job>>, SameCopies(s),
           NEW state \in {rec[s].state, "suspended", "running", "failed"},
           state = "suspended" =>
               /\ rec[s].state \in {"suspending", "suspended"}
               /\ work[s].kind = "suspend" /\ work[s].res = "ok",
           state = "running" => work[s].kind = "suspend",
           rec'[s].state = state, rec'[s].saved = rec[s].saved,
           rec'[s].tgt = rec[s].tgt, rec'[s].node = rec[s].node,
           rec'[s].orig = rec[s].orig,
           work'[s].kind = "none", work'[s].at = None
    PROVE  CopyInv(s)'
<1>1. /\ rec'[s].state \in Recoverable => rec[s].state \in Recoverable
      /\ ~Working(s)'
    BY DEF Recoverable, Working
<1>2. /\ Ghost(s)' <=> Ghost(s)
      /\ Whole(s)' <=> Whole(s)
      /\ Asleep(s) => Asleep(s)'
    BY DEF Ghost, Whole, Asleep, SameCopies
<1>3. EntryInv(s)' /\ PlacedInv(s)' /\ LeftInv(s)'
    BY <1>1, <1>2, PlacesAre DEF CopyInv, EntryInv, PlacedInv, LeftInv, Up
<1>4. FreshInv(s)'
    BY <1>1, <1>2 DEF CopyInv, FreshInv, InRecovery
<1>5. AsleepInv(s)'
    BY <1>1, <1>2 DEF CopyInv, AsleepInv
<1>6. NotedInv(s)'
    BY <1>1, <1>2, HandingIs DEF CopyInv, NotedInv, Working, Recoverable
<1>7. SavedInv(s)'
    BY <1>2 DEF CopyInv, SavedInv
<1> QED
    BY <1>3, <1>4, <1>5, <1>6, <1>7 DEF CopyInv

LEMMA WorkDoneCopies ==
    ASSUME TypeOK, VolumeInv, NEW s \in Sandbox, SandboxInv(s), TruthInv(s),
           CopyInv(s), WorkDone(s)
    PROVE  CopyInv(s)' /\ \A r \in Sandbox \ {s} : SameCopies(r)
<1>1. /\ UNCHANGED <<host, mnt, claim, pass, vm, ck, job>>
      /\ work[s].kind # "none"
      /\ work'[s].kind = "none" /\ work'[s].at = None
    BY WorkDoneDoes DEF Settled, SandboxInv, LeaseInv
<1>2. CASE work[s].kind = "resume" /\ work[s].res = "ok"
    <2>1. RecIs(s, "running", rec[s].tgt, work[s].at)
        BY <1>2, WorkDoneDoes
    <2>2. Publish(s)
        BY <1>2 DEF WorkDone
    <2> QED
        BY <1>1, <1>2, <2>1, <2>2, PublishCopies, ResumeDone DEF VolumeInv
<1>3. CASE ~(work[s].kind = "resume" /\ work[s].res = "ok")
    <2>1. UNCHANGED <<snap, s3>>
        BY <1>3 DEF WorkDone
    <2>2. \A r \in Sandbox : SameCopies(r)
        BY <2>1 DEF SameCopies
    <2>3. CASE rec'[s] = NoRecord /\ work[s].kind = "delete" /\ work[s].res = "ok"
        BY <1>1, <2>2, <2>3, DeleteDone
    <2>4. CASE /\ work[s].kind = "suspend" /\ work[s].res = "ok"
               /\ \/ rec' = rec
                  \/ /\ rec[s].state = "suspending"
                     /\ RecIs(s, "suspended", rec[s].tgt, rec[s].node)
        <3>1. CASE rec' = rec
            BY <1>1, <2>2, <2>4, <3>1, StateWritten
        <3>2. CASE /\ rec[s].state = "suspending"
                   /\ RecIs(s, "suspended", rec[s].tgt, rec[s].node)
            BY <1>1, <2>2, <2>4, <3>2, StateWritten DEF RecIs
        <3> QED
            BY <2>4, <3>1, <3>2
    <2>5. CASE /\ work[s].kind = "suspend" /\ work[s].res = "error"
               /\ RecIs(s, "running", rec[s].tgt, rec[s].node)
        BY <1>1, <2>2, <2>5, StateWritten DEF RecIs
    <2>6. CASE /\ work[s].kind # "suspend" /\ work[s].res = "error"
               /\ RecIs(s, "failed", rec[s].tgt, rec[s].node)
        BY <1>1, <2>2, <2>6, StateWritten DEF RecIs
    <2> QED
        BY <1>3, <2>3, <2>4, <2>5, <2>6, WorkDoneDoes
<1> QED
    BY <1>2, <1>3

\* A standby that has an entry is the one the recovery works with.
LEMMA OneStandby ==
    ASSUME ClaimInv, NEW s \in Sandbox, EntryInv(s), NEW n \in Standby,
           vm[n][s] # "none", pass.pc \in {"mark", "attach", "mount", "resume"}
    PROVE  n = pass.tgt
<1>1. Up(n) /\ claim[n] # None
    BY PlacesAre DEF EntryInv
<1> QED
    BY <1>1 DEF ClaimInv, Claimed

\* A recovery binds it to its standby.
LEMMA BoundCopies ==
    ASSUME TypeOK, VolumeInv, ClaimInv, NEW s \in Sandbox, SandboxInv(s),
           TruthInv(s), CopyInv(s), InRecovery(s), s \in pass.view,
           pass.pc \in {"mark", "resume"}, pass'.pc \in {"attach", "resume"},
           UNCHANGED <<host, mnt, claim, vm, work, ck>>, SameCopies(s),
           NEW state \in {"attaching", "recovering"},
           RecIs(s, state, pass.tgt, rec[s].node)
    PROVE  CopyInv(s)'
<1>1. /\ rec'[s].state = state /\ rec'[s].tgt = pass.tgt
      /\ rec'[s].node = rec[s].node /\ rec'[s].orig = rec[s].orig
      /\ rec'[s].saved = rec[s].saved
      /\ pass.tgt \in Standby /\ pass.tgt # None
    BY PlacesAre DEF RecIs, VolumeInv, RecoveryPassInv
<1>2. /\ ~Ghost(s) /\ rec[s].orig # "suspended" /\ ~rec[s].saved
      /\ \A n \in Spot \ {Source} : vm[n][s] = "none"
      /\ ~(work[s].kind = "resume" /\ work[s].res = "none")
      /\ ck[s] = "ended"
    BY InView, Taken, PcsAre
<1>3. /\ ~Ghost(s)'
      /\ Whole(s)' <=> Whole(s)
    BY <1>1 DEF Ghost, Whole, SameCopies
<1>4. EntryInv(s)' /\ PlacedInv(s)' /\ LeftInv(s)'
    BY <1>1, <1>2, <1>3, PlacesAre
    DEF CopyInv, EntryInv, PlacedInv, LeftInv, Up
<1>5. FreshInv(s)'
    BY <1>1, <1>3, OneStandby, PlacesAre DEF CopyInv, FreshInv
<1>6. AsleepInv(s)'
    BY <1>1, <1>2 DEF AsleepInv
<1>7. NotedInv(s)' /\ SavedInv(s)'
    BY <1>1, <1>2, HandingIs DEF NotedInv, SavedInv
<1> QED
    BY <1>4, <1>5, <1>6, <1>7 DEF CopyInv

LEMMA RcStartCopies ==
    ASSUME TypeOK, VolumeInv, ClaimInv, NEW s \in Sandbox, SandboxInv(s),
           TruthInv(s), CopyInv(s), RcStart(s)
    PROVE  CopyInv(s)' /\ \A r \in Sandbox \ {s} : SameCopies(r)
<1>0. UNCHANGED <<snap, s3>>
    BY DEF RcStart, agents
<1>1. /\ UNCHANGED <<host, mnt, claim, vm, work, ck, pass>>
      /\ pass.pc = "resume" /\ job[s] = "todo"
      /\ RecIs(s, "recovering", pass.tgt, rec[s].node)
    BY RcStartDoes DEF Settled
<1>2. s \in pass.view /\ InRecovery(s)
    BY <1>1, PcsAre DEF SandboxInv, JobInv, InRecovery
<1> QED
    BY <1>0, <1>1, <1>2, BoundCopies DEF SameCopies

\* A recovery starts it, on the standby.
LEMMA AskedIs ==
    ASSUME TypeOK, VolumeInv, NEW s \in Sandbox, SandboxInv(s), TruthInv(s),
           CopyInv(s), pass.pc = "resume", job[s] = "asked" \/ job[s] \in Node
    PROVE  /\ InRecovery(s) /\ s \in pass.view /\ ~Ghost(s)
           /\ rec[s].state # "suspended"
           /\ rec[s].orig # "suspended" /\ ~rec[s].saved /\ ck[s] = "ended"
           /\ \A n \in Spot \ {Source} : vm[n][s] = "none"
           /\ ~(work[s].kind = "resume" /\ work[s].res = "none")
           /\ ~(work[s].kind = "suspend" /\ work[s].res = "ok")
           /\ pass.tgt \in Standby /\ mnt[pass.tgt] = Home
<1>1. InRecovery(s) /\ s \in pass.view
    BY PcsAre, PlacesAre DEF SandboxInv, JobInv, InRecovery
<1> QED
    BY <1>1, InView, Taken, PcsAre DEF VolumeInv, RecoveryPassInv

LEMMA RcBootCopies ==
    ASSUME TypeOK, VolumeInv, ClaimInv, NEW s \in Sandbox, SandboxInv(s),
           TruthInv(s), CopyInv(s), RcBoot(s)
    PROVE  CopyInv(s)' /\ \A r \in Sandbox \ {s} : SameCopies(r)
<1>0. UNCHANGED <<snap, s3>>
    BY DEF RcBoot
<1>1. /\ UNCHANGED <<host, mnt, claim, work, ck, pass, rec>>
      /\ pass.pc = "resume" /\ job[s] = "asked"
      /\ rec[s].tgt \in Node /\ Up(rec[s].tgt)
      /\ \A n \in Node :
            vm'[n][s] = IF n = rec[s].tgt THEN "running" ELSE vm[n][s]
    BY RcBootDoes DEF Settled, VmIs
<1>2. rec[s].tgt = pass.tgt /\ claim[pass.tgt] # None
    BY <1>1, PlacesAre DEF SandboxInv, JobInv, ClaimInv
<1>3. /\ ~Ghost(s) /\ rec[s].state # "suspended"
      /\ rec[s].orig # "suspended" /\ ~rec[s].saved
      /\ ~(work[s].kind = "resume" /\ work[s].res = "none")
      /\ ~(work[s].kind = "suspend" /\ work[s].res = "ok")
      /\ pass.tgt \in Standby /\ mnt[pass.tgt] = Home
    BY <1>1, AskedIs
<1>4. /\ ~Ghost(s)'
      /\ Whole(s)' <=> Whole(s)
    BY <1>0, <1>1, <1>3 DEF Ghost, Whole
<1>5. EntryInv(s)' /\ PlacedInv(s)'
    BY <1>1, <1>2, <1>3, <1>4, PlacesAre DEF CopyInv, EntryInv, PlacedInv, Up
<1>6. LeftInv(s)' /\ FreshInv(s)'
    BY <1>1, <1>2, <1>3, <1>4, PlacesAre DEF CopyInv, LeftInv, FreshInv
<1>7. AsleepInv(s)'
    BY <1>1, <1>3 DEF AsleepInv
<1>8. NotedInv(s)' /\ SavedInv(s)'
    BY <1>1, <1>3, HandingIs DEF NotedInv, SavedInv
<1> QED
    BY <1>0, <1>5, <1>6, <1>7, <1>8 DEF CopyInv, SameCopies

LEMMA RcDoneCopies ==
    ASSUME TypeOK, VolumeInv, ClaimInv, NEW s \in Sandbox, SandboxInv(s),
           TruthInv(s), CopyInv(s), RcDone(s)
    PROVE  CopyInv(s)' /\ \A r \in Sandbox \ {s} : SameCopies(r)
<1>0. /\ SameCopies(s) \/ \E n \in Node : vm[n][s] = "running"
      /\ \A r \in Sandbox \ {s} : SameCopies(r)
    BY PublishCopies DEF RcDone
<1>1. /\ UNCHANGED <<host, mnt, claim, vm, work, ck, pass>>
      /\ pass.pc = "resume" /\ job[s] \in Node /\ job'[s] = "ended"
      /\ rec'[s].state = "running" /\ rec'[s].tgt = rec[s].tgt
      /\ rec'[s].node = job[s]
      /\ rec'[s].orig = rec[s].orig /\ rec'[s].saved = rec[s].saved
    BY RcDoneDoes DEF Settled, RecIs
<1>2. /\ job[s] = pass.tgt /\ claim[pass.tgt] # None
      /\ \/ rec[s].tgt = pass.tgt
         \/ rec[s].tgt = None /\ work[s].kind = "none"
    BY <1>1 DEF SandboxInv, JobInv, PlaceInv, ClaimInv
<1>3. /\ ~Ghost(s) /\ ck[s] = "ended"
      /\ rec[s].orig # "suspended" /\ ~rec[s].saved
      /\ \A n \in Spot \ {Source} : vm[n][s] = "none"
      /\ ~(work[s].kind = "resume" /\ work[s].res = "none")
      /\ pass.tgt \in Standby /\ mnt[pass.tgt] = Home
    BY <1>1, AskedIs
<1>4. \A n \in Node : vm[n][s] # "none" => mnt[n] = Home /\ n = pass.tgt
    BY <1>3, PlacesAre DEF CopyInv, EntryInv, VolumeInv, MountedInv
<1>5. EntryInv(s)'
    BY <1>1, <1>2, <1>3, <1>4 DEF CopyInv, EntryInv, Recoverable, Up
<1>6. PlacedInv(s)'
    BY <1>1, <1>2 DEF CopyInv, PlacedInv, Up
<1>7. LeftInv(s)'
    <2>1. ASSUME NEW n \in Node, vm[n][s] = "suspended" PROVE SameCopies(s)
        BY <1>0, <1>4, <2>1
    <2>2. Ghost(s)' => work[s].kind = "none"
        BY <1>1, <1>2, <1>3, PlacesAre DEF Ghost
    <2> QED
        BY <1>1, <2>1, <2>2 DEF CopyInv, LeftInv, SameCopies, Whole
<1>8. FreshInv(s)'
    BY <1>1, <1>3 DEF FreshInv, InRecovery, Recoverable
<1>9. AsleepInv(s)' /\ NotedInv(s)' /\ SavedInv(s)'
    BY <1>1, <1>3, HandingIs DEF AsleepInv, NotedInv, SavedInv
<1> QED
    BY <1>0, <1>5, <1>6, <1>7, <1>8, <1>9 DEF CopyInv

\* A recovery gives it up: before it began, or when it could not be started.
LEMMA GivenUpCopies ==
    ASSUME TypeOK, NEW s \in Sandbox, CopyInv(s),
           UNCHANGED <<host, mnt, claim, vm, work, ck>>, SameCopies(s),
           RecIs(s, "recovery_failed", rec[s].tgt, rec[s].node),
           pass'.pc \notin Handing,
           pass'.pc \in RecoveryPc =>
               /\ pass.pc \in RecoveryPc /\ pass'.view = pass.view
               /\ job'[s] \in {job[s], "ended"}
    PROVE  CopyInv(s)'
<1>1. /\ rec'[s].state = "recovery_failed" /\ rec'[s].tgt = rec[s].tgt
      /\ rec'[s].node = rec[s].node /\ rec'[s].orig = rec[s].orig
      /\ rec'[s].saved = rec[s].saved
      /\ rec'[s].state \notin Active \cup Recoverable
    BY HandingIs DEF RecIs, Recoverable
<1>2. /\ Ghost(s)' <=> Ghost(s)
      /\ Whole(s)' <=> Whole(s)
      /\ Asleep(s) => Asleep(s)'
      /\ InRecovery(s)' => InRecovery(s)
    BY <1>1 DEF Ghost, Whole, Asleep, SameCopies, InRecovery
<1>3. EntryInv(s)' /\ PlacedInv(s)' /\ LeftInv(s)'
    BY <1>1, <1>2 DEF CopyInv, EntryInv, PlacedInv, LeftInv, Up
<1>4. FreshInv(s)'
    BY <1>1, <1>2 DEF CopyInv, FreshInv
<1>5. AsleepInv(s)'
    BY <1>1, <1>2 DEF CopyInv, AsleepInv, Up
<1>6. NotedInv(s)' /\ SavedInv(s)'
    BY <1>1, <1>2 DEF CopyInv, NotedInv, SavedInv, Working
<1> QED
    BY <1>3, <1>4, <1>5, <1>6 DEF CopyInv

LEMMA RcFailCopies ==
    ASSUME TypeOK, NEW s \in Sandbox, CopyInv(s), RcFail(s)
    PROVE  CopyInv(s)' /\ \A r \in Sandbox \ {s} : SameCopies(r)
<1>0. UNCHANGED <<snap, s3>>
    BY DEF RcFail, agents
<1>1. /\ UNCHANGED <<host, mnt, claim, vm, work, ck, pass>>
      /\ pass.pc = "resume" /\ job'[s] = "ended"
      /\ RecIs(s, "recovery_failed", rec[s].tgt, rec[s].node)
    BY RcFailDoes DEF Settled
<1> QED
    BY <1>0, <1>1, GivenUpCopies, HandingIs DEF SameCopies

-----------------------------------------------------------------------------
(* Steps of a handoff on one sandbox. *)

\* One that the handoff still has to move.
LEMMA ToMove ==
    ASSUME TypeOK, NEW s \in Sandbox, SandboxInv(s),
           pass.pc \in RepatriationPc \ {"lease"}, s \in pass.view,
           job[s] # "ended"
    PROVE  /\ pass.src \in Standby /\ ~Ghost(s) /\ ~InRecovery(s)
           /\ ck[s] = "ended" /\ rec[s].state \notin Recoverable
           /\ rec[s].tgt = pass.src \/ (rec[s].tgt = None /\ rec[s].node = None)
<1>1. /\ pass.src \in Standby /\ pass.pc # "idle" /\ pass.pc \notin RecoveryPc
    BY PassPlaces, PcsAre
<1>2. /\ ck[s] = "ended" /\ rec[s].state \notin Recoverable
      /\ rec[s].tgt = pass.src \/ (rec[s].tgt = None /\ rec[s].node = None)
    BY <1>1 DEF SandboxInv, ViewInv
<1> QED
    BY <1>1, <1>2, PlacesAre DEF Ghost, InRecovery

\* The handoff checkpoints it.
LEMMA ToSave ==
    ASSUME TypeOK, NEW s \in Sandbox, SandboxInv(s), TruthInv(s),
           pass.pc = "checkpoint", s \in pass.view, rec[s].orig = "running"
    PROVE  /\ pass.src \in Standby /\ rec[s].tgt = pass.src
           /\ ~Ghost(s) /\ ~InRecovery(s)
           /\ rec[s].state \notin Active /\ ~Working(s)
<1>1. job[s] = "none" /\ pass.pc \in RepatriationPc \ {"lease"}
    BY NoJobs, PcsAre
<1>2. rec[s].tgt # None
    BY DEF TruthInv, OrigInv
<1>3. pass.src \in Standby /\ rec[s].tgt = pass.src
    BY <1>1, <1>2, ToMove
<1> QED
    BY <1>1, <1>3, ToMove DEF TruthInv, OrigInv

LEMMA RpSaveCopies ==
    ASSUME TypeOK, NEW s \in Sandbox, SandboxInv(s), TruthInv(s), CopyInv(s),
           RpSave(s)
    PROVE  CopyInv(s)' /\ \A r \in Sandbox \ {s} : SameCopies(r)
<1>0. snap'[s] = "current" /\ \A r \in Sandbox \ {s} : SameCopies(r)
    BY SuspendCopies DEF RpSave
<1>1. /\ UNCHANGED <<host, mnt, claim, pass, rec, work, ck, job>>
      /\ pass.pc = "checkpoint" /\ s \in pass.view /\ rec[s].orig = "running"
      /\ \A m \in Node :
            vm'[m][s] = IF m = pass.src THEN "suspended" ELSE vm[m][s]
      /\ vm[pass.src][s] = "running"
    BY RpSaveDoes DEF Settled, VmIs, RpSave, Suspends
<1>2. /\ ~Ghost(s) /\ rec[s].state \notin Active /\ ~Working(s)
      /\ ~Ghost(s)' /\ Whole(s)'
    BY <1>0, <1>1, ToSave DEF Ghost, Whole
<1>3. EntryInv(s)' /\ PlacedInv(s)'
    BY <1>1, <1>2 DEF CopyInv, EntryInv, PlacedInv, Up
<1>4. LeftInv(s)' /\ FreshInv(s)'
    BY <1>2 DEF LeftInv, FreshInv
<1>5. AsleepInv(s)' /\ NotedInv(s)'
    BY <1>1, <1>2, HandingIs DEF AsleepInv, NotedInv, Working
<1>6. SavedInv(s)'
    BY <1>1, <1>2, HandingIs DEF CopyInv, SavedInv
<1> QED
    BY <1>0, <1>3, <1>4, <1>5, <1>6 DEF CopyInv

LEMMA RpFlagCopies ==
    ASSUME TypeOK, NEW s \in Sandbox, SandboxInv(s), TruthInv(s), CopyInv(s),
           RpFlag(s)
    PROVE  CopyInv(s)' /\ \A r \in Sandbox \ {s} : SameCopies(r)
<1>0. UNCHANGED <<snap, s3>>
    BY DEF RpFlag, agents
<1>1. /\ UNCHANGED <<host, mnt, claim, pass, vm, work, ck, job>>
      /\ pass.pc = "checkpoint" /\ s \in pass.view /\ rec[s].orig = "running"
      /\ rec'[s].state = "repatriating" /\ rec'[s].tgt = rec[s].tgt
      /\ rec'[s].node = rec[s].node /\ rec'[s].orig = rec[s].orig
      /\ rec'[s].saved
      /\ vm[pass.src][s] = "suspended"
    BY RpFlagDoes DEF Settled, FlaggedIs, RpFlag
<1>2. /\ pass.src \in Standby /\ rec[s].tgt = pass.src
      /\ ~Ghost(s) /\ ~Working(s) /\ ~InRecovery(s)
    BY <1>1, ToSave
<1>3. Whole(s)
    BY <1>1, <1>2, PlacesAre DEF CopyInv, LeftInv
<1>4. ~Ghost(s)' /\ Whole(s)'
    BY <1>0, <1>1, <1>2, <1>3 DEF Ghost, Whole
<1>5. EntryInv(s)' /\ PlacedInv(s)'
    BY <1>1, <1>2, <1>4
    DEF CopyInv, EntryInv, PlacedInv, Up, Recoverable
<1>6. LeftInv(s)' /\ FreshInv(s)'
    BY <1>4 DEF LeftInv, FreshInv
<1>7. AsleepInv(s)' /\ NotedInv(s)'
    BY <1>1, <1>2 DEF AsleepInv, NotedInv, Working
<1>8. SavedInv(s)'
    BY <1>1, <1>2, <1>4, PlacesAre DEF SavedInv
<1> QED
    BY <1>0, <1>5, <1>6, <1>7, <1>8 DEF CopyInv, SameCopies

\* One that is back, or that the handoff brings back.
LEMMA ToRestore ==
    ASSUME TypeOK, VolumeInv, NEW s \in Sandbox, SandboxInv(s), CopyInv(s),
           pass.pc = "restore", job[s] # "ended", job[s] # "none"
    PROVE  /\ pass.tgt \in Spot \ {Source} /\ mnt[pass.tgt] = Home
           /\ s \in pass.view /\ ~Ghost(s) /\ ~Working(s)
           /\ ck[s] = "ended" /\ rec[s].state \notin Recoverable
           /\ rec[s].tgt = pass.src \/ rec[s].tgt = None
           /\ \A n \in Node : vm[n][s] # "none" => n = pass.tgt
<1>1. s \in pass.view /\ pass.pc \in RepatriationPc \ {"lease"}
      /\ pass.pc \in Handing
    BY PcsAre, HandingIs DEF SandboxInv, JobInv
<1>2. pass.tgt \in Spot \ {Source} /\ mnt[pass.tgt] = Home
    BY <1>1, TargetIs DEF VolumeInv, HandoffPassInv
<1>3. /\ ~Ghost(s) /\ ck[s] = "ended" /\ rec[s].state \notin Recoverable
      /\ rec[s].tgt = pass.src \/ (rec[s].tgt = None /\ rec[s].node = None)
    BY <1>1, ToMove
<1>4. ~Working(s)
    BY <1>1, <1>3 DEF SandboxInv, MarkedInv, PlaceInv
<1>5. \A n \in Node : vm[n][s] # "none" => n = pass.tgt
    BY <1>2, <1>3, PlacesAre DEF CopyInv, EntryInv, VolumeInv, MountedInv
<1> QED
    BY <1>1, <1>2, <1>3, <1>4, <1>5

LEMMA RpReturnCopies ==
    ASSUME TypeOK, VolumeInv, NEW s \in Sandbox, SandboxInv(s), CopyInv(s),
           RpReturn(s)
    PROVE  CopyInv(s)' /\ \A r \in Sandbox \ {s} : SameCopies(r)
<1>0. UNCHANGED <<snap, s3>>
    BY DEF RpReturn, agents
<1>1. /\ UNCHANGED <<host, mnt, claim, pass, vm, work, ck>>
      /\ pass.pc = "restore" /\ job[s] = "todo" /\ rec[s].orig # "running"
      /\ rec'[s].state = rec[s].orig /\ rec'[s].tgt = pass.tgt
      /\ rec'[s].node = pass.tgt /\ rec'[s].orig = rec[s].orig
      /\ rec'[s].saved = rec[s].saved
    BY RpReturnDoes DEF Settled, RecIs
<1>2. /\ pass.tgt \in Spot \ {Source} /\ mnt[pass.tgt] = Home
      /\ ~Ghost(s) /\ ~Working(s) /\ ck[s] = "ended"
      /\ rec[s].tgt = pass.src \/ rec[s].tgt = None
      /\ pass.src \in Standby
    BY <1>1, ToRestore, PassPlaces, PcsAre
<1>3. /\ rec[s].orig \notin Recoverable /\ ~rec[s].saved
      /\ rec[s].orig = "suspended" => Asleep(s)
    BY <1>1, <1>2
    DEF SandboxInv, EndedInv, CopyInv, SavedInv, NotedInv
<1>4. /\ ~Ghost(s)'
      /\ Whole(s)' <=> Whole(s)
      /\ Asleep(s) => Asleep(s)'
    BY <1>0, <1>1, <1>2, PlacesAre DEF Ghost, Whole, Asleep
<1>5. EntryInv(s)' /\ PlacedInv(s)'
    BY <1>1, <1>2, <1>3, <1>4, PcsAre, PlacesAre
    DEF CopyInv, EntryInv, PlacedInv, Up
<1>6. LeftInv(s)' /\ FreshInv(s)'
    BY <1>1, <1>2, <1>3, <1>4, PcsAre
    DEF CopyInv, LeftInv, FreshInv, InRecovery
<1>7. AsleepInv(s)'
    BY <1>1, <1>2, <1>3, <1>4 DEF CopyInv, AsleepInv, Working, Up
<1>8. NotedInv(s)' /\ SavedInv(s)'
    BY <1>1, <1>2, <1>3, PlacesAre DEF NotedInv, SavedInv
<1> QED
    BY <1>0, <1>5, <1>6, <1>7, <1>8 DEF CopyInv, SameCopies

LEMMA RpBootCopies ==
    ASSUME TypeOK, VolumeInv, NEW s \in Sandbox, SandboxInv(s), TruthInv(s),
           CopyInv(s), RpBoot(s)
    PROVE  CopyInv(s)' /\ \A r \in Sandbox \ {s} : SameCopies(r)
<1>0. UNCHANGED <<snap, s3>>
    BY DEF RpBoot
<1>1. /\ UNCHANGED <<host, mnt, claim, pass, rec, work, ck>>
      /\ pass.pc = "restore" /\ job[s] = "todo" /\ rec[s].orig = "running"
      /\ Up(pass.tgt)
      /\ \A n \in Node :
            vm'[n][s] = IF n = pass.tgt THEN "running" ELSE vm[n][s]
    BY RpBootDoes DEF Settled, VmIs
<1>2. /\ pass.tgt \in Spot \ {Source} /\ mnt[pass.tgt] = Home
      /\ ~Ghost(s) /\ ~Working(s) /\ ck[s] = "ended"
      /\ rec[s].state \notin Recoverable
      /\ rec[s].tgt = pass.src \/ rec[s].tgt = None
      /\ pass.src \in Standby
    BY <1>1, ToRestore, PassPlaces, PcsAre
<1>3. rec[s].state \notin Active
    BY <1>1, <1>2 DEF TruthInv, OrigInv
<1>4. /\ ~Ghost(s)'
      /\ Whole(s)' <=> Whole(s)
    BY <1>0, <1>1, <1>2 DEF Ghost, Whole
<1>5. EntryInv(s)' /\ PlacedInv(s)'
    BY <1>1, <1>2, <1>4, PcsAre, PlacesAre
    DEF CopyInv, EntryInv, PlacedInv, Up
<1>6. LeftInv(s)' /\ FreshInv(s)'
    BY <1>1, <1>2, <1>4, PcsAre, PlacesAre
    DEF CopyInv, LeftInv, FreshInv, InRecovery
<1>7. AsleepInv(s)' /\ NotedInv(s)'
    BY <1>1, <1>2, <1>3, HandingIs DEF AsleepInv, NotedInv, Working
<1>8. SavedInv(s)'
    BY <1>1, <1>2, <1>4, PlacesAre DEF CopyInv, SavedInv
<1> QED
    BY <1>0, <1>5, <1>6, <1>7, <1>8 DEF CopyInv, SameCopies

LEMMA RpDoneCopies ==
    ASSUME TypeOK, VolumeInv, NEW s \in Sandbox, SandboxInv(s), CopyInv(s),
           RpDone(s)
    PROVE  CopyInv(s)' /\ \A r \in Sandbox \ {s} : SameCopies(r)
<1>0. /\ SameCopies(s) \/ \E n \in Node : vm[n][s] = "running"
      /\ \A r \in Sandbox \ {s} : SameCopies(r)
    BY PublishCopies DEF RpDone
<1>1. /\ UNCHANGED <<host, mnt, claim, pass, vm, work, ck>>
      /\ pass.pc = "restore" /\ job[s] \in Node
      /\ rec'[s].state = "running" /\ rec'[s].tgt = pass.tgt
      /\ rec'[s].node = pass.tgt /\ rec'[s].orig = rec[s].orig
      /\ rec'[s].saved = rec[s].saved
    BY RpDoneDoes DEF Settled, RecIs
<1>2. /\ pass.tgt \in Spot \ {Source} /\ mnt[pass.tgt] = Home
      /\ ~Ghost(s) /\ ~Working(s) /\ ck[s] = "ended"
      /\ pass.src \in Standby
      /\ \A n \in Node : vm[n][s] # "none" => n = pass.tgt
    BY <1>1, ToRestore, PassPlaces, PcsAre, PlacesAre
<1>3. ~Ghost(s)' /\ rec'[s].state \notin Recoverable
    BY <1>1, <1>2, PlacesAre DEF Ghost, Recoverable
<1>4. EntryInv(s)' /\ PlacedInv(s)'
    BY <1>1, <1>2, <1>3, PcsAre, PlacesAre
    DEF CopyInv, EntryInv, PlacedInv, Up
<1>5. LeftInv(s)'
    <2>1. ASSUME NEW n \in Node, vm[n][s] = "suspended" PROVE SameCopies(s)
        BY <1>0, <1>2, <2>1
    <2> QED
        BY <1>1, <1>3, <2>1 DEF CopyInv, LeftInv, SameCopies, Whole
<1>6. FreshInv(s)'
    BY <1>1, <1>2, <1>3, PcsAre DEF FreshInv, InRecovery
<1>7. AsleepInv(s)' /\ NotedInv(s)'
    BY <1>1, <1>2, PlacesAre DEF AsleepInv, NotedInv, Working
<1>8. SavedInv(s)'
    BY <1>1, <1>2, PlacesAre DEF CopyInv, SavedInv
<1> QED
    BY <1>0, <1>4, <1>5, <1>6, <1>7, <1>8 DEF CopyInv

\* The handoff marks what it is going to move.
LEMMA MarkedCopies ==
    ASSUME TypeOK, VolumeInv, NEW s \in Sandbox, SandboxInv(s), CopyInv(s),
           RpMark, s \in pass.view
    PROVE  CopyInv(s)'
<1>0. UNCHANGED <<snap, s3, claim>>
    BY DEF RpMark, agents, registry
<1>1. /\ UNCHANGED <<host, mnt, vm, work, ck, job>>
      /\ pass.pc = "mark2" /\ pass'.pc = "checkpoint"
      /\ rec'[s].state = "repatriating" /\ rec'[s].tgt = rec[s].tgt
      /\ rec'[s].node = rec[s].node /\ rec'[s].saved = rec[s].saved
      /\ rec'[s].orig = IF rec[s].orig = "none" THEN rec[s].state
                        ELSE rec[s].orig
    BY RpMarkDoes DEF PassIs
<1>2. /\ pass.src \in Standby /\ ~Ghost(s) /\ ~InRecovery(s)
      /\ ck[s] = "ended"
      /\ rec[s].tgt = pass.src \/ (rec[s].tgt = None /\ rec[s].node = None)
    BY <1>1, NoJobs, ToMove, PcsAre
<1>3. /\ ~Ghost(s)'
      /\ Whole(s)' <=> Whole(s)
      /\ Asleep(s) => Asleep(s)'
      /\ Working(s)' <=> Working(s)
    BY <1>0, <1>1, <1>2 DEF Ghost, Whole, Asleep, Working
<1>4. /\ rec'[s].state \notin Active \cup Recoverable
      /\ pass'.pc \notin RecoveryPc /\ pass'.pc \notin Handing
    BY <1>1, PcsAre, HandingIs DEF Recoverable
<1>5. EntryInv(s)' /\ PlacedInv(s)'
    BY <1>0, <1>1, <1>2, <1>3, <1>4 DEF CopyInv, EntryInv, PlacedInv, Up
<1>6. LeftInv(s)' /\ FreshInv(s)'
    BY <1>1, <1>2, <1>3, <1>4
    DEF CopyInv, LeftInv, FreshInv, InRecovery
<1>7. AsleepInv(s)'
    BY <1>1, <1>3 DEF CopyInv, AsleepInv, Up
<1>8. NotedInv(s)'
    <2>1. CASE rec[s].orig = "suspended"
        BY <1>1, <1>3, <1>4, <2>1 DEF CopyInv, NotedInv
    <2>2. CASE rec[s].orig = "none" /\ rec[s].state = "suspended"
        <3>1. rec[s].tgt # None
            BY <1>2, <2>2, HandingIs, PlacesAre DEF SandboxInv, PlaceInv
        <3>2. Asleep(s)' /\ ~Working(s)'
            BY <1>3, <2>2 DEF CopyInv, AsleepInv
        <3> QED
            BY <1>1, <1>4, <3>1, <3>2 DEF NotedInv
    <2> QED
        BY <1>1, <2>1, <2>2 DEF NotedInv
<1>9. SavedInv(s)'
    BY <1>1, <1>3, <1>4 DEF CopyInv, SavedInv
<1> QED
    BY <1>5, <1>6, <1>7, <1>8, <1>9 DEF CopyInv

-----------------------------------------------------------------------------
(* Steps of the hosts and of a pass. *)

\* Neither it nor the pass does anything, and its host stays.
LEMMA LeftAlone ==
    ASSUME TypeOK, Steady, NEW s \in Sandbox, CopyInv(s), Same(s),
           SameCopies(s), UNCHANGED <<mnt, pass>>,
           \A n \in Node : vm[n][s] # "none" /\ Up(n) => Up(n)',
           Up(Source) => Up(Source)'
    PROVE  CopyInv(s)'
<1>1. Calm(s)
    BY DEF Calm, Same, SameCopies, CopyInv, PlacedInv
<1>2. Onward(s)
    BY DEF Onward, Same, InRecovery
<1> QED
    BY <1>1, <1>2, CalmCopies

\* The copies and the hosts stay, while the pass does something.
LEMMA StillCalm ==
    ASSUME NEW s \in Sandbox, CopyInv(s), UNCHANGED <<host, vm, work, ck>>,
           rec'[s] = rec[s], SameCopies(s),
           \A n \in Node : mnt[n] = Home => mnt'[n] = Home
    PROVE  Calm(s)
    BY DEF Calm, SameCopies, CopyInv, PlacedInv, Up

\* The pass ends, or goes on with what it has.
LEMMA EndsOnward ==
    ASSUME NEW s \in Sandbox, Ends, rec'[s] = rec[s], ck'[s] = ck[s]
    PROVE  Onward(s)
    BY PcsAre, HandingIs DEF Ends, Onward, InRecovery

LEMMA GoesOnward ==
    ASSUME NEW s \in Sandbox, rec'[s] = rec[s], ck'[s] = ck[s],
           pass'.pc \in RecoveryPc =>
               /\ pass.pc \in RecoveryPc /\ pass'.view = pass.view
               /\ job[s] = "ended" => job'[s] = "ended",
           pass'.pc \in Handing =>
               /\ pass.pc \in Handing /\ pass'.view = pass.view
               /\ pass'.src = pass.src
    PROVE  Onward(s)
    BY DEF Onward, InRecovery

\* The entries that an unmounted volume leaves are not running.
LEMMA UnmountLeaves ==
    ASSUME TypeOK, NEW n \in Node, Unmount(n), RunningOn(n) = {},
           NEW s \in Sandbox, NEW m \in Node
    PROVE  \/ /\ vm'[m][s] = vm[m][s]
              /\ vm[m][s] # "none" /\ mnt[m] = Home => mnt'[m] = Home
           \/ vm'[m][s] = "none" /\ vm[m][s] # "running"
<1>1. vm[n][s] \in {"none", "suspended"}
    BY DEF RunningOn, TypeOK, RecoveryTypeOK, StateVolumeTypeOK, Runtime
<1>2. mnt'[m] = IF m = n THEN None ELSE mnt[m]
    BY UnmountDoes
<1>3. m # n => vm'[m][s] = vm[m][s]
    BY DEF Unmount, TypeOK, RecoveryTypeOK, StateVolumeTypeOK
<1>4. vm'[n][s] = IF mnt[n] # None /\ vm[n][s] = "suspended" THEN "none"
                  ELSE vm[n][s]
    BY DEF Unmount, TypeOK, RecoveryTypeOK, StateVolumeTypeOK
<1> QED
    BY <1>1, <1>2, <1>3, <1>4, PlacesAre

LEMMA UnmountCalm ==
    ASSUME TypeOK, NEW s \in Sandbox, CopyInv(s), NEW n \in Node,
           UNCHANGED <<host, rec, work, ck>>, SameCopies(s),
           \/ UNCHANGED <<mnt, vm>>
           \/ Unmount(n) /\ RunningOn(n) = {}
    PROVE  Calm(s)
<1>1. CASE UNCHANGED <<mnt, vm>>
    BY <1>1, StillCalm
<1>2. CASE Unmount(n) /\ RunningOn(n) = {}
    <2>1. \A m \in Node :
             \/ /\ vm'[m][s] = vm[m][s]
                /\ vm[m][s] # "none" /\ mnt[m] = Home => mnt'[m] = Home
             \/ vm'[m][s] = "none" /\ vm[m][s] # "running"
        BY <1>2, UnmountLeaves
    <2> QED
        BY <2>1 DEF Calm, SameCopies, CopyInv, PlacedInv, Up
<1> QED
    BY <1>1, <1>2

-----------------------------------------------------------------------------
LEMMA HeartbeatCopies ==
    ASSUME TypeOK, VolumeInv, Steady, NEW s \in Sandbox, CopyInv(s),
           NEW n \in Node, Heartbeat(n) \/ HeartbeatExpire(n)
    PROVE  CopyInv(s)'
<1>1. SameCopies(s)
    BY DEF Heartbeat, HeartbeatExpire, agents, SameCopies
<1> QED
    BY <1>1, HeartbeatDoes, HeartbeatExpireDoes, LeftAlone DEF Kept, Up

LEMMA DeadlineCopies ==
    ASSUME TypeOK, VolumeInv, Steady, NEW s \in Sandbox, CopyInv(s),
           NEW n \in Spot, Deadline(n)
    PROVE  CopyInv(s)'
<1>1. SameCopies(s)
    BY DEF Deadline, agents, SameCopies
<1> QED
    BY <1>1, DeadlineDoes, LeftAlone DEF Kept, Up

LEMMA DetectCopies ==
    ASSUME TypeOK, VolumeInv, Steady, NEW s \in Sandbox, CopyInv(s),
           NEW n \in Spot, Detect(n)
    PROVE  CopyInv(s)'
<1>1. /\ UNCHANGED <<host, mnt, vm, rec, work, job, pass, snap, s3>>
      /\ Up(Source) /\ ck'[s] \in {"none", "listed"}
    BY DetectDoes DEF Detect, agents
<1>2. Calm(s)
    BY <1>1 DEF Calm, Up
<1>3. Onward(s)
    BY <1>1 DEF Onward, InRecovery
<1> QED
    BY <1>2, <1>3, CalmCopies

LEMMA PreserveCopies ==
    ASSUME TypeOK, VolumeInv, Steady, NEW s \in Sandbox, SandboxInv(s),
           CopyInv(s), NEW n \in Spot, Preserve(n)
    PROVE  CopyInv(s)'
<1>1. /\ UNCHANGED <<host, mnt, claim, vm, work, pass>> /\ SameCopies(s)
    BY PreserveDoes DEF Preserve, registry, agents, SameCopies
<1>2. CASE Same(s)
    BY <1>1, <1>2, LeftAlone DEF Up
<1>3. CASE /\ ck[s] = "listed" /\ ck'[s] = "ended"
           /\ JournalIs(s, "recovery_failed", Source)
    BY <1>1, <1>3, DueCopies
<1> QED
    BY <1>2, <1>3, PreserveDoes

LEMMA TerminateCopies ==
    ASSUME TypeOK, VolumeInv, Steady, NEW s \in Sandbox, CopyInv(s),
           NEW n \in Spot, Terminate(n)
    PROVE  CopyInv(s)'
<1>1. /\ UNCHANGED <<rec, work, job, pass, snap, s3>>
      /\ Up(Source) /\ ~Up(Source)'
      /\ ck'[s] = IF ck[s] = "none" THEN "none" ELSE "ended"
      /\ \A m \in Node :
            /\ mnt'[m] = IF m = Source THEN None ELSE mnt[m]
            /\ vm'[m][s] = IF m = Source THEN "none" ELSE vm[m][s]
    BY TerminateDoes DEF Terminate
<1>2. \A m \in Node \ {Source} : host'[m] = host[m]
    <2>1. n \in Node /\ End(n)
        BY PlacesAre DEF Terminate
    <2>2. \A m \in Node : host'[m] = IF m = n THEN "gone" ELSE host[m]
        BY <2>1, EndDoes DEF VolumeInv
    <2>3. n = Source
        BY <1>1, <2>2, PlacesAre DEF Up
    <2> QED
        BY <2>2, <2>3
<1>3. Calm(s)
    BY <1>1, <1>2, PlacesAre DEF Calm, Up
<1>4. Onward(s)
    BY <1>1 DEF Onward, InRecovery
<1> QED
    BY <1>3, <1>4, CalmCopies

LEMMA StandbyLostCopies ==
    ASSUME TypeOK, VolumeInv, Steady, NEW s \in Sandbox, CopyInv(s),
           NEW n \in Standby, StandbyLost(n)
    PROVE  CopyInv(s)'
<1>1. SameCopies(s) /\ vm[n][s] = "none"
    BY DEF StandbyLost, SameCopies, Resident
<1> QED
    BY <1>1, StandbyLostDoes, LeftAlone DEF Kept, Up

LEMMA StandbyJoinsCopies ==
    ASSUME TypeOK, VolumeInv, Steady, NEW s \in Sandbox, CopyInv(s),
           NEW n \in Standby, StandbyJoins(n)
    PROVE  CopyInv(s)'
<1>1. SameCopies(s)
    BY DEF StandbyJoins, agents, SameCopies
<1> QED
    BY <1>1, StandbyJoinsDoes, LeftAlone DEF Kept, Up

-----------------------------------------------------------------------------
LEMMA RcReadCopies ==
    ASSUME TypeOK, VolumeInv, Steady, NEW s \in Sandbox, CopyInv(s),
           NEW n \in Spot, RcRead(n)
    PROVE  CopyInv(s)'
<1>1. /\ Still /\ SameCopies(s)
      /\ pass'.pc = "lookup" /\ pass'.view = ViewOf(Source)
    BY RcReadDoes DEF RcRead, agents, SameCopies
<1>2. Calm(s)
    BY <1>1, StillCalm DEF Still
<1>3. Onward(s)
    BY <1>1, PcsAre, HandingIs DEF Still, Onward, InRecovery, ViewOf
<1> QED
    BY <1>2, <1>3, CalmCopies

LEMMA RcLookupCopies ==
    ASSUME TypeOK, VolumeInv, Steady, NEW s \in Sandbox, CopyInv(s), RcLookup
    PROVE  CopyInv(s)'
<1>1. /\ UNCHANGED <<host, mnt, claim, vm, work, ck>> /\ SameCopies(s)
      /\ pass.pc = "lookup"
      /\ \/ Ends
         \/ /\ pass'.pc \in {"mark", "claim"} /\ pass'.view = pass.view
            /\ UNCHANGED job
      /\ rec'[s] = rec[s] \/ RecIs(s, "recovery_failed", rec[s].tgt, rec[s].node)
    BY RcLookupDoes DEF RcLookup, registry, agents, SameCopies
<1>2. CASE rec'[s] = rec[s]
    <2>1. Calm(s)
        BY <1>1, <1>2, StillCalm
    <2>2. Onward(s)
        BY <1>1, <1>2, EndsOnward, GoesOnward, PcsAre, HandingIs
    <2> QED
        BY <2>1, <2>2, CalmCopies
<1>3. CASE RecIs(s, "recovery_failed", rec[s].tgt, rec[s].node)
    <2>1. /\ pass'.pc \notin Handing
          /\ pass'.pc \in RecoveryPc =>
                 /\ pass.pc \in RecoveryPc /\ pass'.view = pass.view
                 /\ job'[s] \in {job[s], "ended"}
        BY <1>1, PcsAre, HandingIs DEF Ends
    <2> QED
        BY <1>1, <1>3, <2>1, GivenUpCopies
<1> QED
    BY <1>1, <1>2, <1>3

LEMMA RcClaimCopies ==
    ASSUME TypeOK, VolumeInv, Steady, NEW s \in Sandbox, CopyInv(s), RcClaim
    PROVE  CopyInv(s)'
<1>1. SameCopies(s)
    BY DEF RcClaim, agents, SameCopies
<1>2. Calm(s)
    BY <1>1, RcClaimDoes, StillCalm DEF Still
<1>3. Onward(s)
    BY RcClaimDoes, EndsOnward, GoesOnward, PcsAre, HandingIs DEF Still
<1> QED
    BY <1>2, <1>3, CalmCopies

LEMMA RcMarkCopies ==
    ASSUME TypeOK, VolumeInv, ClaimInv, Steady, NEW s \in Sandbox,
           SandboxInv(s), TruthInv(s), CopyInv(s), RcMark
    PROVE  CopyInv(s)'
<1>1. /\ UNCHANGED <<host, mnt, claim, vm, work, ck, job>> /\ SameCopies(s)
      /\ pass.pc = "mark" /\ pass'.pc = "attach" /\ pass'.view = pass.view
      /\ IF s \in pass.view THEN RecIs(s, "attaching", pass.tgt, rec[s].node)
         ELSE rec'[s] = rec[s]
    BY RcMarkDoes DEF RcMark, registry, agents, SameCopies
<1>2. CASE s \in pass.view
    <2>1. InRecovery(s)
        BY <1>1, <1>2, NoJobs, PcsAre DEF InRecovery
    <2> QED
        BY <1>1, <1>2, <2>1, BoundCopies
<1>3. CASE s \notin pass.view
    <2>1. Calm(s)
        BY <1>1, <1>3, StillCalm
    <2>2. Onward(s)
        BY <1>1, <1>3, GoesOnward, PcsAre, HandingIs
    <2> QED
        BY <2>1, <2>2, CalmCopies
<1> QED
    BY <1>2, <1>3

LEMMA RcAttachCopies ==
    ASSUME TypeOK, VolumeInv, Steady, NEW s \in Sandbox, CopyInv(s), RcAttach
    PROVE  CopyInv(s)'
<1>1. SameCopies(s)
    BY DEF RcAttach, agents, SameCopies
<1>2. Calm(s)
    BY <1>1, RcAttachDoes, StillCalm DEF Still
<1>3. Onward(s)
    BY RcAttachDoes, EndsOnward, GoesOnward, PcsAre, HandingIs DEF Still
<1> QED
    BY <1>2, <1>3, CalmCopies

LEMMA RcMountCopies ==
    ASSUME TypeOK, VolumeInv, Steady, NEW s \in Sandbox, CopyInv(s), RcMount
    PROVE  CopyInv(s)'
<1>1. SameCopies(s) /\ pass.pc = "mount" /\ job[s] = "none"
    BY RcMountDoes, NoJobs DEF RcMount, SameCopies
<1>2. Calm(s)
    BY <1>1, RcMountDoes, StillCalm
<1>3. Onward(s)
    BY <1>1, RcMountDoes, EndsOnward, GoesOnward, PcsAre, HandingIs
<1> QED
    BY <1>2, <1>3, CalmCopies

LEMMA RcEndCopies ==
    ASSUME TypeOK, VolumeInv, Steady, NEW s \in Sandbox, CopyInv(s), RcEnd
    PROVE  CopyInv(s)'
<1>1. /\ UNCHANGED <<mnt, vm, rec, work, ck>> /\ Ends /\ SameCopies(s)
      /\ Up(Source)' <=> Up(Source)
      /\ \A m \in Node : host'[m] = host[m] \/ host'[m] = "ordered"
    BY RcEndDoes DEF RcEnd, agents, SameCopies
<1>2. \A m \in Node : host[m] = "up" => host'[m] = "up"
    BY <1>1 DEF Steady, HostsGo
<1>3. Calm(s)
    BY <1>1, <1>2 DEF Calm, SameCopies, CopyInv, PlacedInv, Up
<1>4. Onward(s)
    BY <1>1, EndsOnward
<1> QED
    BY <1>3, <1>4, CalmCopies

LEMMA CrashCopies ==
    ASSUME TypeOK, VolumeInv, Steady, NEW s \in Sandbox, CopyInv(s), Crash
    PROVE  CopyInv(s)'
<1>1. SameCopies(s)
    BY DEF Crash, agents, SameCopies
<1>2. Calm(s)
    BY <1>1, CrashDoes, StillCalm DEF Still
<1>3. Onward(s)
    BY CrashDoes, EndsOnward DEF Still
<1> QED
    BY <1>2, <1>3, CalmCopies

-----------------------------------------------------------------------------
LEMMA RpNoGuestCopies ==
    ASSUME TypeOK, VolumeInv, Steady, NEW s \in Sandbox, CopyInv(s), RpNoGuest
    PROVE  CopyInv(s)'
<1>1. SameCopies(s)
    BY DEF RpNoGuest, agents, SameCopies
<1>2. Calm(s)
    BY <1>1, RpNoGuestDoes, StillCalm DEF Still
<1>3. Onward(s)
    BY RpNoGuestDoes, EndsOnward DEF Still
<1> QED
    BY <1>2, <1>3, CalmCopies

LEMMA RpReadCopies ==
    ASSUME TypeOK, VolumeInv, Steady, NEW s \in Sandbox, CopyInv(s),
           NEW n \in Standby, RpRead(n)
    PROVE  CopyInv(s)'
<1>1. SameCopies(s)
    BY DEF RpRead, agents, SameCopies
<1>2. Calm(s)
    BY <1>1, RpReadDoes, StillCalm DEF Still
<1>3. Onward(s)
    BY RpReadDoes, GoesOnward, PcsAre, HandingIs DEF Still
<1> QED
    BY <1>2, <1>3, CalmCopies

LEMMA RpLeaseCopies ==
    ASSUME TypeOK, VolumeInv, Steady, NEW s \in Sandbox, CopyInv(s), RpLease
    PROVE  CopyInv(s)'
<1>1. SameCopies(s)
    BY DEF RpLease, agents, SameCopies
<1>2. Calm(s)
    BY <1>1, RpLeaseDoes, StillCalm DEF Still
<1>3. Onward(s)
    BY RpLeaseDoes, EndsOnward, GoesOnward, PcsAre, HandingIs DEF Still, PassIs
<1> QED
    BY <1>2, <1>3, CalmCopies

LEMMA RpEmptyCopies ==
    ASSUME TypeOK, VolumeInv, Steady, NEW s \in Sandbox, CopyInv(s), RpEmpty
    PROVE  CopyInv(s)'
<1>1. SameCopies(s)
    BY DEF RpEmpty, agents, SameCopies
<1>2. Calm(s)
    BY <1>1, RpEmptyDoes, StillCalm DEF Still
<1>3. Onward(s)
    BY RpEmptyDoes, EndsOnward, GoesOnward, PcsAre, HandingIs DEF Still, PassIs
<1> QED
    BY <1>2, <1>3, CalmCopies

LEMMA RpTargetCopies ==
    ASSUME TypeOK, VolumeInv, Steady, NEW s \in Sandbox, CopyInv(s), RpTarget
    PROVE  CopyInv(s)'
<1>1. SameCopies(s)
    BY DEF RpTarget, agents, SameCopies
<1>2. Calm(s)
    BY <1>1, RpTargetDoes, StillCalm DEF Still
<1>3. Onward(s)
    BY RpTargetDoes, EndsOnward, GoesOnward, PcsAre, HandingIs DEF Still, PassIs
<1> QED
    BY <1>2, <1>3, CalmCopies

LEMMA LeaseLostCopies ==
    ASSUME TypeOK, VolumeInv, Steady, NEW s \in Sandbox, CopyInv(s), LeaseLost
    PROVE  CopyInv(s)'
<1>1. SameCopies(s)
    BY DEF LeaseLost, agents, SameCopies
<1>2. Calm(s)
    BY <1>1, LeaseLostDoes, StillCalm DEF Still
<1>3. Onward(s)
    BY LeaseLostDoes, GoesOnward DEF Still, PassIs
<1> QED
    BY <1>2, <1>3, CalmCopies

LEMMA RpDiscardCopies ==
    ASSUME TypeOK, VolumeInv, Steady, NEW s \in Sandbox, CopyInv(s), RpDiscard
    PROVE  CopyInv(s)'
<1>1. /\ UNCHANGED <<host, rec, work, ck>> /\ SameCopies(s)
      /\ pass.src \in Node
    BY RpDiscardDoes, PlacesAre DEF RpDiscard, SameCopies
<1>2. \/ UNCHANGED <<mnt, vm>>
      \/ Unmount(pass.src) /\ RunningOn(pass.src) = {}
    BY DEF RpDiscard, Unmounts
<1>3. Calm(s)
    BY <1>1, <1>2, UnmountCalm
<1>4. Onward(s)
    BY <1>1, RpDiscardDoes, EndsOnward, GoesOnward, PcsAre, HandingIs DEF PassIs
<1> QED
    BY <1>3, <1>4, CalmCopies

LEMMA RpMarkCopies ==
    ASSUME TypeOK, VolumeInv, Steady, NEW s \in Sandbox, SandboxInv(s),
           CopyInv(s), RpMark
    PROVE  CopyInv(s)'
<1>1. CASE s \in pass.view
    BY <1>1, MarkedCopies
<1>2. CASE s \notin pass.view
    <2>1. SameCopies(s)
        BY DEF RpMark, agents, SameCopies
    <2>2. Calm(s)
        BY <1>2, <2>1, RpMarkDoes, StillCalm
    <2>3. Onward(s)
        BY <1>2, RpMarkDoes, GoesOnward, PcsAre, HandingIs DEF PassIs
    <2> QED
        BY <2>2, <2>3, CalmCopies
<1> QED
    BY <1>1, <1>2

\* The handoff starts with everything saved that ran.
LEMMA RpHandoffCopies ==
    ASSUME TypeOK, VolumeInv, Steady, NEW s \in Sandbox, CopyInv(s), RpHandoff
    PROVE  CopyInv(s)'
<1>1. SameCopies(s)
    BY DEF RpHandoff, agents, SameCopies
<1>2. Calm(s)
    BY <1>1, RpHandoffDoes, StillCalm DEF Still
<1>3. s \in pass.view /\ rec[s].orig = "running" => rec[s].saved
    <2>1. s \notin ToCheckpoint
        BY DEF RpHandoff
    <2>2. rec[s].saved \in BOOLEAN
        BY RecordIs DEF TypeOK, RecoveryTypeOK, Record
    <2> QED
        BY <2>1, <2>2 DEF ToCheckpoint
<1>4. ASSUME Ends PROVE Onward(s)
    BY <1>4, RpHandoffDoes, EndsOnward DEF Still
<1>5. ASSUME PassIs("unmount", pass.src, pass.tgt, pass.view, pass.pend,
                    pass.lost)
      PROVE  Onward(s)
    <2>1. /\ pass'.pc = "unmount" /\ pass'.view = pass.view
          /\ rec'[s] = rec[s] /\ ck'[s] = ck[s]
        BY <1>5, RpHandoffDoes DEF PassIs, Still
    <2>2. pass'.pc \notin RecoveryPc
        BY <2>1, PcsAre
    <2>3. InRecovery(s)' => InRecovery(s)
        BY <2>1, <2>2 DEF InRecovery
    <2>4. s \in pass'.view /\ rec[s].orig = "running" => rec[s].saved
        BY <1>3, <2>1
    <2> QED
        BY <2>2, <2>3, <2>4 DEF Onward
<1> QED
    BY <1>2, <1>4, <1>5, RpHandoffDoes, CalmCopies

LEMMA RpUnmountCopies ==
    ASSUME TypeOK, VolumeInv, Steady, NEW s \in Sandbox, CopyInv(s), RpUnmount
    PROVE  CopyInv(s)'
<1>1. /\ UNCHANGED <<host, rec, work, ck>> /\ SameCopies(s)
      /\ pass.pc \in Handing
    BY RpUnmountDoes, HandingIs DEF RpUnmount, Quiesce, SameCopies
<1>2. pass.src \in Node
    BY <1>1, TargetIs, PlacesAre
<1>3. \/ UNCHANGED <<mnt, vm>>
      \/ Unmount(pass.src) /\ RunningOn(pass.src) = {}
    BY DEF RpUnmount, Quiesce, Unmounts
<1>4. Calm(s)
    BY <1>1, <1>2, <1>3, UnmountCalm
<1>5. Onward(s)
    BY <1>1, RpUnmountDoes, EndsOnward, GoesOnward, PcsAre, HandingIs DEF PassIs
<1> QED
    BY <1>4, <1>5, CalmCopies

LEMMA RpUnmountReplacedCopies ==
    ASSUME TypeOK, VolumeInv, Steady, NEW s \in Sandbox, CopyInv(s), RpUnmountReplaced
    PROVE  CopyInv(s)'
<1>1. /\ UNCHANGED <<host, rec, work, ck>> /\ SameCopies(s)
      /\ pass.pc \in Handing
    BY RpUnmountReplacedDoes, HandingIs DEF RpUnmountReplaced, Quiesce, SameCopies
<1>2. pass.tgt \in Node
    BY <1>1, TargetIs, PlacesAre
<1>3. \/ UNCHANGED <<mnt, vm>>
      \/ Unmount(pass.tgt) /\ RunningOn(pass.tgt) = {}
    BY DEF RpUnmountReplaced, Quiesce, Unmounts
<1>4. Calm(s)
    BY <1>1, <1>2, <1>3, UnmountCalm
<1>5. Onward(s)
    BY <1>1, RpUnmountReplacedDoes, EndsOnward, GoesOnward, PcsAre, HandingIs DEF PassIs
<1> QED
    BY <1>4, <1>5, CalmCopies

LEMMA RpDetachCopies ==
    ASSUME TypeOK, VolumeInv, Steady, NEW s \in Sandbox, CopyInv(s), RpDetach
    PROVE  CopyInv(s)'
<1>1. SameCopies(s)
    BY DEF RpDetach, Release, agents, SameCopies
<1>2. Calm(s)
    BY <1>1, RpDetachDoes, StillCalm DEF Still
<1>3. Onward(s)
    BY RpDetachDoes, EndsOnward, GoesOnward, PcsAre, HandingIs DEF Still, PassIs
<1> QED
    BY <1>2, <1>3, CalmCopies

LEMMA RpDetachReplacedCopies ==
    ASSUME TypeOK, VolumeInv, Steady, NEW s \in Sandbox, CopyInv(s), RpDetachReplaced
    PROVE  CopyInv(s)'
<1>1. SameCopies(s)
    BY DEF RpDetachReplaced, Release, agents, SameCopies
<1>2. Calm(s)
    BY <1>1, RpDetachReplacedDoes, StillCalm DEF Still
<1>3. Onward(s)
    BY RpDetachReplacedDoes, EndsOnward, GoesOnward, PcsAre, HandingIs DEF Still, PassIs
<1> QED
    BY <1>2, <1>3, CalmCopies

LEMMA RpAttachCopies ==
    ASSUME TypeOK, VolumeInv, Steady, NEW s \in Sandbox, CopyInv(s), RpAttach
    PROVE  CopyInv(s)'
<1>1. SameCopies(s)
    BY DEF RpAttach, agents, SameCopies
<1>2. Calm(s)
    BY <1>1, RpAttachDoes, StillCalm DEF Still
<1>3. Onward(s)
    BY RpAttachDoes, EndsOnward, GoesOnward, PcsAre, HandingIs DEF Still, PassIs
<1> QED
    BY <1>2, <1>3, CalmCopies

LEMMA RpHealthCopies ==
    ASSUME TypeOK, VolumeInv, Steady, NEW s \in Sandbox, CopyInv(s), RpHealth
    PROVE  CopyInv(s)'
<1>1. SameCopies(s)
    BY DEF RpHealth, agents, SameCopies
<1>2. Calm(s)
    BY <1>1, RpHealthDoes, StillCalm DEF Still
<1>3. Onward(s)
    BY RpHealthDoes, EndsOnward, GoesOnward, PcsAre, HandingIs DEF Still, PassIs
<1> QED
    BY <1>2, <1>3, CalmCopies

LEMMA RpReleaseCopies ==
    ASSUME TypeOK, VolumeInv, Steady, NEW s \in Sandbox, CopyInv(s), RpRelease
    PROVE  CopyInv(s)'
<1>1. SameCopies(s)
    BY DEF RpRelease, agents, SameCopies
<1>2. Calm(s)
    BY <1>1, RpReleaseDoes, StillCalm DEF Still
<1>3. Onward(s)
    BY RpReleaseDoes, EndsOnward, GoesOnward, PcsAre, HandingIs DEF Still, PassIs
<1> QED
    BY <1>2, <1>3, CalmCopies

LEMMA RpMountCopies ==
    ASSUME TypeOK, VolumeInv, Steady, NEW s \in Sandbox, CopyInv(s), RpMount
    PROVE  CopyInv(s)'
<1>1. SameCopies(s) /\ pass.pc = "mount2" /\ UNCHANGED rec
    BY RpMountDoes DEF RpMount, SameCopies
<1>2. Calm(s)
    BY <1>1, RpMountDoes, StillCalm
<1>3. Onward(s)
    BY <1>1, RpMountDoes, EndsOnward, GoesOnward, PcsAre, HandingIs DEF PassIs
<1> QED
    BY <1>2, <1>3, CalmCopies

\* The host that is terminated has no sandbox a recovery would bring back from
\* an older copy.
LEMMA RpTerminateCopies ==
    ASSUME TypeOK, VolumeInv, Steady, NEW s \in Sandbox, SandboxInv(s),
           CopyInv(s), RpTerminate
    PROVE  CopyInv(s)'
<1>1. /\ UNCHANGED <<rec, work, ck>> /\ SameCopies(s) /\ Ends
      /\ pass.pc = "terminate" /\ pass.src \in Standby
      /\ Up(Source)' <=> Up(Source)
    BY RpTerminateDoes DEF RpTerminate, SameCopies
<1>2. Onward(s)
    BY <1>1, EndsOnward
<1>3. CASE UNCHANGED <<host, mnt, vm>>
    BY <1>1, <1>2, <1>3, StillCalm, CalmCopies
<1>4. CASE \A m \in Node :
              /\ mnt'[m] = IF m = pass.src THEN None ELSE mnt[m]
              /\ host'[m] = IF m = pass.src THEN "gone" ELSE host[m]
              /\ vm'[m][s] = IF m = pass.src THEN "none" ELSE vm[m][s]
    <2>1. ASSUME vm[pass.src][s] = "running", InRecovery(s)', ~Whole(s)
          PROVE  FALSE
        <3>1. InRecovery(s)
            BY <1>2, <2>1 DEF Onward
        <3>2. PICK m \in Standby :
                 /\ vm[m][s] = "running"
                 /\ rec[s].state \in Recoverable => rec[s].tgt = m
            BY <2>1, <3>1 DEF CopyInv, FreshInv
        <3>3. m = pass.src
            BY <1>1, <2>1, <3>2, OneEntry, PlacesAre DEF CopyInv, VolumeInv
        <3>4. rec[s].tgt # pass.src
            BY <1>1 DEF SandboxInv, ViewInv
        <3>5. ck[s] = "written"
            BY <1>1, <2>1, <3>2, <3>3, <3>4, PcsAre DEF InRecovery, Ends
        <3>6. Up(Source) /\ PlaceInv(s) /\ EntryInv(s)
            BY <3>5 DEF CopyInv, PlacedInv, SandboxInv
        <3> QED
            BY <1>1, <2>1, <3>6, SourceOnly, PlacesAre DEF VolumeInv
    <2>2. \A m \in Node :
             \/ /\ vm'[m][s] = vm[m][s]
                /\ vm[m][s] # "none" /\ Up(m) => Up(m)'
                /\ vm[m][s] # "none" /\ mnt[m] = Home => mnt'[m] = Home
             \/ /\ vm'[m][s] = "none"
                /\ vm[m][s] = "running" =>
                      ~Up(m)' /\ (m \in Standby => ~InRecovery(s)' \/ Whole(s))
        BY <1>4, <2>1 DEF Up
    <2>3. Calm(s)
        BY <1>1, <2>2 DEF Calm, SameCopies, CopyInv, PlacedInv
    <2> QED
        BY <1>2, <2>3, CalmCopies
<1> QED
    BY <1>3, <1>4, RpTerminateDoes

-----------------------------------------------------------------------------
(* Every step. *)

\* Every sandbox.
CopiesInv == \A s \in Sandbox : CopyInv(s)

LEMMA StepsAreSteady ==
    ASSUME TypeOK, GuestsInv, KeptInv, [Next]_vars
    PROVE  Steady
<1>1. /\ VolumeInv /\ MountedInv /\ SpotJoined /\ HostsGo
      /\ SpotInv /\ ClaimInv
    BY HostsOnlyGo DEF GuestsInv, KeptInv, VolumeInv
<1>2. SpotInv'
    BY <1>1, SpotStep
<1>3. \A n \in Standby : claim[n] # None => claim'[n] # None
    BY <1>1, ClaimsGrow
<1> QED
    BY <1>1, <1>2, <1>3 DEF Steady, SpotInv

\* A step on one sandbox.
LEMMA OneCopied ==
    ASSUME TypeOK, Steady, CopiesInv, NEW s \in Sandbox, Settled, Others(s),
           CopyInv(s)' /\ \A r \in Sandbox \ {s} : SameCopies(r)
    PROVE  CopiesInv'
<1>1. ASSUME NEW r \in Sandbox \ {s} PROVE CopyInv(r)'
    BY <1>1, OthersCopies DEF CopiesInv
<1> QED
    BY <1>1 DEF CopiesInv

LEMMA CheckpointsCopies ==
    ASSUME TypeOK, VolumeInv, Steady, CopiesInv, NEW n \in Spot,
           NEW s \in Sandbox, SandboxInv(s),
           CkStart(n, s) \/ CkWrite(n, s) \/ CkDone(n, s) \/ CkFail(n, s)
    PROVE  CopiesInv'
<1>0. CopyInv(s)
    BY DEF CopiesInv
<1>1. CASE CkStart(n, s)
    BY <1>0, <1>1, CkStartDoes, CkStartCopies, OneCopied
<1>2. CASE CkWrite(n, s)
    BY <1>0, <1>2, CkWriteDoes, CkWriteCopies, OneCopied
<1>3. CASE CkDone(n, s)
    BY <1>0, <1>3, CkDoneDoes, CkDoneCopies, OneCopied
<1>4. CASE CkFail(n, s)
    BY <1>0, <1>4, CkFailDoes, CkFailCopies, OneCopied
<1> QED
    BY <1>1, <1>2, <1>3, <1>4

LEMMA WorkersCopies ==
    ASSUME TypeOK, VolumeInv, Steady, CopiesInv, NEW s \in Sandbox,
           SandboxInv(s), TruthInv(s), TakenInv(s), SandboxInv(s)',
           \/ \E k \in {"suspend", "resume", "delete"} : WorkStart(s, k)
           \/ WorkCall(s) \/ WorkDone(s)
    PROVE  CopiesInv'
<1>0. CopyInv(s)
    BY DEF CopiesInv
<1>1. ASSUME NEW k \in {"suspend", "resume", "delete"}, WorkStart(s, k)
      PROVE  CopiesInv'
    BY <1>0, <1>1, WorkStartDoes, WorkStartCopies, OneCopied
<1>2. CASE WorkCall(s)
    BY <1>0, <1>2, WorkCallDoes, WorkCallCopies, OneCopied
<1>3. CASE WorkDone(s)
    BY <1>0, <1>3, WorkDoneDoes, WorkDoneCopies, OneCopied
<1> QED
    BY <1>1, <1>2, <1>3

LEMMA JobsCopies ==
    ASSUME TypeOK, VolumeInv, ClaimInv, Steady, CopiesInv, NEW s \in Sandbox,
           SandboxInv(s), TruthInv(s),
           \/ RcStart(s) \/ RcBoot(s) \/ RcDone(s) \/ RcFail(s)
           \/ RpSave(s) \/ RpFlag(s)
           \/ RpReturn(s) \/ RpBoot(s) \/ RpBootFails(s) \/ RpDone(s)
    PROVE  CopiesInv'
<1>0. CopyInv(s)
    BY DEF CopiesInv
<1>1. CASE RcStart(s)
    BY <1>0, <1>1, RcStartDoes, RcStartCopies, OneCopied
<1>2. CASE RcBoot(s)
    BY <1>0, <1>2, RcBootDoes, RcBootCopies, OneCopied
<1>3. CASE RcDone(s)
    BY <1>0, <1>3, RcDoneDoes, RcDoneCopies, OneCopied
<1>4. CASE RcFail(s)
    BY <1>0, <1>4, RcFailDoes, RcFailCopies, OneCopied
<1>5. CASE RpSave(s)
    BY <1>0, <1>5, RpSaveDoes, RpSaveCopies, OneCopied
<1>6. CASE RpFlag(s)
    BY <1>0, <1>6, RpFlagDoes, RpFlagCopies, OneCopied
<1>7. CASE RpReturn(s)
    BY <1>0, <1>7, RpReturnDoes, RpReturnCopies, OneCopied
<1>8. CASE RpBoot(s)
    BY <1>0, <1>8, RpBootDoes, RpBootCopies, OneCopied
<1>9. CASE RpBootFails(s)
    <2>1. \A r \in Sandbox : SameCopies(r)
        BY <1>9 DEF RpBootFails, agents, SameCopies
    <2>2. pass.pc \notin RecoveryPc
        BY <1>9, RpBootFailsDoes, PcsAre
    <2>3. CopyInv(s)'
        BY <1>0, <1>9, <2>1, <2>2, RpBootFailsDoes, NothingCopied
    <2> QED
        BY <1>9, <2>1, <2>3, RpBootFailsDoes, OneCopied
<1>10. CASE RpDone(s)
    BY <1>0, <1>10, RpDoneDoes, RpDoneCopies, OneCopied
<1> QED
    BY <1>1, <1>2, <1>3, <1>4, <1>5, <1>6, <1>7, <1>8, <1>9, <1>10

LEMMA HostsCopies ==
    ASSUME TypeOK, GuestsInv, Steady, CopiesInv, NEW s \in Sandbox,
           \/ \E n \in Node : Heartbeat(n) \/ HeartbeatExpire(n)
           \/ \E n \in Spot : Detect(n) \/ Preserve(n)
           \/ \E n \in Spot : Deadline(n) \/ Terminate(n)
           \/ \E n \in Standby : StandbyLost(n) \/ StandbyJoins(n)
    PROVE  CopyInv(s)'
<1>0. VolumeInv /\ SandboxInv(s) /\ CopyInv(s)
    BY DEF CopiesInv, GuestsInv
<1>1. ASSUME NEW n \in Node, Heartbeat(n) \/ HeartbeatExpire(n)
      PROVE  CopyInv(s)'
    BY <1>0, <1>1, HeartbeatCopies
<1>2. ASSUME NEW n \in Spot, Detect(n) PROVE CopyInv(s)'
    BY <1>0, <1>2, DetectCopies
<1>3. ASSUME NEW n \in Spot, Preserve(n) PROVE CopyInv(s)'
    BY <1>0, <1>3, PreserveCopies
<1>4. ASSUME NEW n \in Spot, Deadline(n) PROVE CopyInv(s)'
    BY <1>0, <1>4, DeadlineCopies
<1>5. ASSUME NEW n \in Spot, Terminate(n) PROVE CopyInv(s)'
    BY <1>0, <1>5, TerminateCopies
<1>6. ASSUME NEW n \in Standby, StandbyLost(n) PROVE CopyInv(s)'
    BY <1>0, <1>6, StandbyLostCopies
<1>7. ASSUME NEW n \in Standby, StandbyJoins(n) PROVE CopyInv(s)'
    BY <1>0, <1>7, StandbyJoinsCopies
<1> QED
    BY <1>1, <1>2, <1>3, <1>4, <1>5, <1>6, <1>7

LEMMA RecoveryCopies ==
    ASSUME TypeOK, GuestsInv, ClaimInv, Steady, CopiesInv, NEW s \in Sandbox,
           \/ \E n \in Spot : RcRead(n)
           \/ RcLookup \/ RcClaim \/ RcMark \/ RcAttach \/ RcMount \/ RcEnd
           \/ Crash
    PROVE  CopyInv(s)'
<1>0. VolumeInv /\ SandboxInv(s) /\ TruthInv(s) /\ CopyInv(s)
    BY DEF CopiesInv, GuestsInv
<1>1. ASSUME NEW n \in Spot, RcRead(n) PROVE CopyInv(s)'
    BY <1>0, <1>1, RcReadCopies
<1>2. CASE RcLookup
    BY <1>0, <1>2, RcLookupCopies
<1>3. CASE RcClaim
    BY <1>0, <1>3, RcClaimCopies
<1>4. CASE RcMark
    BY <1>0, <1>4, RcMarkCopies
<1>5. CASE RcAttach
    BY <1>0, <1>5, RcAttachCopies
<1>6. CASE RcMount
    BY <1>0, <1>6, RcMountCopies
<1>7. CASE RcEnd
    BY <1>0, <1>7, RcEndCopies
<1>8. CASE Crash
    BY <1>0, <1>8, CrashCopies
<1> QED
    BY <1>1, <1>2, <1>3, <1>4, <1>5, <1>6, <1>7, <1>8

LEMMA RepatriationCopies ==
    ASSUME TypeOK, GuestsInv, Steady, CopiesInv, NEW s \in Sandbox,
           \/ \E n \in Standby : RpRead(n)
           \/ RpLease \/ LeaseLost \/ RpEmpty \/ RpDiscard \/ RpTarget
           \/ RpMark \/ RpNoGuest \/ RpHandoff \/ RpUnmount \/ RpDetach
           \/ RpUnmountReplaced \/ RpDetachReplaced \/ RpAttach \/ RpMount
           \/ RpHealth \/ RpRelease \/ RpTerminate
    PROVE  CopyInv(s)'
<1>0. VolumeInv /\ SandboxInv(s) /\ CopyInv(s)
    BY DEF CopiesInv, GuestsInv
<1>1. ASSUME NEW n \in Standby, RpRead(n) PROVE CopyInv(s)'
    BY <1>0, <1>1, RpReadCopies
<1>2. CASE RpLease
    BY <1>0, <1>2, RpLeaseCopies
<1>3. CASE LeaseLost
    BY <1>0, <1>3, LeaseLostCopies
<1>4. CASE RpEmpty
    BY <1>0, <1>4, RpEmptyCopies
<1>5. CASE RpDiscard
    BY <1>0, <1>5, RpDiscardCopies
<1>6. CASE RpTarget
    BY <1>0, <1>6, RpTargetCopies
<1>7. CASE RpMark
    BY <1>0, <1>7, RpMarkCopies
<1>8. CASE RpNoGuest
    BY <1>0, <1>8, RpNoGuestCopies
<1>9. CASE RpHandoff
    BY <1>0, <1>9, RpHandoffCopies
<1>10. CASE RpUnmount
    BY <1>0, <1>10, RpUnmountCopies
<1>11. CASE RpDetach
    BY <1>0, <1>11, RpDetachCopies
<1>12. CASE RpUnmountReplaced
    BY <1>0, <1>12, RpUnmountReplacedCopies
<1>13. CASE RpDetachReplaced
    BY <1>0, <1>13, RpDetachReplacedCopies
<1>14. CASE RpAttach
    BY <1>0, <1>14, RpAttachCopies
<1>15. CASE RpMount
    BY <1>0, <1>15, RpMountCopies
<1>16. CASE RpHealth
    BY <1>0, <1>16, RpHealthCopies
<1>17. CASE RpRelease
    BY <1>0, <1>17, RpReleaseCopies
<1>18. CASE RpTerminate
    BY <1>0, <1>18, RpTerminateCopies
<1> QED
    BY <1>1, <1>2, <1>3, <1>4, <1>5, <1>6, <1>7, <1>8, <1>9, <1>10, <1>11,
       <1>12, <1>13, <1>14, <1>15, <1>16, <1>17, <1>18

LEMMA CopiesStep ==
    ASSUME TypeOK, GuestsInv, KeptInv, CopiesInv, [Next]_vars
    PROVE  CopiesInv'
<1>1. /\ Steady /\ VolumeInv /\ ClaimInv
      /\ \A s \in Sandbox :
            /\ SandboxInv(s) /\ TruthInv(s) /\ TakenInv(s)
            /\ SandboxInv(s)'
    BY StepsAreSteady, GuestsStep DEF GuestsInv, KeptInv
<1>2. CASE AgentStep
    BY <1>1, <1>2, HostsCopies, CheckpointsCopies DEF AgentStep, CopiesInv
<1>3. CASE Ec2Step
    BY <1>1, <1>3, HostsCopies DEF Ec2Step, CopiesInv
<1>4. CASE WorkStep
    BY <1>1, <1>4, WorkersCopies DEF WorkStep
<1>5. CASE RcStep
    BY <1>1, <1>5, RecoveryCopies, JobsCopies DEF RcStep, CopiesInv
<1>6. CASE RpStep
    BY <1>1, <1>6, RepatriationCopies, JobsCopies DEF RpStep, CopiesInv
<1>7. CASE OperatorFault
    BY <1>1, <1>7, RecoveryCopies, RepatriationCopies
    DEF OperatorFault, CopiesInv
<1>8. CASE UNCHANGED vars
    <2>1. ASSUME NEW s \in Sandbox PROVE CopyInv(s)'
        <3>1. Same(s) /\ SameCopies(s) /\ UNCHANGED <<host, mnt, pass>>
            BY <1>8 DEF vars, recoveryVars, Same, SameCopies
        <3> QED
            BY <1>1, <3>1, LeftAlone DEF CopiesInv, Up
    <2> QED
        BY <2>1 DEF CopiesInv
<1> QED
    BY <1>2, <1>3, <1>4, <1>5, <1>6, <1>7, <1>8 DEF Next

LEMMA CopiesInit ==
    ASSUME RecoveryInit
    PROVE  CopiesInv
<1>1. /\ \A n \in Node : mnt[n] = IF n \in Spot THEN n ELSE None
      /\ host = [n \in Node |-> IF n \in Late THEN "absent" ELSE "up"]
    BY PlacesAre DEF RecoveryInit, StateVolumeInit
<1>2. Up(Source) /\ mnt[Source] = Home
    BY <1>1, PlacesAre, StateVolumeAssumption DEF Up
<1>3. pass.pc = "idle"
    BY IdleIs DEF RecoveryInit
<1> SUFFICES ASSUME NEW s \in Sandbox PROVE CopyInv(s)
    BY DEF CopiesInv
<1>4. /\ \A n \in Node \ {Source} : vm[n][s] = "none"
      /\ \/ vm[Source][s] = "running"
         \/ vm[Source][s] = "suspended" /\ snap[s] = "current"
    <2>1. PICK asleep \in SUBSET Asked :
             /\ vm = [n \in Node |-> [q \in Sandbox |->
                      IF n # Source THEN "none"
                      ELSE IF q \in asleep THEN "suspended" ELSE "running"]]
             /\ snap = [q \in Sandbox |->
                         IF q \in asleep THEN "current" ELSE "none"]
        BY DEF RecoveryInit, StateVolumeInit
    <2> QED
        BY <2>1, PlacesAre
<1>5. /\ rec[s].state = vm[Source][s] /\ rec[s].node = Source
      /\ rec[s].tgt = None /\ rec[s].orig = "none" /\ ~rec[s].saved
    <2>1. rec[s] = [NoRecord EXCEPT !.state = vm[Source][s], !.node = Source]
        BY DEF RecoveryInit
    <2> QED
        BY <2>1, NoRecordIs DEF NoRecord
<1>6. ck[s] = "none" /\ work[s].kind = "none" /\ work[s].at = None
    BY DEF RecoveryInit, NoWork
<1>7. ~Ghost(s) /\ ~Working(s) /\ ~InRecovery(s)
    BY <1>3, <1>4, <1>5, <1>6, PlacesAre, PcsAre
    DEF Ghost, Working, InRecovery, Recoverable
<1>8. EntryInv(s) /\ PlacedInv(s)
    BY <1>2, <1>4, <1>5, <1>6, <1>7, PlacesAre DEF EntryInv, PlacedInv
<1>9. LeftInv(s) /\ FreshInv(s) /\ AsleepInv(s)
    BY <1>4, <1>5, <1>6, <1>7
    DEF LeftInv, FreshInv, AsleepInv, Asleep, Whole
<1>10. NotedInv(s) /\ SavedInv(s)
    BY <1>3, <1>5, HandingIs, PcsAre DEF NotedInv, SavedInv
<1> QED
    BY <1>8, <1>9, <1>10 DEF CopyInv

\* What a recovery, a handoff or a worker is going to resume a guest from has
\* everything that was written to it, or was deleted by a client.
THEOREM CopiesStay == Spec => []CopiesInv
<1>1. RecoveryInit => CopiesInv
    BY CopiesInit
<1>2. TypeOK /\ GuestsInv /\ KeptInv /\ CopiesInv /\ [Next]_vars => CopiesInv'
    BY CopiesStep
<1> QED
    BY <1>1, <1>2, SpotTypeCorrect, GuestsStayTrue, ClaimsStay, PTL DEF Spec

-----------------------------------------------------------------------------
(* No guest is started from an older copy. *)

\* Who starts a guest: a worker's resume, a recovery, or a handoff.
Started(n, s) ==
    \/ /\ WorkCall(s) /\ work[s].kind = "resume" /\ work[s].res = "none"
       /\ n = work[s].at /\ Up(n)
    \/ RcBoot(s) /\ n = rec[s].tgt
    \/ RpBoot(s) /\ n = pass.tgt

LEMMA AgentStarts ==
    ASSUME TypeOK, VolumeInv, NEW n \in Node, NEW s \in Sandbox,
           vm[n][s] # "running", vm'[n][s] = "running", AgentStep
    PROVE  Started(n, s)
<1>1. ASSUME NEW m \in Node, Heartbeat(m)
      PROVE  Started(n, s)
    BY <1>1 DEF Heartbeat, agents
<1>2. ASSUME NEW m \in Node, HeartbeatExpire(m)
      PROVE  Started(n, s)
    BY <1>2 DEF HeartbeatExpire, agents
<1>3. ASSUME NEW m \in Spot, Detect(m)
      PROVE  Started(n, s)
    BY <1>3 DEF Detect, agents
<1>4. ASSUME NEW m \in Spot, Preserve(m)
      PROVE  Started(n, s)
    BY <1>4 DEF Preserve, agents
<1>5. ASSUME NEW m \in Spot, NEW r \in Sandbox, CkStart(m, r)
      PROVE  Started(n, s)
    BY <1>5 DEF CkStart, agents
<1>6. ASSUME NEW m \in Spot, NEW r \in Sandbox, CkWrite(m, r)
      PROVE  Started(n, s)
    BY <1>6, CkWriteDoes DEF VmIs
<1>7. ASSUME NEW m \in Spot, NEW r \in Sandbox, CkDone(m, r)
      PROVE  Started(n, s)
    BY <1>7 DEF CkDone, agents
<1>8. ASSUME NEW m \in Spot, NEW r \in Sandbox, CkFail(m, r)
      PROVE  Started(n, s)
    BY <1>8 DEF CkFail, agents
<1> QED
    BY <1>1, <1>2, <1>3, <1>4, <1>5, <1>6, <1>7, <1>8
    DEF AgentStep

LEMMA Ec2Starts ==
    ASSUME TypeOK, VolumeInv, NEW n \in Node, NEW s \in Sandbox,
           vm[n][s] # "running", vm'[n][s] = "running", Ec2Step
    PROVE  Started(n, s)
<1>1. ASSUME NEW m \in Spot, Deadline(m)
      PROVE  Started(n, s)
    BY <1>1 DEF Deadline, agents
<1>2. ASSUME NEW m \in Spot, Terminate(m)
      PROVE  Started(n, s)
    BY <1>2, TerminateDoes
<1>3. ASSUME NEW m \in Standby, StandbyLost(m)
      PROVE  Started(n, s)
    BY <1>3, StandbyLostDoes DEF Kept, Same
<1>4. ASSUME NEW m \in Standby, StandbyJoins(m)
      PROVE  Started(n, s)
    BY <1>4 DEF StandbyJoins, agents
<1> QED
    BY <1>1, <1>2, <1>3, <1>4
    DEF Ec2Step

LEMMA WorkStarts ==
    ASSUME TypeOK, VolumeInv, NEW n \in Node, NEW s \in Sandbox,
           vm[n][s] # "running", vm'[n][s] = "running", WorkStep
    PROVE  Started(n, s)
<1>1. ASSUME NEW r \in Sandbox, NEW k \in {"suspend", "resume", "delete"}, WorkStart(r, k)
      PROVE  Started(n, s)
    BY <1>1 DEF WorkStart, agents
<1>2. ASSUME NEW r \in Sandbox, WorkCall(r)
      PROVE  Started(n, s)
    BY <1>2, WorkCallDoes DEF VmIs, Started
<1>3. ASSUME NEW r \in Sandbox, WorkDone(r)
      PROVE  Started(n, s)
    BY <1>3 DEF WorkDone
<1> QED
    BY <1>1, <1>2, <1>3
    DEF WorkStep

LEMMA RecoveryStarts ==
    ASSUME TypeOK, VolumeInv, NEW n \in Node, NEW s \in Sandbox,
           vm[n][s] # "running", vm'[n][s] = "running", RcStep
    PROVE  Started(n, s)
<1>1. ASSUME NEW m \in Spot, RcRead(m)
      PROVE  Started(n, s)
    BY <1>1 DEF RcRead, agents
<1>2. CASE RcLookup
    BY <1>2 DEF RcLookup, agents
<1>3. CASE RcClaim
    BY <1>3 DEF RcClaim, agents
<1>4. CASE RcMark
    BY <1>4 DEF RcMark, agents
<1>5. CASE RcAttach
    BY <1>5 DEF RcAttach, agents
<1>6. CASE RcMount
    BY <1>6 DEF RcMount
<1>7. ASSUME NEW r \in Sandbox, RcStart(r)
      PROVE  Started(n, s)
    BY <1>7 DEF RcStart, agents
<1>8. ASSUME NEW r \in Sandbox, RcBoot(r)
      PROVE  Started(n, s)
    BY <1>8, RcBootDoes DEF VmIs, Started
<1>9. ASSUME NEW r \in Sandbox, RcDone(r)
      PROVE  Started(n, s)
    BY <1>9 DEF RcDone
<1>10. ASSUME NEW r \in Sandbox, RcFail(r)
      PROVE  Started(n, s)
    BY <1>10 DEF RcFail, agents
<1>11. CASE RcEnd
    BY <1>11 DEF RcEnd, agents
<1> QED
    BY <1>1, <1>2, <1>3, <1>4, <1>5, <1>6, <1>7, <1>8, <1>9, <1>10, <1>11
    DEF RcStep

LEMMA RepatriationStarts ==
    ASSUME TypeOK, VolumeInv, NEW n \in Node, NEW s \in Sandbox,
           vm[n][s] # "running", vm'[n][s] = "running", RpStep
    PROVE  Started(n, s)
<1>1. ASSUME NEW m \in Standby, RpRead(m)
      PROVE  Started(n, s)
    BY <1>1 DEF RpRead, agents
<1>2. CASE RpLease
    BY <1>2 DEF RpLease, agents
<1>3. CASE RpEmpty
    BY <1>3 DEF RpEmpty, agents
<1>4. CASE RpDiscard
    BY <1>4, RpDiscardDoes
<1>5. CASE RpTarget
    BY <1>5 DEF RpTarget, agents
<1>6. CASE RpMark
    BY <1>6 DEF RpMark, agents
<1>7. ASSUME NEW r \in Sandbox, RpSave(r)
      PROVE  Started(n, s)
    BY <1>7, RpSaveDoes DEF VmIs
<1>8. ASSUME NEW r \in Sandbox, RpFlag(r)
      PROVE  Started(n, s)
    BY <1>8 DEF RpFlag, agents
<1>9. CASE RpNoGuest
    BY <1>9 DEF RpNoGuest, agents
<1>10. CASE RpHandoff
    BY <1>10 DEF RpHandoff, agents
<1>11. CASE RpUnmount
    BY <1>11, RpUnmountDoes DEF QuiesceIs
<1>12. CASE RpDetach
    BY <1>12 DEF RpDetach, Release, agents
<1>13. CASE RpUnmountReplaced
    BY <1>13, RpUnmountReplacedDoes DEF QuiesceIs
<1>14. CASE RpDetachReplaced
    BY <1>14 DEF RpDetachReplaced, Release, agents
<1>15. CASE RpAttach
    BY <1>15 DEF RpAttach, agents
<1>16. CASE RpMount
    BY <1>16 DEF RpMount
<1>17. ASSUME NEW r \in Sandbox, RpReturn(r)
      PROVE  Started(n, s)
    BY <1>17 DEF RpReturn, agents
<1>18. ASSUME NEW r \in Sandbox, RpBoot(r)
      PROVE  Started(n, s)
    BY <1>18, RpBootDoes DEF VmIs, Started
<1>19. ASSUME NEW r \in Sandbox, RpBootFails(r)
      PROVE  Started(n, s)
    BY <1>19 DEF RpBootFails, agents
<1>20. ASSUME NEW r \in Sandbox, RpDone(r)
      PROVE  Started(n, s)
    BY <1>20 DEF RpDone
<1>21. CASE RpHealth
    BY <1>21 DEF RpHealth, agents
<1>22. CASE RpRelease
    BY <1>22 DEF RpRelease, agents
<1>23. CASE RpTerminate
    BY <1>23, RpTerminateDoes
<1> QED
    BY <1>1, <1>2, <1>3, <1>4, <1>5, <1>6, <1>7, <1>8, <1>9, <1>10, <1>11, <1>12, <1>13, <1>14, <1>15, <1>16, <1>17, <1>18, <1>19, <1>20, <1>21, <1>22, <1>23
    DEF RpStep

LEMMA GuestsStart ==
    ASSUME TypeOK, VolumeInv, NEW n \in Node, NEW s \in Sandbox,
           vm[n][s] # "running", vm'[n][s] = "running", [Next]_vars
    PROVE  Started(n, s)
<1>1. CASE OperatorFault
    BY <1>1 DEF OperatorFault, Crash, LeaseLost, agents
<1>2. CASE UNCHANGED vars
    BY <1>2 DEF vars, recoveryVars
<1> QED
    BY <1>1, <1>2, AgentStarts, Ec2Starts, WorkStarts, RecoveryStarts,
       RepatriationStarts
    DEF Next

\* A worker resumes what sleeps.
LEMMA ResumeRestores ==
    ASSUME TypeOK, NEW n \in Node, NEW s \in Sandbox, CopyInv(s),
           SandboxInv(s)', WorkCall(s), vm'[n][s] = "running",
           work[s].kind = "resume", work[s].res = "none", n = work[s].at, Up(n)
    PROVE  Restored(n, s) = "current" \/ snap[s] = "gone"
<1>1. Asleep(s)
    BY DEF CopyInv, AsleepInv
<1>2. mnt[n] = Home \/ Ghost(s)
    BY WorkCallDoes DEF SandboxInv, GuestInv, Ghost, Settled
<1> QED
    BY <1>1, <1>2 DEF Asleep, Whole, Restored

\* A recovery resumes what was checkpointed on the volume it mounted.
LEMMA RecoveryRestores ==
    ASSUME TypeOK, VolumeInv, NEW s \in Sandbox, SandboxInv(s), TruthInv(s),
           CopyInv(s), RcBoot(s), NEW n \in Node, n = rec[s].tgt,
           vm[n][s] # "running"
    PROVE  Restored(n, s) = "current" \/ snap[s] = "gone"
<1>1. pass.pc = "resume" /\ job[s] = "asked"
    BY RcBootDoes
<1>2. /\ InRecovery(s) /\ ~Ghost(s)
      /\ pass.tgt \in Standby /\ mnt[pass.tgt] = Home
    BY <1>1, AskedIs
<1>3. n = pass.tgt
    BY <1>1, PlacesAre DEF SandboxInv, JobInv
<1>4. Whole(s)
    <2> SUFFICES ASSUME ~Whole(s) PROVE FALSE
        OBVIOUS
    <2>1. PICK m \in Standby : vm[m][s] = "running"
        BY <1>2 DEF CopyInv, FreshInv
    <2>2. mnt[m] = Home
        BY <1>2, <2>1, PlacesAre DEF CopyInv, EntryInv
    <2> QED
        BY <1>2, <1>3, <2>1, <2>2, PlacesAre DEF VolumeInv, MountedInv
<1> QED
    BY <1>2, <1>3, <1>4 DEF Whole, Restored

\* A handoff resumes what it saved before it moved the volume.
LEMMA HandoffRestores ==
    ASSUME TypeOK, VolumeInv, NEW s \in Sandbox, SandboxInv(s), TruthInv(s),
           CopyInv(s), RpBoot(s), NEW n \in Node, n = pass.tgt,
           vm[n][s] # "running"
    PROVE  Restored(n, s) = "current" \/ snap[s] = "gone"
<1>1. pass.pc = "restore" /\ job[s] = "todo" /\ rec[s].orig = "running"
    BY RpBootDoes
<1>2. /\ mnt[n] = Home /\ s \in pass.view
      /\ rec[s].tgt = pass.src \/ rec[s].tgt = None
      /\ \A m \in Node : vm[m][s] # "none" => m = n
    BY <1>1, ToRestore
<1>3. rec[s].tgt = pass.src /\ pass.src \in Standby
    BY <1>1, <1>2, PassPlaces, PcsAre DEF TruthInv, OrigInv
<1>4. rec[s].saved
    BY <1>1, <1>2, <1>3, HandingIs DEF CopyInv, SavedInv
<1>5. \A q \in Spot : vm[q][s] # "running"
    BY <1>2, PlacesAre
<1>6. Whole(s)
    BY <1>3, <1>4, <1>5 DEF CopyInv, SavedInv
<1> QED
    BY <1>2, <1>6 DEF Whole, Restored

\* Recovery, repatriation and the clients' own suspends and resumes only start
\* a guest from a copy that has everything its clients did, for all their
\* failures and interruptions (resume_vm in the drivers, op_resume): a sandbox
\* is never rolled back, unless a client had deleted it.
THEOREM NeverRolledBack == Spec => NoRollback
<1>1. ASSUME TypeOK, GuestsInv, CopiesInv, [Next]_vars, GuestsInv',
             NEW n \in Node, NEW s \in Sandbox,
             vm[n][s] # "running", vm'[n][s] = "running"
      PROVE  Restored(n, s) = "current" \/ snap[s] = "gone"
    <2>1. /\ VolumeInv /\ SandboxInv(s) /\ TruthInv(s) /\ CopyInv(s)
          /\ SandboxInv(s)'
        BY <1>1 DEF GuestsInv, CopiesInv
    <2>2. Started(n, s)
        BY <1>1, <2>1, GuestsStart
    <2> QED
        BY <1>1, <2>1, <2>2, ResumeRestores, RecoveryRestores, HandoffRestores
        DEF Started
<1>2. TypeOK /\ GuestsInv /\ CopiesInv /\ [Next]_vars =>
         [\A n \in Node, s \in Sandbox :
             vm[n][s] # "running" /\ vm'[n][s] = "running"
                 => Restored(n, s) = "current" \/ snap[s] = "gone"]_vars
    BY <1>1, GuestsStep
<1> QED
    BY <1>2, SpotTypeCorrect, GuestsStayTrue, CopiesStay, PTL
    DEF Spec, NoRollback
=============================================================================
