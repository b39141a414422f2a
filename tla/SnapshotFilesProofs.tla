------------------------ MODULE SnapshotFilesProofs ------------------------
(***************************************************************************)
(* The snapshot files keep the guest's memory, for any pages and contents. *)
(* NextDiffBuilds and SuspendedIsWhole are inductive only together: what   *)
(* one promises while the guest runs is what the other needs at a suspend, *)
(* and the other way round at a resume.                                    *)
(***************************************************************************)
EXTENDS SnapshotFiles, TLAPS

File == [Page -> Value \cup {Hole}]

\* Writing pages of the guest into a full image, or into a sparse file, gives
\* a file of the same kind.
LEMMA PutType ==
    ASSUME mem \in Memory, NEW pages
    PROVE  /\ \A f \in Memory : Put(pages, f) \in Memory
           /\ \A f \in File : Put(pages, f) \in File
    BY DEF Put, Memory, File

\* A diff merged over a full image is a full image: no hole is left.
LEMMA OverType ==
    ASSUME NEW d \in File, NEW b \in Memory
    PROVE  Over(d, b) \in Memory
    BY DEF Over, Memory, File

LEMMA ConstantFiles == Zeros \in Memory /\ Nothing \in File /\ Memory \subseteq File
    BY SnapshotAssumption DEF Zeros, Nothing, Memory, File

\* What a resume loads is a full image.
LEMMA LoadedType ==
    ASSUME TypeOK
    PROVE  Loaded \in Memory
    BY OverType, ConstantFiles DEF Loaded, TypeOK, File

\* A file without holes hides whatever it is merged over.
LEMMA WholeHides ==
    ASSUME NEW d \in File, Whole(d), NEW b \in Memory, NEW c \in Memory
    PROVE  Over(d, b) = Over(d, c)
    BY DEF Over, Whole

\* A full image is a file without holes, and merges to itself.
LEMMA ImageOver ==
    ASSUME NEW m \in Memory, NEW b
    PROVE  Over(m, b) = m /\ Whole(m)
    BY SnapshotAssumption DEF Over, Whole, Memory

LEMMA NothingOver ==
    ASSUME NEW b \in Memory
    PROVE  Over(Nothing, b) = b
    BY DEF Over, Nothing, Memory

-----------------------------------------------------------------------------
\* Every reachable state has its types: in particular no resume ever loads a
\* vm.mem whose clean pages are missing.
THEOREM TypeCorrect == Spec => []TypeOK
<1>1. Init => TypeOK
    BY ConstantFiles DEF Init, TypeOK, File
<1>2. TypeOK /\ [Next]_vars => TypeOK'
    <2> SUFFICES ASSUME TypeOK, [Next]_vars PROVE TypeOK'
        OBVIOUS
    <2> USE DEF TypeOK
    <2>1. CASE UNCHANGED vars
        BY <2>1 DEF vars
    <2>2. ASSUME NEW p \in Page, NEW v \in Value, Write(p, v) PROVE TypeOK'
        BY <2>2 DEF Write, Memory
    <2>3. CASE SnapshotBase
        BY <2>3 DEF SnapshotBase, Hidden
    <2>4. ASSUME NEW pages \in SUBSET Page, SnapshotBaseFails(pages) PROVE TypeOK'
        BY <2>4, PutType, ConstantFiles DEF SnapshotBaseFails, Hidden
    <2>5. CASE Checkpoint
        BY <2>5, PutType DEF Checkpoint, Hidden
    <2>6. CASE CheckpointFails
        BY <2>6 DEF CheckpointFails
    <2>7. CASE Publish
        BY <2>7 DEF Publish
    <2>8. CASE SuspendFull
        BY <2>8, ConstantFiles DEF SuspendFull, File
    <2>9. ASSUME NEW pages \in SUBSET Page, SuspendFullBreaks(pages) PROVE TypeOK'
        BY <2>9, PutType DEF SuspendFullBreaks, File
    <2>10. ASSUME NEW pages \in SUBSET Page, NEW copied \in BOOLEAN,
                  SuspendFullFails(copied, pages)
           PROVE TypeOK'
        BY <2>10, PutType, ConstantFiles DEF SuspendFullFails, File
    <2>11. \A clone \in BOOLEAN : \A pages :
               Put(pages, Target(clone)) \in [Page -> Value \cup {Hole}]
        BY PutType, ConstantFiles DEF Target, File
    <2>12. ASSUME NEW pages \in SUBSET Page, NEW clone \in BOOLEAN,
                  \/ SuspendDiff(clone, pages)
                  \/ SuspendDiffBreaks(clone, pages)
                  \/ SuspendDiffFails(clone, pages)
           PROVE TypeOK'
        <3>1. CASE SuspendDiff(clone, pages)
            BY <2>11, <3>1 DEF SuspendDiff
        <3>2. CASE SuspendDiffBreaks(clone, pages)
            BY <2>11, <3>2 DEF SuspendDiffBreaks
        <3>3. CASE SuspendDiffFails(clone, pages)
            BY <2>11, <3>3 DEF SuspendDiffFails
        <3> QED
            BY <2>12, <3>1, <3>2, <3>3
    <2>13. CASE Fetch
        BY <2>13 DEF Fetch
    <2>14. CASE Resume \/ ResumeUnregistered
        BY <2>14, LoadedType, ConstantFiles
        DEF Resume, ResumeUnregistered, Load, Promote, File
    <2>15. CASE ResumeUnpromoted \/ ResumeHalfPromoted
        BY <2>15, LoadedType, ConstantFiles
        DEF ResumeUnpromoted, ResumeHalfPromoted, Load, File
    <2> QED
        BY <2>1, <2>2, <2>3, <2>4, <2>5, <2>6, <2>7, <2>8, <2>9, <2>10, <2>12,
           <2>13, <2>14, <2>15
        DEF Next
<1> QED
    BY <1>1, <1>2, PTL DEF Spec

-----------------------------------------------------------------------------
IInv == TypeOK /\ NextDiffBuilds /\ SuspendedIsWhole

LEMMA InitIInv == Init => IInv
    <1> SUFFICES ASSUME Init PROVE NextDiffBuilds /\ SuspendedIsWhole /\ TypeOK
        BY DEF IInv
    <1>1. TypeOK
        BY ConstantFiles DEF Init, TypeOK, File
    <1>2. Over(diff, base) = mem
        BY NothingOver DEF Init
    <1> QED
        BY <1>1, <1>2 DEF Init, NextDiffBuilds, SuspendedIsWhole

\* No step takes back a lapse.
LEMMA LapseStays == [Next]_vars /\ ~lapse' => ~lapse
    BY DEF Next, vars, Write, SnapshotBase, SnapshotBaseFails, Checkpoint,
           CheckpointFails, Publish, SuspendFull, SuspendFullBreaks,
           SuspendFullFails, SuspendDiff, SuspendDiffBreaks, SuspendDiffFails,
           Fetch, Resume, ResumeUnpromoted, ResumeHalfPromoted,
           ResumeUnregistered

\* While the guest runs: the snapshots it is not stopped for.
LEMMA RunningSteps ==
    ASSUME IInv, ~lapse, ~lapse', state = "running", UNCHANGED <<mode, state>>
    PROVE  /\ (\E p \in Page, v \in Value : Write(p, v)) => NextDiffBuilds'
           /\ SnapshotBase => NextDiffBuilds'
           /\ (\E pages \in SUBSET Page : SnapshotBaseFails(pages))
                  => NextDiffBuilds'
           /\ Checkpoint => NextDiffBuilds'
           /\ CheckpointFails \/ Publish => NextDiffBuilds'
    <1> USE DEF IInv, TypeOK
    <1>1. ASSUME NEW p \in Page, NEW v \in Value, Write(p, v)
          PROVE NextDiffBuilds'
        BY <1>1 DEF Write, NextDiffBuilds, Over, Memory
    <1>2. CASE SnapshotBase
        <2>1. diff = Nothing /\ base' = mem /\ mem' = mem /\ diff' = diff
            BY <1>2 DEF SnapshotBase, Hidden
        <2>2. Over(diff', base') = mem'
            BY <2>1, NothingOver
        <2> QED
            BY <2>1, <2>2 DEF NextDiffBuilds, Over
    <1>3. ASSUME NEW pages \in SUBSET Page, SnapshotBaseFails(pages)
          PROVE NextDiffBuilds'
        <2>1. /\ diff = Nothing /\ diff' = diff /\ mem' = mem /\ dirty' = dirty
              /\ base' = Put(pages, Zeros)
              /\ \A p \in Page \ dirty : mem[p] = Zero
            BY <1>3 DEF SnapshotBaseFails, Hidden
        <2>2. \A p \in Page \ dirty : base'[p] = mem[p]
            BY <2>1 DEF Put, Zeros
        <2>3. Over(diff', base') = base'
            BY <2>1, NothingOver, PutType, ConstantFiles
        <2> QED
            BY <2>1, <2>2, <2>3 DEF NextDiffBuilds, Over
    <1>4. CASE Checkpoint
        <2>1. /\ diff = Nothing /\ diff' = diff /\ mem' = mem /\ hasBase
              /\ base' = Put(dirty, base)
            BY <1>4 DEF Checkpoint, Hidden
        <2>2. Over(diff, base) = base
            BY <2>1, NothingOver
        <2>3. \A p \in Page \ dirty : base[p] = mem[p]
            BY <2>1, <2>2 DEF NextDiffBuilds
        <2>4. \A p \in Page : base'[p] = mem[p]
            BY <2>1, <2>3 DEF Put
        <2>5. Over(diff', base') = base'
            BY <2>1, NothingOver, PutType
        <2> QED
            BY <2>1, <2>4, <2>5 DEF NextDiffBuilds, Over
    <1>5. CASE CheckpointFails
        BY <1>5 DEF CheckpointFails, NextDiffBuilds, Over
    <1>6. CASE Publish
        BY <1>6 DEF Publish, NextDiffBuilds, Over
    <1> QED
        BY <1>1, <1>2, <1>3, <1>4, <1>5, <1>6

\* Where a diff is written, the pages it leaves out are the guest's already.
LEMMA TargetBuilds ==
    ASSUME IInv, ~lapse, state = "running", hasBase, NEW pages,
           NEW clone \in BOOLEAN, clone => mode = "inplace"
    PROVE  /\ \A p \in Page \ dirty :
                  Over(Put(pages, Target(clone)), base)[p] = mem[p]
           /\ pages \in {dirty, Page} =>
                  Over(Put(pages, Target(clone)), base) = mem
           /\ clone => Whole(Put(pages, Target(clone)))
    <1> USE DEF IInv, TypeOK
    <1>1. \A p \in Page \ dirty : /\ Over(diff, base)[p] = mem[p]
                                  /\ clone => base[p] = mem[p]
        BY DEF NextDiffBuilds
    <1>2. \A p \in Page \ dirty : Over(Target(clone), base)[p] = mem[p]
        BY <1>1 DEF Target, Over
    <1>3. \A p \in Page :
              Over(Put(pages, Target(clone)), base)[p] =
                  IF p \in pages THEN mem[p] ELSE Over(Target(clone), base)[p]
        BY SnapshotAssumption DEF Over, Put, Memory
    <1>4. \A p \in Page \ dirty :
              Over(Put(pages, Target(clone)), base)[p] = mem[p]
        BY <1>2, <1>3
    <1>5. ASSUME pages \in {dirty, Page}
          PROVE Over(Put(pages, Target(clone)), base) = mem
        <2>1. \A p \in Page : Over(Put(pages, Target(clone)), base)[p] = mem[p]
            BY <1>2, <1>3, <1>5
        <2> QED
            BY <2>1 DEF Over, Memory
    <1>6. clone => Whole(Put(pages, Target(clone)))
        BY SnapshotAssumption DEF Whole, Put, Target, Memory
    <1> QED
        BY <1>4, <1>5, <1>6

\* A suspend that fails lets the guest go on with files the next one can use.
LEMMA FailedSuspends ==
    ASSUME IInv, ~lapse, ~lapse', NEW pages \in SUBSET Page
    PROVE  /\ SuspendFullBreaks(pages) => NextDiffBuilds'
           /\ \A copied \in BOOLEAN :
                  SuspendFullFails(copied, pages) => NextDiffBuilds'
           /\ \A clone \in BOOLEAN :
                  SuspendDiffBreaks(clone, pages) => NextDiffBuilds'
           /\ \A clone \in BOOLEAN :
                  SuspendDiffFails(clone, pages) => NextDiffBuilds'
    <1>0. state = "running" /\ hasBase /\ mode = "inplace" =>
              \A p \in Page \ dirty : base[p] = mem[p]
        BY DEF IInv, NextDiffBuilds
    <1>1. CASE SuspendFullBreaks(pages)
        BY <1>1 DEF IInv, TypeOK, SuspendFullBreaks, NextDiffBuilds
    <1>2. ASSUME NEW copied \in BOOLEAN, SuspendFullFails(copied, pages)
          PROVE NextDiffBuilds'
        <2>1. /\ diff' = mem /\ mem' = mem /\ mode' = mode /\ hasBase' = copied
              /\ mode = "inplace" /\ copied => base' = mem
            BY <1>2 DEF SuspendFullFails
        <2>2. Over(diff', base') = mem
            BY <2>1, ImageOver DEF IInv, TypeOK
        <2> QED
            BY <2>1, <2>2 DEF NextDiffBuilds, Over
    <1>3. ASSUME NEW clone \in BOOLEAN, SuspendDiffBreaks(clone, pages)
          PROVE NextDiffBuilds'
        <2>1. /\ state = "running" /\ hasBase
              /\ clone => mode = "inplace"
              /\ diff' = Put(pages, Target(clone))
              /\ UNCHANGED <<mode, mem, dirty, base>>
            BY <1>3 DEF SuspendDiffBreaks
        <2>2. \A p \in Page \ dirty : Over(diff', base)[p] = mem[p]
            BY <2>1, TargetBuilds
        <2>3. mode = "inplace" => \A p \in Page \ dirty : base[p] = mem[p]
            BY <1>0, <2>1
        <2> QED
            BY <2>1, <2>2, <2>3 DEF NextDiffBuilds, Over
    <1>4. ASSUME NEW clone \in BOOLEAN, SuspendDiffFails(clone, pages)
          PROVE NextDiffBuilds'
        <2>1. /\ state = "running" /\ hasBase
              /\ clone => mode = "inplace"
              /\ diff' = Put(pages, Target(clone)) /\ pages \in {dirty, Page}
              /\ UNCHANGED <<mode, mem, base>>
              /\ mode = "inplace" => dirty = {}
            BY <1>4 DEF SuspendDiffFails
        <2>2. Over(diff', base) = mem
            BY <2>1, TargetBuilds
        <2>3. mode = "inplace" => \A p \in Page : base[p] = mem[p]
            BY <1>0, <2>1
        <2> QED
            BY <2>1, <2>2, <2>3 DEF NextDiffBuilds, Over
    <1> QED
        BY <1>1, <1>2, <1>3, <1>4

\* A suspend that succeeds leaves the guest's memory to be loaded, and a
\* fetch from S3 does not change what that is.
LEMMA Suspends ==
    ASSUME IInv, ~lapse
    PROVE  /\ SuspendFull => SuspendedIsWhole'
           /\ \A pages \in SUBSET Page, clone \in BOOLEAN :
                  SuspendDiff(clone, pages) => SuspendedIsWhole'
           /\ Fetch => SuspendedIsWhole'
    <1> USE DEF IInv, TypeOK
    <1>1. CASE SuspendFull
        <2>1. /\ diff' = mem /\ base' = mem /\ mem' = mem
              /\ sealed' = TRUE /\ hasBase' = TRUE
            BY <1>1 DEF SuspendFull
        <2>2. Over(diff', base') = mem' /\ Over(diff', Zeros) = mem' /\ Whole(mem)
            BY <2>1, ImageOver
        <2>3. Loaded' = mem'
            BY <2>2 DEF Loaded, Over, Zeros
        <2>4. Whole(diff)'
            BY <2>1, <2>2 DEF Whole
        <2> QED
            BY <2>1, <2>3, <2>4 DEF SuspendedIsWhole
    <1>2. ASSUME NEW pages \in SUBSET Page, NEW clone \in BOOLEAN,
                 SuspendDiff(clone, pages)
          PROVE SuspendedIsWhole'
        <2>1. /\ state = "running" /\ hasBase
              /\ clone => mode = "inplace"
              /\ diff' = Put(pages, Target(clone)) /\ pages \in {dirty, Page}
              /\ UNCHANGED <<mem, base, hasBase>>
              /\ sealed' = TRUE /\ marker' = clone
            BY <1>2 DEF SuspendDiff
        <2>2. Over(diff', base) = mem /\ (clone => Whole(diff'))
            BY <2>1, TargetBuilds
        <2>3. diff' \in File
            BY <2>1, PutType, ConstantFiles DEF Target, File
        <2>4. clone => Over(diff', Zeros) = mem
            BY <2>2, <2>3, WholeHides, ConstantFiles
        <2>5. Loaded' = mem'
            BY <2>1, <2>2, <2>4 DEF Loaded, Merges, Over, Zeros
        <2> QED
            BY <2>1, <2>2, <2>5 DEF SuspendedIsWhole, Whole
    <1>3. CASE Fetch
        <2>1. /\ state = "suspended" /\ marker /\ marker' = FALSE
              /\ UNCHANGED <<mem, base, hasBase, diff, sealed>>
            BY <1>3 DEF Fetch
        <2>2. sealed /\ hasBase /\ Loaded = mem /\ Whole(diff)
            BY <2>1 DEF SuspendedIsWhole
        <2>3. Over(diff, Zeros) = mem
            BY <2>1, <2>2 DEF Loaded, Merges
        <2>4. Over(diff, base) = mem
            BY <2>2, <2>3, WholeHides, ConstantFiles DEF File
        <2>5. Loaded' = mem'
            BY <2>1, <2>2, <2>4 DEF Loaded, Merges, Over
        <2> QED
            BY <2>1, <2>2, <2>5 DEF SuspendedIsWhole
    <1> QED
        BY <1>1, <1>2, <1>3

\* The guest wakes with the memory it fell asleep with, and what it was loaded
\* from is the base of its next diff, promoted or not.
LEMMA Resumes ==
    ASSUME IInv, ~lapse'
    PROVE  /\ Resume => mem' = mem /\ NextDiffBuilds'
           /\ ResumeUnpromoted => mem' = mem /\ NextDiffBuilds'
           /\ ResumeHalfPromoted => mem' = mem /\ NextDiffBuilds'
    <1> USE DEF IInv, TypeOK
    <1>1. ASSUME state = "suspended", ~lapse
          PROVE Loaded = mem /\ hasBase /\ Over(diff, base) = Loaded
        <2>1. Loaded = mem /\ hasBase /\ (marker => Whole(diff))
            BY <1>1 DEF SuspendedIsWhole
        <2>2. CASE marker
            <3>1. Loaded = Over(diff, Zeros)
                BY <2>2 DEF Loaded, Merges
            <3>2. Over(diff, Zeros) = Over(diff, base)
                BY <2>1, <2>2, WholeHides, ConstantFiles DEF File
            <3> QED
                BY <2>1, <3>1, <3>2
        <2>3. CASE ~marker
            BY <2>1, <2>3 DEF Loaded, Merges
        <2> QED
            BY <2>1, <2>2, <2>3
    <1>2. CASE Resume
        <2>1. /\ state = "suspended" /\ ~lapse /\ mem' = Loaded
              /\ base' = Loaded /\ diff' = Nothing
            BY <1>2 DEF Resume, Load, Promote
        <2>2. Over(diff', base') = mem'
            BY <2>1, NothingOver, LoadedType
        <2>3. mem' = mem
            BY <1>1, <2>1
        <2> QED
            BY <2>1, <2>2, <2>3 DEF NextDiffBuilds, Over
    <1>3. CASE ResumeUnpromoted
        <2>1. /\ state = "suspended" /\ ~lapse /\ mem' = Loaded
              /\ UNCHANGED <<mode, base, diff>>
              /\ mode = "inplace" => base = Loaded
            BY <1>3 DEF ResumeUnpromoted, Load
        <2>2. mem' = mem /\ Over(diff, base) = mem'
            BY <1>1, <2>1
        <2> QED
            BY <2>1, <2>2 DEF NextDiffBuilds, Over
    <1>4. CASE ResumeHalfPromoted
        <2>1. /\ state = "suspended" /\ ~lapse /\ mem' = Loaded
              /\ base' = base /\ diff' = Nothing /\ base = Loaded
            BY <1>4 DEF ResumeHalfPromoted, Load
        <2>2. mem' = mem /\ Over(diff', base') = mem'
            BY <1>1, <2>1, NothingOver
        <2> QED
            BY <2>1, <2>2 DEF NextDiffBuilds, Over
    <1> QED
        BY <1>2, <1>3, <1>4

\* Every step keeps what its own state promises and says nothing of the other.
LEMMA StepIInv ==
    ASSUME IInv, [Next]_vars
    PROVE  NextDiffBuilds' /\ SuspendedIsWhole'
    <1> SUFFICES ASSUME ~lapse' PROVE NextDiffBuilds' /\ SuspendedIsWhole'
        BY DEF NextDiffBuilds, SuspendedIsWhole
    <1>0. ~lapse
        BY LapseStays
    <1>1. CASE UNCHANGED vars
        BY <1>1 DEF vars, IInv, NextDiffBuilds, SuspendedIsWhole, Over, Loaded,
                    Merges, Whole, Zeros
    <1>2. ASSUME state = "running", UNCHANGED <<mode, state>>, NextDiffBuilds'
          PROVE NextDiffBuilds' /\ SuspendedIsWhole'
        BY <1>2 DEF SuspendedIsWhole
    <1>3. ASSUME state' = "suspended", SuspendedIsWhole'
          PROVE NextDiffBuilds' /\ SuspendedIsWhole'
        BY <1>3 DEF NextDiffBuilds
    <1>4. ASSUME state' = "running", NextDiffBuilds'
          PROVE NextDiffBuilds' /\ SuspendedIsWhole'
        BY <1>4 DEF SuspendedIsWhole
    <1>5. CASE \E p \in Page, v \in Value : Write(p, v)
        BY <1>0, <1>4, <1>5, RunningSteps DEF Write
    <1>6. CASE SnapshotBase \/ Checkpoint \/ CheckpointFails \/ Publish
        <2>1. state = "running" /\ UNCHANGED <<mode, state>>
            BY <1>6 DEF SnapshotBase, Checkpoint, CheckpointFails, Publish
        <2> QED
            BY <1>0, <1>4, <1>6, <2>1, RunningSteps
    <1>7. ASSUME NEW pages \in SUBSET Page, SnapshotBaseFails(pages)
          PROVE NextDiffBuilds' /\ SuspendedIsWhole'
        BY <1>0, <1>4, <1>7, RunningSteps DEF SnapshotBaseFails
    <1>8. ASSUME NEW pages \in SUBSET Page,
                 \/ SuspendFullBreaks(pages)
                 \/ \E copied \in BOOLEAN : SuspendFullFails(copied, pages)
                 \/ \E clone \in BOOLEAN : SuspendDiffBreaks(clone, pages)
                 \/ \E clone \in BOOLEAN : SuspendDiffFails(clone, pages)
          PROVE NextDiffBuilds' /\ SuspendedIsWhole'
        <2>1. state' = "running"
            BY <1>8 DEF SuspendFullBreaks, SuspendFullFails,
                        SuspendDiffBreaks, SuspendDiffFails
        <2> QED
            BY <1>0, <1>4, <1>8, <2>1, FailedSuspends
    <1>9. CASE SuspendFull
        BY <1>0, <1>3, <1>9, Suspends DEF SuspendFull
    <1>10. ASSUME NEW pages \in SUBSET Page, NEW clone \in BOOLEAN,
                  SuspendDiff(clone, pages)
           PROVE NextDiffBuilds' /\ SuspendedIsWhole'
        BY <1>0, <1>3, <1>10, Suspends DEF SuspendDiff
    <1>11. CASE Fetch
        BY <1>0, <1>3, <1>11, Suspends DEF Fetch
    <1>12. CASE Resume \/ ResumeUnpromoted \/ ResumeHalfPromoted
        <2>1. state' = "running"
            BY <1>12 DEF Resume, ResumeUnpromoted, ResumeHalfPromoted
        <2> QED
            BY <1>4, <1>12, <2>1, Resumes
    <1>13. CASE ResumeUnregistered
        BY <1>13 DEF ResumeUnregistered
    <1> QED
        BY <1>1, <1>5, <1>6, <1>7, <1>8, <1>9, <1>10, <1>11, <1>12, <1>13
        DEF Next

\* Together the two properties are an invariant, whatever has failed so far
\* short of a lapse.
THEOREM FilesInvariant == Spec => []IInv
<1>1. Init => IInv
    BY InitIInv
<1>2. TypeOK /\ [Next]_vars /\ IInv => NextDiffBuilds' /\ SuspendedIsWhole'
    BY StepIInv
<1>3. IInv => TypeOK
    BY DEF IInv
<1>4. TypeOK' /\ NextDiffBuilds' /\ SuspendedIsWhole' => IInv'
    BY DEF IInv
<1> QED
    BY <1>1, <1>2, <1>3, <1>4, TypeCorrect, PTL DEF Spec

\* The next diff can leave out every page the bitmap does not list.
THEOREM DiffBuilds == Spec => []NextDiffBuilds
<1>1. IInv => NextDiffBuilds
    BY DEF IInv
<1> QED
    BY <1>1, FilesInvariant, PTL

\* A suspended sandbox can be resumed, and to the memory it was suspended with.
THEOREM SuspendedWhole == Spec => []SuspendedIsWhole
<1>1. IInv => SuspendedIsWhole
    BY DEF IInv
<1> QED
    BY <1>1, FilesInvariant, PTL

-----------------------------------------------------------------------------
\* Every step of the files is a step of the guest, or none it can see.
LEMMA GuestStep ==
    ASSUME IInv, [Next]_vars, TypeOK'
    PROVE  [Guest!Next]_(Guest!guestVars)
    <1> USE DEF Guest!Next, Guest!guestVars
    <1>1. CASE lapse'
        BY <1>1 DEF Guest!Void
    <1>2. CASE ~lapse'
        <2>1. ~lapse
            BY <1>2, LapseStays
        <2> USE <1>2, <2>1
        <2>2. CASE \E p \in Page, v \in Value : Write(p, v)
            BY <2>2 DEF Write, Guest!Write, TypeOK, Memory
        <2>3. ASSUME NEW pages \in SUBSET Page,
                     \/ SnapshotBase \/ Checkpoint \/ CheckpointFails
                     \/ Publish \/ SnapshotBaseFails(pages)
                     \/ SuspendFullBreaks(pages) \/ Fetch
                     \/ \E copied \in BOOLEAN : SuspendFullFails(copied, pages)
                     \/ \E clone \in BOOLEAN : SuspendDiffBreaks(clone, pages)
                     \/ \E clone \in BOOLEAN : SuspendDiffFails(clone, pages)
              PROVE  UNCHANGED Guest!guestVars
            <3>1. UNCHANGED <<state, mem>>
                BY <2>3 DEF SnapshotBase, Checkpoint, CheckpointFails, Publish,
                            SnapshotBaseFails, SuspendFullBreaks, Fetch,
                            SuspendFullFails, SuspendDiffBreaks,
                            SuspendDiffFails
            <3> QED
                BY <3>1
        <2>4. CASE \/ SuspendFull
                   \/ \E pages \in SUBSET Page, clone \in BOOLEAN :
                          SuspendDiff(clone, pages)
            BY <2>4 DEF SuspendFull, SuspendDiff, Guest!Sleep
        <2>5. CASE Resume \/ ResumeUnpromoted \/ ResumeHalfPromoted
            <3>1. mem' = mem
                BY <2>5, Resumes
            <3>2. state = "suspended" /\ state' = "running"
                BY <2>5 DEF Resume, ResumeUnpromoted, ResumeHalfPromoted, Load
            <3> QED
                BY <3>1, <3>2 DEF Guest!Wake
        <2>6. CASE ResumeUnregistered
            BY <2>6 DEF ResumeUnregistered
        <2>7. CASE UNCHANGED vars
            BY <2>7 DEF vars
        <2> QED
            BY <2>2, <2>3, <2>4, <2>5, <2>6, <2>7 DEF Next
    <1> QED
        BY <1>1, <1>2

\* Suspend and resume, in all their generations and with all their failures,
\* are those of a guest that sleeps and wakes with its memory.
THEOREM KeepsTheGuest == Spec => ImplementsGuestMemory
<1>1. Init => Guest!Init
    BY DEF Init, Guest!Init, Memory
<1>2. IInv /\ TypeOK' /\ [Next]_vars => [Guest!Next]_(Guest!guestVars)
    BY GuestStep
<1> QED
    BY <1>1, <1>2, FilesInvariant, TypeCorrect, PTL
    DEF Spec, ImplementsGuestMemory, Guest!Spec
=============================================================================
