--------------------------- MODULE SnapshotFiles ---------------------------
(***************************************************************************)
(* The generations of one sandbox's memory snapshot (node-agent/main.py):  *)
(* vm.mem.base is a full image, vm.mem the pages written since, and every  *)
(* resume promotes what it loaded to be the next base.  The files, the     *)
(* bitmap of dirty pages Firecracker keeps and the guest's memory have to  *)
(* fit together over any number of suspends, resumes, checkpoints and      *)
(* failures.                                                               *)
(*                                                                         *)
(* _vm_operation_lock serialises the operations on one sandbox, so each is *)
(* one action, with one more for the failures that leave the files or the  *)
(* bitmap changed.  Firecracker is external: a snapshot it completes       *)
(* empties the bitmap, and it writes into an existing vm.mem without       *)
(* truncating it.                                                          *)
(***************************************************************************)
EXTENDS Naturals

CONSTANTS
    Page,       \* the guest's pages
    Value,      \* what a page may hold
    Zero,       \* what an untouched page holds
    Hole        \* a page that a sparse file has no data for

ASSUME SnapshotAssumption == Zero \in Value /\ Hole \notin Value

VARIABLES
    mode,       \* SNAPSHOT_DIFF_MODE: "sparse" or "inplace"
    state,      \* the _VMS entry: "running" or "suspended"
    mem,        \* the guest's memory
    dirty,      \* the pages written since the bitmap was last emptied
    hasBase,    \* vm.mem.base exists
    base,       \* what vm.mem.base holds
    diff,       \* what vm.mem holds; nothing but holes when it is removed
    marker,     \* vm.mem.inplace exists: vm.mem is a full image
    sealed,     \* integrity.json fits the files
    lapse       \* a step was taken that loses track of pages: see each action

vars == <<mode, state, mem, dirty, hasBase, base, diff, marker, sealed, lapse>>

Memory == [Page -> Value]
Nothing == [p \in Page |-> Hole]

\* The file f after the guest's present content of some pages is written to it.
Put(pages, f) == [p \in Page |-> IF p \in pages THEN mem[p] ELSE f[p]]

\* _merge_diff_into_base: the data of d over b.
Over(d, b) == [p \in Page |-> IF d[p] = Hole THEN b[p] ELSE d[p]]

\* A file of which only some pages reached the disk.
Zeros == [p \in Page |-> Zero]

Whole(d) == \A p \in Page : d[p] # Hole

\* The memory a resume loads: vm.mem as it is, or merged into the base.
Merges == hasBase /\ ~marker
Loaded == IF Merges THEN Over(diff, base) ELSE Over(diff, Zeros)

Init ==
    /\ mode \in {"sparse", "inplace"}
    /\ state = "running"
    /\ mem \in Memory
    /\ dirty = {}
    /\ hasBase \in BOOLEAN
    \* Booted with untouched memory, or loaded from a template that is the base.
    /\ ~hasBase => mem = Zeros
    /\ base = mem
    /\ diff = Nothing
    /\ marker = FALSE
    /\ sealed = FALSE
    /\ lapse = FALSE

Write(p, v) ==
    /\ state = "running"
    /\ mem' = [mem EXCEPT ![p] = v]
    /\ dirty' = dirty \cup {p}
    /\ UNCHANGED <<mode, state, hasBase, base, diff, marker, sealed, lapse>>

-----------------------------------------------------------------------------
(* Snapshots of a guest that goes on running. *)

\* A base beneath an older vm.mem: the next sparse diff is written into that
\* file, and the pages it still holds hide newer ones of the base.
Hidden == diff # Nothing

SnapshotBase ==
    /\ state = "running" /\ ~hasBase
    /\ hasBase' = TRUE /\ base' = mem
    /\ dirty' = {}
    /\ sealed' = FALSE
    /\ lapse' = (lapse \/ Hidden)
    /\ UNCHANGED <<mode, state, mem, diff, marker>>

\* The Full breaks off.  What there is of the file counts as a base; that is
\* enough only if the bitmap still knows every page the guest has touched.
SnapshotBaseFails(pages) ==
    /\ state = "running" /\ ~hasBase
    /\ hasBase' = TRUE /\ base' = Put(pages, Zeros)
    /\ sealed' = FALSE
    /\ lapse' = (lapse \/ Hidden \/ \E p \in Page \ dirty : mem[p] # Zero)
    /\ UNCHANGED <<mode, state, mem, dirty, diff, marker>>

Checkpoint ==
    /\ state = "running" /\ hasBase
    /\ base' = Put(dirty, base)
    /\ dirty' = {}
    /\ sealed' = FALSE
    /\ lapse' = (lapse \/ Hidden)
    /\ UNCHANGED <<mode, state, mem, hasBase, diff, marker>>

\* The Diff is written to vm.mem.ckpt, which never replaces the base and is
\* removed by the next checkpoint.
CheckpointFails ==
    /\ state = "running" /\ hasBase
    /\ dirty' = {}
    /\ lapse' = (lapse \/ dirty # {})
    /\ UNCHANGED <<mode, state, mem, hasBase, base, diff, marker, sealed>>

\* The template's Full empties the bitmap, and no file of the sandbox has
\* the pages that were in it.
Publish ==
    /\ state = "running"
    /\ dirty' = {}
    /\ lapse' = (lapse \/ (hasBase /\ dirty # {}))
    /\ UNCHANGED <<mode, state, mem, hasBase, base, diff, marker, sealed>>

-----------------------------------------------------------------------------
(* op_suspend. *)

\* No base yet: a Full, kept as the base too.
SuspendFull ==
    /\ state = "running" /\ ~hasBase
    /\ state' = "suspended"
    /\ diff' = mem
    /\ hasBase' = TRUE /\ base' = mem
    /\ dirty' = {}
    /\ sealed' = TRUE
    /\ UNCHANGED <<mode, mem, marker, lapse>>

\* The Full breaks off, and the guest goes on.
SuspendFullBreaks(pages) ==
    /\ state = "running" /\ ~hasBase
    /\ diff' = Put(pages, diff)
    /\ sealed' = FALSE
    /\ UNCHANGED <<mode, state, mem, dirty, hasBase, base, marker, lapse>>

\* The Full is complete, then a cp, the manifest or its check fails and the
\* guest goes on.  An inplace diff will be written over that base.
SuspendFullFails(copied, pages) ==
    /\ state = "running" /\ ~hasBase
    /\ diff' = mem
    /\ dirty' = {}
    /\ hasBase' = copied
    /\ base' = IF copied THEN Put(pages, Zeros) ELSE base
    /\ sealed' = FALSE
    /\ lapse' = (lapse \/ (mode = "inplace" /\ copied /\ base' # mem))
    /\ UNCHANGED <<mode, state, mem, marker>>

\* Faulty: vm.mem is marked as whole and not cloned from the base.
NotCloned(clone) == diff

\* The file a diff is written into: a clone of the base, or vm.mem as it lies.
Target(clone) == IF clone THEN base ELSE diff

\* The pages written are the dirty ones, or all when Diff fails and Full does.
SuspendDiff(clone, pages) ==
    /\ state = "running" /\ hasBase
    /\ clone => mode = "inplace"
    /\ pages \in {dirty, Page}
    /\ state' = "suspended"
    /\ diff' = Put(pages, Target(clone))
    /\ marker' = clone
    /\ dirty' = {}
    /\ sealed' = TRUE
    /\ UNCHANGED <<mode, mem, hasBase, base, lapse>>

\* Neither Diff nor Full is completed; some pages have been written.
SuspendDiffBreaks(clone, pages) ==
    /\ state = "running" /\ hasBase
    /\ clone => mode = "inplace"
    /\ diff' = Put(pages, Target(clone))
    /\ marker' = clone
    /\ sealed' = FALSE
    /\ UNCHANGED <<mode, state, mem, dirty, hasBase, base, lapse>>

\* The snapshot is complete and the manifest is not.  The pages are in vm.mem
\* alone, which the next inplace suspend replaces by a clone of the base.
SuspendDiffFails(clone, pages) ==
    /\ state = "running" /\ hasBase
    /\ clone => mode = "inplace"
    /\ pages \in {dirty, Page}
    /\ diff' = Put(pages, Target(clone))
    /\ marker' = clone
    /\ dirty' = {}
    /\ sealed' = FALSE
    /\ lapse' = (lapse \/ (mode = "inplace" /\ dirty # {}))
    /\ UNCHANGED <<mode, state, mem, hasBase, base>>

-----------------------------------------------------------------------------
(* _op_resume_impl: verify, merge, load, promote. *)

\* Another host takes the files from S3, and the marker is not among them.
Fetch ==
    /\ state = "suspended" /\ marker
    /\ marker' = FALSE
    /\ UNCHANGED <<mode, state, mem, dirty, hasBase, base, diff, sealed, lapse>>

\* Faulty: vm.mem is loaded with its clean pages missing.
LoadSparse ==
    /\ state = "suspended" /\ sealed
    /\ mem' = diff
    /\ dirty' = {}

Load ==
    /\ state = "suspended" /\ sealed
    /\ mem' = Loaded
    /\ dirty' = {}

\* Faulty: vm.mem is removed and the base stays.
DropDiff ==
    /\ diff' = Nothing
    /\ marker' = FALSE
    /\ sealed' = FALSE
    /\ UNCHANGED <<hasBase, base>>

\* What was loaded becomes the base; unlinking the marker may fail.
Promote ==
    /\ hasBase' = TRUE /\ base' = Loaded
    /\ diff' = Nothing
    /\ IF marker THEN marker' \in BOOLEAN ELSE marker' = FALSE
    /\ sealed' = FALSE

\* Faulty: the base is loaded and vm.mem forgotten.
ResumeBase ==
    /\ state = "suspended" /\ sealed
    /\ state' = "running"
    /\ mem' = base /\ dirty' = {}
    /\ diff' = Nothing /\ marker' = FALSE /\ sealed' = FALSE
    /\ UNCHANGED <<mode, hasBase, base, lapse>>

Resume ==
    /\ Load /\ Promote
    /\ state' = "running"
    /\ UNCHANGED <<mode, lapse>>

\* The promotion fails at its first step, or the agent dies before it: the
\* guest runs and the files are those of the suspend.
ResumeUnpromoted ==
    /\ Load
    /\ state' = "running"
    /\ lapse' = (lapse \/ (mode = "inplace" /\ Loaded # base))
    /\ UNCHANGED <<mode, hasBase, base, diff, marker, sealed>>

\* vm.mem is removed, and the rename of the merged image fails.
ResumeHalfPromoted ==
    /\ Load /\ Merges
    /\ state' = "running"
    /\ diff' = Nothing
    /\ sealed' = FALSE
    /\ lapse' = (lapse \/ Loaded # base)
    /\ UNCHANGED <<mode, hasBase, base, marker>>

\* The metadata of the resumed VM cannot be written: it is stopped, after the
\* promotion took the files its snapshot consists of.
ResumeUnregistered ==
    /\ Load /\ Promote
    /\ lapse' = TRUE
    /\ UNCHANGED <<mode, state>>

Next ==
    \/ \E p \in Page, v \in Value : Write(p, v)
    \/ SnapshotBase \/ Checkpoint \/ CheckpointFails \/ Publish
    \/ SuspendFull \/ Fetch
    \/ \E pages \in SUBSET Page :
        \/ SnapshotBaseFails(pages) \/ SuspendFullBreaks(pages)
        \/ \E copied \in BOOLEAN : SuspendFullFails(copied, pages)
        \/ \E clone \in BOOLEAN :
            \/ SuspendDiff(clone, pages) \/ SuspendDiffBreaks(clone, pages)
            \/ SuspendDiffFails(clone, pages)
    \/ Resume \/ ResumeUnpromoted \/ ResumeHalfPromoted \/ ResumeUnregistered

Spec == Init /\ [][Next]_vars

-----------------------------------------------------------------------------
(* Properties. *)

\* Every value has its type.  Memory never holds what only a sparse file has:
\* a diff is never loaded with its clean pages missing.
TypeOK ==
    /\ mode \in {"sparse", "inplace"}
    /\ state \in {"running", "suspended"}
    /\ mem \in Memory
    /\ dirty \in SUBSET Page
    /\ base \in Memory
    /\ diff \in [Page -> Value \cup {Hole}]
    /\ {hasBase, marker, sealed, lapse} \subseteq BOOLEAN

\* A page the bitmap does not list can be taken from the files: whatever has
\* failed or been retried, the pages the next diff leaves out are the guest's.
NextDiffBuilds ==
    ~lapse /\ state = "running" /\ hasBase =>
        \A p \in Page \ dirty :
            /\ Over(diff, base)[p] = mem[p]
            /\ mode = "inplace" => base[p] = mem[p]

\* A suspended sandbox has a snapshot that passes its check and is the guest's
\* memory, in place or fetched from S3.
SuspendedIsWhole ==
    ~lapse /\ state = "suspended" =>
        /\ sealed /\ hasBase
        /\ Loaded = mem
        /\ marker => Whole(diff)

\* Suspend and resume keep the promise of GuestMemory.
Guest == INSTANCE GuestMemory WITH
    phase <- IF lapse THEN "void" ELSE state, memory <- mem

ImplementsGuestMemory == Guest!Spec
=============================================================================
