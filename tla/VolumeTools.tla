----------------------------- MODULE VolumeTools -----------------------------
(***************************************************************************)
(* Data images on the build host: the tools that make them out of one      *)
(* another, one run at a time, and the kernel that boots one of them and   *)
(* logs to its audit journal.                                              *)
(*                                                                         *)
(* A tool reads its input whole, computes, and then writes.  A write can   *)
(* stop half-way (a full disk, a kill): the file is left with its head     *)
(* missing or with its first slots only.  The builder, the corruption      *)
(* tools, the benchmark fixture and the block-debug seed write in place;   *)
(* the package seed and the journal fixture write a temporary file and     *)
(* rename it.                                                              *)
(***************************************************************************)
EXTENDS VolumeBoot

CONSTANTS
    Volumes,        \* names of image files that tools take as input and output
    Programs,       \* builds of hello.zex handed to the builder
    SeedLists,      \* argument lists of zenovfs_package_seed: [path, data]
    Packages,       \* packages handed to zenpkg_blkdebug_seed
    TornAt,         \* numbers of payload slots an interrupted write leaves
    AuditEvents,    \* what the running kernel logs
    MaxRuns,        \* bound on runs of tools
    MaxBoots,       \* bound on boots
    CutAfter,       \* numbers of writes after which the power may fail in a boot
    MaxPowerCuts,   \* bound on boots the power does not last for
    MaxAppends      \* bound on records logged after boot

VARIABLES
    files,      \* image files that exist, by name: slots that are there, image, log
    job,        \* the tool that runs
    kernel,     \* the machine: the image file it runs on, its journal
    budget      \* what the bounds leave

vars == <<files, job, kernel, budget>>

Whole == TableSize      \* slots of a complete file
NoTable == -1           \* a file whose entry table is not complete

\* log: history, the audit events that reached this image, in order;
\* flipped: history, whether a tool damaged the journal that a boot would find;
\* mixed: history, whether a tool changed the image while a write of the kernel was unfinished.
File(slots, img) == [slots |-> slots, image |-> img, log |-> << >>, flipped |-> FALSE, mixed |-> FALSE]
Blank == File(NoTable, Refused)

Name(v) == <<v>>
SeedTmp(v) == <<v, "seed.tmp">>
FixtureTmp(v) == <<v, "tmp">>
Fixtures == <<<<"resume">>, <<"ready">>, <<"committed">>>>

IsWhole(n) == n \in DOMAIN files /\ files[n].slots = Whole

NoTool == [tool |-> "none", mode |-> "none", phase |-> "none", from |-> Blank, writes |-> << >>, tmp |-> << >>]
Off == [on |-> << >>, journal |-> initialize_empty, ready |-> FALSE]

\* The data image the build publishes: built, then seeded so that it boots.
Init ==
    /\ \E v \in Volumes, hello \in Programs, seeds \in SeedLists :
        /\ Boots(package_seed(build(hello), seeds))
        /\ files = Name(v) :> File(Whole, package_seed(build(hello), seeds))
    /\ job = NoTool
    /\ kernel = Off
    /\ budget = [runs |-> MaxRuns, boots |-> MaxBoots, cuts |-> MaxPowerCuts, appends |-> MaxAppends]

-----------------------------------------------------------------------------
(* Starting a tool.  A tool that refuses its input writes nothing.         *)

Store(n, f) == (n :> f) @@ files
Without(n) == [m \in DOMAIN files \ {n} |-> files[m]]

Start(tool, mode, tmp, from, writes) ==
    /\ job = NoTool /\ kernel = Off /\ budget.runs > 0
    /\ writes # << >>
    /\ \A k \in DOMAIN writes : writes[k].file.image # Refused
    /\ job' = [tool |-> tool, mode |-> mode, phase |-> "open", from |-> from, writes |-> writes, tmp |-> tmp]
    /\ budget' = [budget EXCEPT !.runs = @ - 1]
    /\ UNCHANGED <<files, kernel>>

Derived(f, img) == [f EXCEPT !.image = img, !.mixed = @ \/ Unfinished(f.image)]
Output(n, f, img) == <<[to |-> n, file |-> Derived(f, img)]>>

Build(v) ==
    \E hello \in Programs :
        Start("build", "place", << >>, Blank,
            <<[to |-> Name(v), file |-> File(Whole, build(hello))]>>)

\* Mutant: the image is written in place.
SeedInPlace(v) ==
    \E seeds \in SeedLists :
        /\ IsWhole(Name(v))
        /\ Start("seed", "place", << >>, files[Name(v)],
                 Output(Name(v), files[Name(v)], package_seed(files[Name(v)].image, seeds)))

Seed(v) ==
    \E seeds \in SeedLists :
        /\ IsWhole(Name(v))
        /\ Start("seed", "seed", SeedTmp(v), files[Name(v)],
                 Output(Name(v), files[Name(v)], package_seed(files[Name(v)].image, seeds)))

Benchmark(v, w) ==
    /\ IsWhole(Name(v))
    /\ Start("benchmark", "place", << >>, files[Name(v)],
             Output(Name(w), files[Name(v)], build_fixture(files[Name(v)].image)))

\* A file that is cut behind the slot in question is corrupted and copied as it is.
Corrupt(v, w) ==
    /\ Name(v) \in DOMAIN files /\ files[Name(v)].slots # NoTable
    /\ LET f == files[Name(v)]
       IN \/ Start("zmid", "place", << >>, f, Output(Name(w), f, zmid_corrupt(f.image, f.slots)))
          \/ Start("zcap", "place", << >>, f, Output(Name(w), f, zcap_corrupt(f.image, f.slots)))
          \/ Start("zrwp", "place", << >>, f, Output(Name(w), f, zrwp_corrupt(f.image, f.slots)))
          \/ \E mode \in {"manifest", "data"} :
                Start(mode, "place", << >>, f, Output(Name(w), f, zvrt_corrupt(f.image, mode, f.slots)))

\* On a volume whose replay was cut short the fixture backs up the damaged audit journal.
HotZmid(v, w) ==
    /\ IsWhole(Name(v))
    /\ Start("hot", "fixture", FixtureTmp(w), files[Name(v)],
             Output(Name(w), [files[Name(v)] EXCEPT !.flipped = @ \/ ImageRead(files[Name(v)].image, AuditPath).bad], make_hot_zmid(files[Name(v)].image)))

CorruptJournal(v, w) ==
    /\ IsWhole(Name(v))
    /\ Start("journal", "fixture", FixtureTmp(w), files[Name(v)],
             Output(Name(w), files[Name(v)], make_corrupt_journal(files[Name(v)].image)))

\* Whether the next mount finds a hot policy journal.
IsHot(img) == ImageRead(Recovered(img), PolicyJournalPath).kind = "zptj"

\* What is done to the journal before a hot policy journal is replayed, the replay undoes.
Tamper(v, w) ==
    /\ IsWhole(Name(v))
    /\ Start("tamper", "place", << >>, files[Name(v)],
             Output(Name(w), [files[Name(v)] EXCEPT !.flipped = ~IsHot(files[Name(v)].image)], emit_tampered(files[Name(v)].image)))

Blkdebug(v) ==
    \E package \in Packages :
        /\ IsWhole(Name(v))
        /\ LET images == blkdebug_seed(files[Name(v)].image, package)
           IN Start("blkdebug", "place", << >>, files[Name(v)],
                    [k \in DOMAIN images |-> [to |-> Fixtures[k], file |-> Derived(files[Name(v)], images[k])]])

-----------------------------------------------------------------------------
(* Writing *)

Target == Head(job.writes).to
Payload == Head(job.writes).file

\* The end of one output: the next one, or the end of the tool.
Written ==
    job' = IF Len(job.writes) > 1 THEN [job EXCEPT !.phase = "open", !.writes = Tail(@)] ELSE NoTool

\* std::ios::trunc
Open ==
    /\ job.phase = "open"
    /\ files' = Store(IF job.mode = "place" THEN Target ELSE job.tmp, Blank)
    /\ job' = [job EXCEPT !.phase = "fill"]
    /\ UNCHANGED <<kernel, budget>>

Fill ==
    /\ job.phase = "fill"
    /\ IF job.mode = "place"
       THEN files' = Store(Target, Payload) /\ Written
       ELSE files' = Store(job.tmp, Payload) /\ job' = [job EXCEPT !.phase = "rename"]
    /\ UNCHANGED <<kernel, budget>>

\* The tool stops between two steps, or its write fails half-way.  One that stops before it
\* opens its only output has done nothing.
Stop ==
    /\ job # NoTool
    /\ job.phase = "open" => job.tool = "blkdebug"
    /\ \/ UNCHANGED files
       \/ /\ job.phase = "fill"
          /\ \E k \in {s \in TornAt : s < Payload.slots} :
                files' = Store(IF job.mode = "place" THEN Target ELSE job.tmp, [Payload EXCEPT !.slots = k])
    /\ job' = NoTool
    /\ UNCHANGED <<kernel, budget>>

Rename ==
    /\ job.phase \in {"rename", "retry"}
    /\ files' = [n \in (DOMAIN files \ {job.tmp}) \cup {Target} |-> IF n = Target THEN files[job.tmp] ELSE files[n]]
    /\ Written
    /\ UNCHANGED <<kernel, budget>>

\* The target is removed and the rename tried once more.
RenameFails ==
    /\ job.phase = "rename"
    /\ files' = Without(Target)
    /\ job' = [job EXCEPT !.phase = "retry"]
    /\ UNCHANGED <<kernel, budget>>

\* write_binary_atomic also removes the temporary file; write_all of the seed keeps it.
RetryFails ==
    /\ job.phase = "retry"
    /\ files' = IF job.mode = "fixture" THEN Without(job.tmp) ELSE files
    /\ job' = NoTool
    /\ UNCHANGED <<kernel, budget>>

-----------------------------------------------------------------------------
(* The kernel.  A file that is not whole does not mount.                   *)

Running == kernel # Off

\* security_audit::journal as the boot leaves it is what the disk holds.
Booted(n, img) == [on |-> n, journal |-> ImageRead(img, AuditPath).journal, ready |-> TRUE]

\* power: the writes of the boot that reach the disk.
PowerOn(v) ==
    \E power \in CutAfter \cup {FullPower} :
        /\ job = NoTool /\ ~Running /\ budget.boots > 0
        /\ IsWhole(Name(v))
        /\ power < FullPower => budget.cuts > 0
        /\ LET f == files[Name(v)]
               m == Boot(f.image, power)
               img == OnDisk(m)
           IN /\ files' = Store(Name(v), [f EXCEPT !.image = img,
                                    !.log = IF BootLogged(f.image, power) THEN Append(@, BootEvent) ELSE @])
              /\ kernel' = IF m.ok THEN Booted(Name(v), img) ELSE Off
              /\ budget' = [budget EXCEPT !.boots = @ - 1, !.cuts = IF power < FullPower /\ ~m.ok THEN @ - 1 ELSE @]
            /\ UNCHANGED job

PowerOff ==
    /\ Running
    /\ kernel' = Off
    /\ UNCHANGED <<files, job, budget>>

Disk == files[kernel.on]

\* The metadata sectors a write of an existing file takes.
FileWrites == 4

\* security_audit::append, of whose sector writes the first ones reach the disk.  A write that
\* failed may have taken effect; the journal in memory goes back and is not used again.
Log(event) ==
    /\ Running /\ kernel.ready /\ budget.appends > 0
    /\ \E writes \in 0 .. FileWrites :
        LET before == Mounted(Disk.image, writes)
            room == kernel.journal.next_sequence # MaxSequence /\ Free(before) # {}
            grown == append_to(kernel.journal, event)
            m == IF room THEN write_file(before, AuditPath, AuditBytes(grown)) ELSE Panic(before)
        IN /\ files' = Store(kernel.on,
                [Disk EXCEPT !.image = OnDisk(m), !.log = IF room /\ writes >= CommitWrites THEN Append(@, event) ELSE @])
           /\ kernel' = IF m.ok THEN [kernel EXCEPT !.journal = grown] ELSE [kernel EXCEPT !.ready = FALSE]
    /\ budget' = [budget EXCEPT !.appends = @ - 1]
    /\ UNCHANGED job

-----------------------------------------------------------------------------

Next ==
    \/ \E v \in Volumes :
        \/ Build(v) \/ Seed(v) \/ Blkdebug(v) \/ PowerOn(v)
        \/ \E w \in Volumes :
            Benchmark(v, w) \/ Corrupt(v, w) \/ HotZmid(v, w) \/ CorruptJournal(v, w) \/ Tamper(v, w)
    \/ Open \/ Fill \/ Stop \/ Rename \/ RenameFails \/ RetryFails
    \/ PowerOff
    \/ \E event \in AuditEvents : Log(event)

Spec == Init /\ [][Next]_vars

-----------------------------------------------------------------------------
(* Properties *)

\* Whatever interrupts zenovfs_package_seed, and at whatever step (its write, either rename,
\* the removal of the old image between them), the old or the new image is complete on disk
\* under the volume's name or that of the temporary file.
SeedKeepsVolume ==
    [][job.tool = "seed" =>
        \E n \in DOMAIN files' \cap {Target, job.tmp} :
            files'[n].slots = Whole /\ files'[n].image \in {job.from.image, Payload.image}]_vars

\* Every complete image any chain of tools, boots, power failures and audit appends leads to
\* passes zenovfs_verify; one on which a file write was cut short between two of its sector
\* writes, or in the recovery of such a write, passes once the next mount has recovered it.
\* The exceptions: an image that a tool changed while a write was unfinished (the tools take
\* the table as it is: package_seed may give a new file the entry that recovery clears), and
\* block-debug fixtures made of a volume that was never seeded, which lack the parent
\* directory of their journal.
WholeVerifies ==
    \A n \in DOMAIN files : IsWhole(n) /\ ~files[n].mixed =>
        zenovfs_verify(Recovered(files[n].image)) \/ (Has(files[n].image, TransportState) /\ ~Has(files[n].image, <<"var">>))

\* The tool that runs has read its input and is about to write the next output.
Makes(tools) == job.tool \in tools /\ job.phase = "open"
From == job.from.image
To == Payload.image

SecurityFiles(img) ==
    {[path |-> img.entries[i].path, data |-> img.entries[i].data] :
        i \in {k \in DOMAIN img.entries : img.entries[k].path[1] = "security"}}

\* Two free entries (copy-on-write, a new repo.v1) and the four syncs a boot may need.
HasRoom(img) == Cardinality(Free(img)) >= 2 /\ img.generation + 4 <= MaxGeneration

\* An image made by seeding, the benchmark fixture, the block-debug seed or the hot-journal
\* fixture from one that boots also boots, if there is room on it, and the boot leads to the
\* same policies, versions and audit records: recovery takes the interrupted update back.
\* The exceptions: a hot-journal fixture made of a volume that already has a hot journal, and
\* what was made of a volume with an unfinished write.
BootsAlike ==
    /\ Makes({"seed", "benchmark", "blkdebug", "hot"})
    /\ Boots(From) /\ HasRoom(To) /\ ~Payload.mixed
    /\ ~(job.tool = "hot" /\ IsHot(From))
    =>
        /\ Boots(To)
        /\ SecurityFiles(Boot(To, FullPower)) = SecurityFiles(Boot(From, FullPower))

\* An image a corruption tool made of one that boots does not boot, although its checksums
\* are right.  The exceptions: a flipped malware policy or audit record on a volume with a hot
\* policy journal, whose replay replaces both files, and what was made of a volume with an
\* unfinished write, where the flipped entry may be the one that recovery clears.
CorruptionStops ==
    /\ Makes({"zmid", "zcap", "zrwp", "manifest", "journal", "tamper"})
    /\ Boots(From) /\ ~Payload.mixed
    /\ ~(job.tool \in {"zmid", "tamper"} /\ IsHot(From))
    => ~Boots(To)

\* The audit journal that the mount and the recovery of the policy journal lead to.
EffectiveAudit(img) ==
    IF IsHot(img) THEN ImageRead(Recovered(img), PolicyJournalPath).audit ELSE ImageRead(Recovered(img), AuditPath)

\* On every complete image, whatever interrupted the boots, updates and appends before, the
\* journal the next mount finds holds the last Capacity events that were logged, in order, and
\* the kernel and the host tools agree that it is genuine, or, if it was tampered with, that
\* it is not.  An append counts as logged from the commit of its file write on.  The
\* exception: an image that a tool changed while a write was unfinished.
AuditIsLog ==
    \A n \in DOMAIN files : IsWhole(n) /\ ~files[n].mixed =>
        LET c == EffectiveAudit(files[n].image)
            j == c.journal
            log == files[n].log
        IN /\ (~c.bad /\ verify(j)) = ~files[n].flipped
           /\ host_verify(j, FALSE) = verify(j)
           /\ ~files[n].flipped => Events(j) = SubSeq(log, IF Len(log) > Capacity THEN Len(log) - Capacity + 1 ELSE 1, Len(log))

=============================================================================
