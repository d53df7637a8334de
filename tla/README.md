# Verification of Zenov OS

TLA+ models of the parts of Zenov OS whose correctness depends on the order of events:
power loss, failed sector accesses, interrupts, calls of several tasks, commands that
are cut off, and files that change while a tool reads them. TLC checks small instances
of the models; TLAPS proves the main results about policy updates for every instance.
Paths below are relative to the repository; `parts/` stands for `src/kernel/parts/`,
`tools/` for `src/tools/`.

## The system

Zenov OS is a 32-bit kernel with one address space per task, its own file system,
a chain of signed security policies kept in files, and a package manager. Host tools
build its data volume and its packages.

| Part | Code | State | Hard behaviour |
|---|---|---|---|
| ZenovFS1 | `parts/storage_zenovfs_core.inc`, `storage_zenovfs_io.inc`, `storage_tools.inc` | entry table and payload slots on the medium, their mirror in memory, superblock generation | power loss and failed sectors between the writes of one update, and inside recovery |
| Block devices | `parts/storage_ata_*.inc`, `storage_live_image.inc` | device registers, deadlines, sector overlay | timeout and retry of a write that may have happened; overlay capacity |
| Task lifecycle | `parts/scheduler.inc`, `process_lifecycle.inc`, `process_handles.inc` | task slots, process objects, handle tables, pending stack wipes | parent, child and waiters end in any order; slots and objects are reused |
| Scheduler policy | `parts/scheduler_policy.inc`, `scheduler.inc` | priorities, wait and wake ticks, quantum | starvation, the wrapping tick counter |
| Policy transactions (ZPTJ1) | `parts/security_policy_transaction.inc`, `zgdb_policy_transactional.inc`, `zmid_policy_transactional.inc`, `zcap_policy.inc` | journal, policy, version and audit files; `ready`, `active_policy_version`, `busy` | several files change together across power loss and device failure |
| Audit journal (ZGAL1) | `parts/security_audit.inc`, `tools/zenov_audit_format.hpp` | hash-chained ring of records with two anchors | wrap of the ring, failed append, replay of an older copy |
| Boot | `src/kernel/kernel.cpp` | the volume, stage by stage | every stage may stop the boot or the power may fail in it |
| Packages and repository | `parts/package_manager/`, `package_repository/` | database, payloads, cache, transfer journal, anti-rollback floor | interrupted commands, transfers resumed after failures, damage and new releases |
| Package format | `tools/zenpkg/`, `parts/package_format.inc`, `package_foreign_format.inc`, `process.inc` | none: containers, manifests, executables | the host builds what the kernel must accept and load |
| Catalog | `tools/zenuniverse/` | descriptors, artifact files, outputs | choice of providers, files that change under the hash |
| Data images | `tools/zenovfs_*.cpp`, `zenpkg_blkdebug_seed.cpp` | image files | interrupted writes and renames; chains of tools and boots |

How they interact: a program runs as a *task* that the *scheduler policy* selects and
the *lifecycle* code creates and reaps. Its file calls go through the *guard* to
*ZenovFS*, which reaches the medium through a *block device*. The guard decides by the
*policies*, whose updates are journalled in files on ZenovFS and recorded in the
*audit journal*. At *boot* ZenovFS is mounted and recovered, the policy journal is
replayed, each domain is initialised, the guard logs the boot, then the *repository*
and the *package manager* start. The *image tools* make the volume that is booted;
*zenpkg* makes the packages that the manager verifies and the loader runs.

## Modules

| Module | Models | State | Actions |
|---|---|---|---|
| `AtomicFileStore` | what ZenovFS promises its callers | a map from paths to contents, the update in progress, the reported result | open, take effect, close, whole update, interruption |
| `ZenovFS` | ZenovFS1 down to single sector writes | table, payloads and generation on the medium and in memory, the running call | one per call up to its first write, then one per sector write, with success and failure; recovery; power loss |
| `ProcessLifecycle` | tasks, process objects and handles | `tasks[]`, `objects[]`, `generations[]`, mapped slots, stacks to wipe | one per trap of the running task, handled to the end |
| `Scheduler` | priorities, aging, quanta, sleeping | task states and counters, `timer_ticks` | timer interrupt of user mode and of a system call, yield, sleep, wait, spawn, exit, end of the batch, entering and leaving a call that waits in the kernel |
| `PolicyJournal` | updates of signed policies under ZPTJ1, and boot | policy, version, audit and journal files; readiness and active versions in memory | one per file write with its readback or metadata sync, and the decisions between |
| `PolicyJournal_proofs` | theorems about `PolicyJournal` | | |
| `BlockStore` | what a block device promises ZenovFS | sectors, the open request, failed writes in limbo | begin, take effect, end, fail, interruption |
| `AtaDriver` | the ATA driver and, as an external part, the disk | publication (`ata_present`, `ata_sector_total`, `ata0`), stage and attempt of a request, deadline; the disk's status, command, cache and medium | one per poll of `ata2_wait` that ends it, with what the code does up to the next wait; timer tick; the disk's own steps; power loss |
| `LiveImage` | the live medium, from the host tool that packs an image to the sectors the kernel serves | image, pack and stream; the workspace, overlay map, slots and count of the kernel | pack, compress, initialise, request, refuse, read, write, return |
| `Lzss` | compressor of the host tool, decoder of the kernel | operators | |
| `AuditFormat` | the audit ring: append, anchors, verification | operators | |
| `VolumeImage` | a data image and what each image tool makes of it | operators | |
| `VolumeBoot` | `kernel_main` on a data image | operators, one per stage | |
| `VolumeTools` | runs of the image tools, boots and audit appends | image files, the running tool, the running kernel and what it has logged | one per tool up to its write, then open, fill, stop, rename and its failures; power on, power off, log |
| `PackageCache` | cache objects and resumable transfers | operators on (disk, memory, faults ahead) | |
| `PackageManager` | the package manager: database, payloads, commands | `disk`, `memory`, bounds | boot, install, upgrade, remove, rollback, repair, fetch, cancel, clean, verify, with a device fault at any write or misreads; power off; damage; a new release |
| `NativeExec` | executables: what the host accepts, what `load_zex` and `load_elf32` map | operators | |
| `ZenPkg` | manifests and containers on host and kernel | operators | |
| `ForeignFormat` | the classifier of foreign formats | operators | |
| `ZenPkgTool` | the commands of `zenpkg` | files, the running command, its outcome | one per size query, read, chunk, decision, write, rename and read-back; another program's rewrite; kill |
| `Universe` | descriptors, validation, choice of providers, plans | operators | |
| `UniverseTool` | the commands of `zenuniverse` | catalog directory, artifact inodes, outputs, the running command, its report | one per load, hash step, decision, write and rename; edit of the artifact; kill |

The modules whose names begin with `MC` give TLC the constants; `MCHostTools` runs
`UniverseTool` and `ZenPkgTool` side by side, which share no file. Every definition
that models code is in the `map` of `PROJECT.json` with the lines it stands for.
Definitions whose comment begins "Mutant" are variants with a plausible error in them;
each shows that a property can fail.

### How the modules fit together

`ZenovFS` refines `AtomicFileStore`: the abstract store is read off the medium alone,
as what it would present after recovery (`DurableStore`), and the abstract goal is the
content of the running write. `PolicyJournal`, `VolumeBoot` and `PackageManager` use
files the way `AtomicFileStore` describes them: a write takes effect entirely or not at
all, a refused write leaves the old content, and a failed one leaves either and
unmounts the volume. That step between the modules is by reading, not by an instance.
`AtaDriver` and `LiveImage` both refine `BlockStore`. For the disk, the abstract store
is the medium and limbo is what the disk holds and has not written (its cache and a
transfer in flight). ZenovFS decides at once whether a failed write took effect, where
`BlockStore` lets it happen later; that is enough because the failure unmounts the
volume until the next boot. This step, too, is by reading. `Scheduler` and
`ProcessLifecycle` split `scheduler.inc`: the first leaves out objects and handles, the
second leaves open which ready task runs next. `VolumeTools` composes `VolumeImage`,
`VolumeBoot` and `AuditFormat`; `ZenPkgTool` composes `ZenPkg`, `ForeignFormat` and
`NativeExec`, so that what the tool packs is loaded by the kernel's loader in one model.

### Abstractions

- ZenovFS: a payload is a sequence of whole sectors; size and FNV-1a checksum of an
  entry are the payload they stand for, so collisions are left out. A table sector
  holds one entry instead of eight; the code rewrites the other seven with what it
  has just read. A sector write is atomic, and one that fails may or may not have
  reached the medium. Calls that return before they touch state are not steps.
- ProcessLifecycle: a PID is the key of its object; status contents and error codes
  are left out. A trap runs with interrupts off and is one step. Generations start
  over at `MaxGeneration`, as the 16-bit counter does.
- Scheduler: a wait is for the exit of one task; a slot whose task has ended is free.
  `blocked` stands for a system call that waits in ring 0 (`console_read` for a line, a
  file call for the disk): there the timer interrupt counts the tick and returns
  (`scheduler.inc:331`), nobody is woken and nobody is preempted until the call returns.
- AtaDriver: the error bits are four classes (fault and abort can be retried, `bad` and
  `gone` cannot). The disk raises BSY before the next status read, ignores commands
  while BSY is up, and keeps its cache over a soft reset. Time passes only in waits,
  and a wait reads the clock at least once a tick. Diagnostic counters are left out.
- LiveImage, Lzss: a field of pack header or row takes two bytes; magic and reserved
  field are left out. The checksum is abstracted: a damaged pack is one it does not
  catch. Chunk lengths above 16 bits, which the tool refuses, are left out. The tool
  also refuses a stream that is not shorter than its pack; the model lets the kernel
  decode those streams too.
- PolicyJournal: a signed object is its version number. Candidates that are not the
  validly signed successor are rejected before any change and so are not steps. The
  audit file is the number of its records. Rejection of an unreadable file at boot
  unmounts, as every failed read of ZenovFS does.
- Volumes: the content of a file is its kind, version, size in quarters of a slot, and
  whether a bit is flipped; digests and signatures are injective. One file stands for
  those that are treated alike. The audit hash is the chain of records itself. The
  package manager, whose initialisation cannot stop a boot, is left out of `VolumeBoot`.
  The kernel replaces a file in four writes (staging entry, commit, clearing of the old
  entry, finalisation); the payload is written with the staging entry, and the power may
  fail after any of them. `mount` recovers what it finds in that state.
- Packages: a target is a name with a version; a digest of a partial copy is its
  length. A command is one step that takes the place of the first write that fails and
  of what that write leaves (old, new, or new with clean-up pending). A write needs a
  free entry of the table, an update too, and is refused without one while the volume
  stays mounted; the directories of the cache take entries as files do. The release of
  the repository is replaced by the package seed between two boots. Left out: the
  guard's scan of payloads, audit records, the end of the superblock generation.
  `pkg upgrade` and `pkg repair` without a name loop over the forms with a name, and
  `pkg repo refresh` rewrites the same floor.
- Containers and executables: a file is a sequence of units; header, manifest line,
  signature or byte. A SHA-256 digest is a token of what was digested. Character
  classes of names and versions are membership in constant sets.
- Catalog: an id is its prefix and its last component, a version its numeric parts and
  the rank of its text. Text and JSON layout are left out. Every write to a file gets a
  time stamp of its own, so a change inside one tick of the file system clock is seen.

## Runs

| Run | Shows |
|---|---|
| `zenovfs` | With a power loss or a failed sector access between any two steps, in recovery too: an update is old or new and reported truthfully (`AtomicUpdates`); the mirror in memory is the table on the medium whenever a call uses it (`MirrorExact`); recovery never clears another file's entry (`OldIndexIsPredecessor`). |
| `zenovfs_root` | Violation: rename accepts `/` as its destination (see Findings). |
| `lifecycle` | Whatever the order of spawn, exit, fault, waits and closes, with slots reused at once under the same generation: reference counts are exact and handles resolve (`RefsExact`), signalled objects are reclaimed (`Reclaimed`), no wakeup is lost (`NoLostWakeup`), an object's task slot is its own and pages are those of live tasks (`SlotsLinked`), no stack is wiped under a live task (`ScrubSafe`). |
| `lifecycle_fault` | Violation: the fault of the last ready task ends sleeping and waiting tasks too. |
| `scheduler` | A ready task is passed over at most `TaskCount - 1` times (`BoundedBypass`); sleepers are not early across the wrap of the counter, whether or not ticks passed in the kernel (`NotEarly`); unless system calls wait in the kernel for ever or again and again, every sleeper and every ready task runs, or the batch ends (`NoStarvation`). |
| `policy` | With a power loss or a storage failure at every step: every boot finds policies at least as new as their version files (`Bootable`); between updates a ready domain's memory and files agree (`ReadyMeansWhole`); nothing is enforced that a power loss takes back (`EnforcedIsDurable`); generations are neither lost nor skipped (`GenerationSteps`); until the superblock generation runs out there is one audit record per durable generation (`AuditExact`) and an unresolved transaction has lost its volume (`HotJournalIsolated`); updates and boots end (`UpdateEnds`). The superblock generation runs out at any sync. |
| `ata` | Whatever the disk does, with power loss at every point: success of a write means the sector is on the medium and no earlier failed write can overtake it, a read returns the sector, nothing else changes (`ImplementsStore`); no command addresses a sector the disk does not have, even when a reset changed its size (`CommandsInRange`); timeouts are exact across the wrap of the counter (`TimeoutExact`); with interrupts on every request ends although the disk owes nothing (`RequestEnds`). |
| `ata_syscall` | Violation: with interrupts off a wait on a busy disk does not end (see Findings). |
| `live` | Every image the tool packs and compresses is accepted and decodes to itself (`BuiltPacksLoad`); a damaged stream is refused or fills the workspace exactly (`DamageContained`); from any initial memory, reading and writing any accepted pack, through the binary search over its chunks and the overlay, is a block store (`ImplementsStore`). |
| `host_tools` | Catalog: a plan reported ready can be carried out in its order (`ReadyPlanClosed`); it does not depend on file names (`PlanIndependentOfNames`); a recorded digest is of bytes the artifact held at one time (`DigestOfOneContent`). Packages: whatever is accepted has the one canonical form (`VerifiedIsCanonical`); an imported program is the one validated, the kernel verifies it and loads every segment in place (`ImportedRuns`); the bounded sample of `probe` sees what the whole file would show (`ProbeExact`). |
| `volume` | Over chains of tools, boots, power cuts between the writes of a file, and appends: an interrupted seed loses no volume (`SeedKeepsVolume`); every complete image verifies once a mount has recovered it (`WholeVerifies`); fixtures boot to the same policies and records (`BootsAlike`); corruptions stop the boot (`CorruptionStops`); the audit ring is the tail of what was logged, and kernel and host agree on whether it is genuine (`AuditIsLog`). |
| `packages` | With a device failure at any write, a table that fills up, misreads, damage, power cuts and a new release: cache objects are whole copies and partial ones prefixes (`ObjectsAreCopies`); the manager starts again after any cut if the table has room for what the boot stores (`StartsAgain`); transferred chunks are kept (`ProgressKept`); a fetch asked for often enough completes (`FetchCompletes`). |

### Bounds

- `zenovfs`: three entries, payloads of up to two sectors, a directory and a file in
  it. Three entries are a directory, a file and the staging entry of its replacement,
  so the full table happens too. Two sectors give a payload that is half written.
  One sector value suffices because an unwritten sector is `Garbage`. One superblock
  generation is enough to reach its end. `zenovfs_root` uses a smaller table.
- `lifecycle`: three tasks, four objects, one handle per task: parent, child and a third
  task, the handle table full, and an object retained only by a handle. One generation:
  every reuse of an object slot has the key of its predecessor, as after 65535 reuses,
  so a stale key always resolves. `lifecycle_fault` uses two.
- `scheduler`: three tasks, two priorities, a tick counter modulo 4 and sleeps
  of one and two ticks keep the liveness graph small; deadlines wrap, also between the
  call and the tick that ends it. Any number of ticks may pass in a call that waits in
  the kernel.
- `policy`: the three domains of the kernel, seed version 2 so that a version file may
  lag behind, terminal version 4 so that an update at the end is refused, two audit
  records of other events.
- `ata`: two sectors and two values, so that a late write to the same or another sector
  shows; capacities of none, one and both sectors; timeouts of one and two ticks on a
  counter modulo 5. `ata_syscall` uses one sector.
- `live`: bytes of two bits keep the ratios of the code: two items per flag byte, a
  window of 8, matches of 3 or 4, two candidates per chain and four hash slots, so that
  chains are cut and hashes collide. Three sectors of two bytes and two overlay slots,
  overwritten with sectors that differ from each other and from what most packs hold.
  Every image of six bytes over three values, whose packs are longer than the window;
  damaged packs of up to three rows, unordered, overlapping, empty and overlong ones
  included; damaged streams of up to 5 bytes.
- `host_tools`: catalogs of up to five files with ties, circular requirements and
  unavailable providers on two hosts, artifacts of two chunks edited once, two commands
  in a row; containers of up to 20 units, executables around the boundaries of page and
  stack, files of up to 9 units against a sample of 3 and a trailer of 2, PE headers
  before, across and behind the end of the sample, fat Mach-O headers with no, one and
  too many architectures, one rewrite
  by another program.
- `volume`: a table of 41 entries, which the builder's tree and two fixtures nearly
  fill; a ring of two records that wraps after the boots and two appends, one image,
  two tool runs, two boots, one power cut after 1, 2, 3, 10 or 15 metadata
  writes of a boot, so that it falls between the writes of the first file and of later
  ones, and one after any number of the writes of an append; one point at which a tool's write tears.
- `packages`: three versions of one package and one that depends on the first and is
  withdrawn by the second release; one of the versions takes two chunks. Three tries per
  chunk as in the code. One device failure at the first, second, third, fifth, seventh
  or ninth write of a command, one damaged file, one release, four commands besides
  fetches; a journal whose generation ends at 5; nine entries of the table, so that it
  can be full and can be emptied again.

`lifecycle`, `lifecycle_fault`, `host_tools`, `volume` and `packages` may stop (a batch
is over, the bound on runs is reached, a machine has nothing to do), so their
configurations do not check for deadlock; all others do.

### Fairness

- `Scheduler`: weak fairness of the timer interrupt of user mode. The PIT is programmed
  to fire periodically and user code runs with interrupts enabled. Nothing is assumed of
  a system call that waits in the kernel: its end depends on a key or on the disk.
- `PolicyJournal`: weak fairness of the running function. An update and a boot run to
  their end in the kernel and are never suspended. Nothing is assumed of new updates,
  other events, the device or the power.
- `AtaDriver`: weak fairness of the driver, which polls without being suspended, and of
  the timer interrupt, which happens only while interrupts are on. None of the disk.
- `PackageManager`: of the person at the machine. A machine that lost its volume is
  turned off and on again, and a transfer that can be continued is asked for again
  without a device failure. The last is strong fairness, as requests may alternate with
  failures. Both are written out with `BootEnabled` and `StepEnabled` instead of
  `ENABLED`: the commands are functions of the state, and TLC would evaluate them once
  for every conjunct.

## Findings

Three statements in the repository differ from what the code does; a run of each
shows it.

1. `rename_entry_result` (`parts/storage_zenovfs_io.inc:324`) does not refuse `/` as
   the destination, which `write_file_result` does. The stored path is then refused
   by `valid_stored_path` (`parts/storage_tools.inc:54`), so fsck reports a corrupt
   volume after legal calls only.
2. `docs/SCHEDULER_0.1.1.md:49` says a task fault terminates only that task. When no
   other task is ready the batch ends, and sleeping and waiting tasks with it.
3. `storage_ata_deadline_init.inc:33` announces timeouts of 3000 and 5000 ms on the PIT
   clock. System calls enter through an interrupt gate (`parts/hardware.inc:34`) and the
   file calls do not enable interrupts, so `timer_ticks` stands still there and
   `ata2_wait` on a disk that stays busy never reaches its deadline.

Met while modelling and not shown by a run of their own:

- `runtime_provider` (`tools/zenuniverse/resolver.hpp:16`) takes the newest descriptor of
  the runtime's id, planned or not, while a plan that is ready uses an available provider
  of the capability. `runtime-status` and `launch-plan` (`main.cpp:225`, `:278`) then name a
  planned provider next to a plan that is ready;
  `docs/ZENUNIVERSE_REPOSITORY_0.1.1.md:45` says planned providers "cannot be reported
  as runnable".
- `import-native` removes its output when the payload read back differs, but not when the
  file read back does not parse (`tools/zenpkg/foreign_probe.hpp:218`), as when another
  program has rewritten it; `tests/zenpkg_foreign_test.sh:231` expects no file after a
  rejection.
- `docs/SCHEDULER_0.1.1.md:43` says sleep blocks until the requested deadline. The
  signed comparison of `wake_sleepers` takes a deadline more than 2^31 ticks ahead for
  a past one and wakes the task at the next tick.
- `docs/NATIVE_PACKAGE_MANAGER_0.1.1.md` says a failed database commit leaves the prior
  version selected. A commit whose last sector write is reported as failed may have
  reached the medium; after the reboot the new version is selected.

Limits rather than disagreements, where properties above carry an exception:

- At the last superblock generation every metadata sync is refused while the volume
  stays mounted. A rollback whose sync is refused leaves a hot journal on a usable
  volume, and audit records made afterwards are undone by its replay. `AuditExact` and
  `HotJournalIsolated` therefore hold until a sync has been refused (`spent`).
- A transfer of a version that is still offered but no longer the latest holds the one
  transfer journal; every other fetch is BUSY until it is cancelled (`Superseded`).
- A misread when a transfer is resumed, or a journal at its last generation, discards
  the progress. A version withdrawn from the repository while it is installed keeps the
  manager from starting. Removal, rollback and upgrade do not look at dependents.
- A hot journal undoes a flipped bit in the files it replaces. A hot-journal fixture
  made of a volume whose journal is hot saves the files as they are, not as replayed.
  Block-debug fixtures of an unseeded volume lack `/var`. A seed that fills the table
  verifies but does not boot.
- A write that finds the table full is refused, also one that replaces a file: it is
  staged in a free entry first. The journal of a transfer cannot follow its object then,
  and a resume removes the chunks that were transferred; a boot that cannot store the
  state of the repository panics, one that cannot create a directory of the cache does
  not start the manager.
  `StartsAgain`, `ProgressKept` and `FetchCompletes` except a full table.
- Tools do not know the state of an unfinished kernel write and read both entries of the
  file. An image that a tool changed before a boot recovered it (`mixed`) may lose the
  file the tool added or verify no more; the properties of `volume` except such images.
- `probe` does not see a PE header beyond the head sample of 64 KiB, and may take bytes of
  the tail for one.
- The batch ends under every other task, sleeping and waiting ones included, when the
  audit record of a denied call cannot be stored (`DeniedUnaudited`).
- A task that waits for a key in `console_read` keeps the processor: no other task of the
  batch runs until a line has been typed.

## Proofs

`PolicyJournal_proofs` proves, for every set of domains, every seed and terminal
version, any number of audit records, and whether or not the superblock generation runs
out (`DomainsAssumption`, `VersionAssumption`: at most one domain has an audit file, the
seed version is positive and not past the terminal one):

| Theorem | Statement |
|---|---|
| `Invariance` | `Spec => []IInv` |
| `TypeCorrect` | `Spec => []TypeOK` |
| `AlwaysBootable` | `Spec => []Bootable` |
| `ReadyIsWhole` | `Spec => []ReadyMeansWhole` |
| `EnforcedDurable` | `Spec => []EnforcedIsDurable` |
| `GenerationsStep` | `Spec => GenerationSteps` |
| `JournalIsolated` | `Spec => []HotJournalIsolated` |
| `AuditIsExact` | `Spec => []AuditExact` |

The properties speak of the moment after a power loss or between updates and are not
inductive. `IInv` adds what holds in between, in three parts besides the types:
`Control` (which mode each step can be in, and that the domain being updated is ready,
below its terminal version, and holds the journal), `JournalSound` (at which steps the
journal is hot, and that it then holds the generation the domain still enforces), and
`FilesSound` (which generation policy and version file hold at each step). The central
step is `clear_journal`: before it a power loss restores the old generation from the
journal, after it the files themselves are found, so both must be right at that step
whether it clears a commit, a rollback, a discarded preparation or a replay at boot.

`JournalIsolated` adds `Isolated`: until a sync has been refused, a failed transaction
with a hot journal has an unmounted volume. Its steps assume that the sync they take
was not refused; `SpentStays` shows that a step that ends with `~spent` began with it.
`AuditIsExact` adds `AuditSound`, which relates the audit file to its copy in the
journal at each step, and uses `Isolated` to show that no other event is recorded while
the copy could still be replayed.

Only model-checked: liveness (`UpdateEnds`, `NoStarvation`, `RequestEnds`,
`FetchCompletes`), which is out of the prover's reach; the refinements of
`AtomicFileStore` and `BlockStore`; the properties of `ZenovFS`, `ProcessLifecycle`,
`Scheduler` and `AtaDriver`; and those of `LiveImage`, the volumes, the packages and
the host tools, whose operators fold or recurse over sequences, which would need
induction over data.

## Not modelled

- **ZRWP**: its budgets per window, and the update of its policy and version file, which
  goes without the journal. A power loss between the two restores of a failed update
  leaves a volume that its initialisation rejects; the initialisation is modelled.
- **Quarantine and restore** of `security_guard.inc`, and content inspection: their
  steps depend on scans of bytes, sequential transformations that a model would only
  repeat.
- **Memory**: frame bitmap and heap. Every call runs to its end with interrupts off;
  there is no order of events to explore.
- **TPM** transport: a handshake with a device the code does not describe.
- **Keyboard and mouse** rings, rendering, console, shell, start-up assembly.
- **Applications**: single-threaded editors; each save is one update of `AtomicFileStore`.
- **Cryptography** and the bodies of signed formats: taken as injective and unforgeable.
- **Other host tools** (builders and verifiers of policies, FAT12 and boot images,
  compilers, `zenrepo`): they map one file of bytes to another or to yes or no.
- Linux i386 personality, capability masks, lists and reports of the package manager.

Proofs about `ZenovFS` (`MirrorExact`, then the refinement), `Scheduler`
(`BoundedBypass`, `NotEarly`), `ProcessLifecycle` (`SlotsLinked`, `RefsExact`) and
`AtaDriver` (`CommandsInRange`) are the next ones worth having.
