----------------------------- MODULE PackageCache -----------------------------
(***************************************************************************)
(* The package cache and its transport (kernel/parts/package_manager/      *)
(* cache.inc, transport_format.inc, transport_runtime.inc).  A signed      *)
(* target is copied in chunks from the offline source into a ".part"       *)
(* object; a journal on the volume says how far the copy is; the whole     *)
(* copy is renamed to ".zpk".  Each function of the code is an operator on  *)
(* the machine, run to its end or to the write at which the device gives   *)
(* up; a call whose predecessor in an && chain failed does nothing.        *)
(***************************************************************************)
EXTENDS Integers, Sequences, FiniteSets

CONSTANTS
    Targets,        \* the targets any release of the repository offers
    Name,           \* [Targets -> package names]
    Version,        \* [Targets -> Nat], in the order of compare_release
    Length,         \* [Targets -> chunks of the package], at least one
    Releases,       \* the releases of the repository: a sequence of sets of targets
    NoObject,       \* no file of that name
    NoJournal, BadJournal,
    MaxGeneration,  \* the last generation of the journal, 0xFFFFFFFF
    RetryLimit,     \* transport_retry_limit
    NoDatabase,     \* no database of installed packages
    Entries         \* entries of the volume's table that no other file takes

Offered(m) == Releases[m.disk.release]
Latest(m, n) == {t \in Offered(m) : Name[t] = n /\ \A u \in Offered(m) : Name[u] = n => Version[u] <= Version[t]}

Object(chunks) == [chunks |-> chunks, bad |-> FALSE]
Prefix(n) == [i \in 1..n |-> i]

\* The digest of a prefix stands for its length; a journal that adopted nothing has an all-zero digest.
ZeroDigest == -1

-----------------------------------------------------------------------------
(* The volume.  m.ok is the value of the call before, m.left the writes until the device fails, m.how *)
(* what the failing write leaves: the old store, the new one, or a new one reported as committed with *)
(* its clean-up pending.  A device failure unmounts the volume; a full table does not.                *)

Ok(m) == [m EXCEPT !.ok = TRUE]
Fail(m) == [m EXCEPT !.ok = FALSE]
Test(m, condition) == [m EXCEPT !.ok = @ /\ condition]

Update(m, disk, reported) ==
    IF ~m.ok \/ ~m.mounted THEN Fail(m)
    ELSE IF m.left # 1 THEN [m EXCEPT !.left = IF @ = 0 THEN 0 ELSE @ - 1, !.disk = disk]
    ELSE [m EXCEPT !.left = 0, !.mounted = FALSE, !.ok = reported, !.disk = IF m.how = "old" THEN @ ELSE disk]

\* The entries of the table that the package manager and the repository take.
Files(d) ==
    {<<kind, t>> \in {"part", "final", "payload"} \X Targets : d[kind][t] # NoObject}
    \cup {f \in {"journal"} : d.journal # NoJournal}
    \cup {f \in {"database"} : d.database # NoDatabase}
    \cup {f \in {"floor"} : d.floor # -1}
    \cup d.directories
Full(d) == Cardinality(Files(d)) >= Entries

\* replace_entry_result: the one table write of remove, rename and sync.
replace_entry(m, disk) == Update(m, disk, FALSE)

\* write_file stages even an update in a free entry; it is reported as done when the failure comes after
\* the commit.
write_file(m, disk) == IF m.mounted /\ Full(m.disk) THEN Fail(m) ELSE Update(m, disk, m.how = "pending")

make_directory(m, name) ==
    IF m.mounted /\ Full(m.disk) THEN Fail(m)
    ELSE replace_entry(m, [m.disk EXCEPT !.directories = @ \cup {name}])

sync_metadata(m) == replace_entry(m, m.disk)

-----------------------------------------------------------------------------
(* Verification of sources and cache objects *)

transport_load_verified_source(m, t) == m.mounted /\ t \in m.disk.sources

Whole(t) == Object(Prefix(Length[t]))
verified_target_file(m, object, t) == m.mounted /\ object = Whole(t)

\* A read of the partial object may go wrong without a device error: m.misreads says which reads do.
transport_partial_prefix_valid(m, t, n) ==
    LET source == transport_load_verified_source(m, t) /\ n <= Length[t]
        part == m.disk.part[t]
    IN IF ~m.ok \/ ~source THEN Fail(m)
       ELSE IF n = 0 THEN m
       ELSE [m EXCEPT !.reads = @ + 1, !.ok = part = Object(Prefix(n)) /\ m.reads + 1 \notin m.misreads]

-----------------------------------------------------------------------------
(* The journal *)

transport_journal_valid(j) ==
    /\ j.generation # 0
    /\ j.offset <= Length[j.target]
    /\ j.phase = "ready" => j.offset = Length[j.target]

Confirm(m, j) == IF m.ok THEN [m EXCEPT !.journal = j] ELSE m

Persist(m, next) ==
    IF transport_journal_valid(next)
    THEN Confirm(sync_metadata(write_file(m, [m.disk EXCEPT !.journal = next])), next)
    ELSE Fail(m)

transport_persist_journal(m, j) ==
    IF ~m.ok THEN m
    ELSE IF m.journal = NoJournal THEN Persist(m, [j EXCEPT !.generation = IF @ = 0 THEN 1 ELSE @])
    ELSE IF m.journal.generation = MaxGeneration THEN Fail(m)
    ELSE Persist(m, [j EXCEPT !.generation = m.journal.generation + 1])

transport_remove_journal(m) ==
    IF ~m.ok THEN m
    ELSE Confirm(IF m.mounted /\ m.disk.journal # NoJournal
                 THEN sync_metadata(replace_entry(m, [m.disk EXCEPT !.journal = NoJournal])) ELSE m, NoJournal)

transport_journal_target(m) == {t \in Offered(m) : m.journal # NoJournal /\ m.journal.target = t}

transport_remove_partial_for_target(m, t) ==
    IF ~m.mounted \/ m.disk.part[t] = NoObject THEN m
    ELSE sync_metadata(replace_entry(m, [m.disk EXCEPT !.part[t] = NoObject]))

transport_reset_target(m, t) == transport_remove_journal(transport_remove_partial_for_target(Ok(m), t))

Size(m, t) == IF m.mounted /\ m.disk.part[t] # NoObject THEN Len(m.disk.part[t].chunks) ELSE 0
PhaseAt(t, n) == IF n = Length[t] THEN "ready" ELSE "downloading"

\* Mutant: a journal that is behind its object is refused.
RefuseBehind(m, t, n) == Test(m, m.journal.offset = n)

Follow(m, t, n) ==
    IF ~m.ok \/ (n = Length[t] /\ ~verified_target_file(m, m.disk.part[t], t)) THEN Fail(m)
    ELSE IF m.journal.offset = n /\ m.journal.phase = PhaseAt(t, n) /\ m.journal.prefix = n THEN m
    ELSE transport_persist_journal(m,
             [m.journal EXCEPT !.offset = n, !.phase = PhaseAt(t, n), !.retries = 0, !.prefix = n])

\* The journal follows the object that is really there.
transport_reconcile_active(m, t) == Follow(transport_partial_prefix_valid(Ok(m), t, Size(m, t)), t, Size(m, t))

Begin(m, t, n, digest) ==
    transport_persist_journal(m, [target |-> t, offset |-> n, phase |-> PhaseAt(t, n), retries |-> 0,
                                  generation |-> 0, prefix |-> digest])

SourceChecked(m, t) == Test(m, transport_load_verified_source(m, t))

Adopt(m, t, n) ==
    IF m.ok THEN Begin(m, t, n, n)
    ELSE Begin(SourceChecked(transport_remove_partial_for_target(Ok(m), t), t), t, 0, ZeroDigest)

\* A valid partial object is adopted, another one removed.
transport_start_target(m, t) ==
    IF m.ok THEN Adopt(transport_partial_prefix_valid(m, t, Size(m, t)), t, Size(m, t)) ELSE m

\* Mutant: a transfer whose object does not match is not started over.
NoRestart(m, t) ==
    IF ~m.ok \/ m.journal.phase # "failed" THEN m
    ELSE transport_persist_journal(m, [m.journal EXCEPT !.phase = "downloading", !.retries = 0])

Resume(m, t) ==
    IF ~m.ok THEN transport_start_target(transport_reset_target(m, t), t)
    ELSE IF m.journal.phase # "failed" THEN m
    ELSE transport_persist_journal(m, [m.journal EXCEPT !.phase = "downloading", !.retries = 0])

\* Only one transfer is active: another target is refused until it is done or cancelled.
transport_prepare_target(m, t) ==
    IF m.journal = NoJournal THEN transport_start_target(m, t)
    ELSE IF m.journal.target # t THEN Fail(m)
    ELSE Resume(transport_reconcile_active(m, t), t)

Return(m, outcome) == [m EXCEPT !.outcome = outcome]

\* package_cache_write_partial: the first chunk replaces the object, a later one is appended to what is readable.
package_cache_write_partial(m, t, first, last) ==
    LET old == m.disk.part[t]
        chunks == [i \in 1..(last - first) |-> first + i]
        kept == IF first = 0 \/ old = NoObject THEN << >> ELSE old.chunks
    IN IF first # 0 /\ old # NoObject /\ old.bad THEN Fail(m)
       ELSE write_file(m, [m.disk EXCEPT !.part[t] = Object(kept \o chunks)])

FailedUnless(m) == IF m.ok THEN m ELSE Return(m, "failed")

WriteChunk(m, t, next) ==
    sync_metadata(package_cache_write_partial(Ok(m), t, m.journal.offset, next))
CheckChunk(m, t, next) == transport_partial_prefix_valid(Test(m, Size(m, t) = next), t, next)
CommitChunk(m, next) ==
    FailedUnless(transport_persist_journal(m,
        [m.journal EXCEPT !.offset = next, !.phase = "downloading", !.retries = 0, !.prefix = next]))
CountRetry(m, attempt) ==
    FailedUnless(transport_persist_journal(Ok(m), [m.journal EXCEPT !.retries = attempt]))

\* One chunk in at most RetryLimit attempts.  An outcome is an early return, ok says whether the chunk is in.
RECURSIVE Attempt(_, _, _)
RECURSIVE Judge(_, _, _, _)
Retry(m, t, attempt) ==
    IF m.outcome # "none" THEN m
    ELSE LET reconciled == transport_reconcile_active(m, t)
         IN IF reconciled.ok THEN Attempt(reconciled, t, attempt + 1) ELSE reconciled
Judge(m, t, next, attempt) ==
    IF m.ok THEN CommitChunk(m, next) ELSE Retry(CountRetry(m, attempt), t, attempt)
NextOffset(m, t) == IF m.journal.offset = Length[t] THEN Length[t] ELSE m.journal.offset + 1
Attempt(m, t, attempt) ==
    IF attempt > RetryLimit THEN Fail(m)
    ELSE IF ~transport_load_verified_source(m, t) THEN Return(m, "failed")
    ELSE Judge(CheckChunk(WriteChunk(m, t, NextOffset(m, t)), t, NextOffset(m, t)), t, NextOffset(m, t), attempt)

MarkFailed(m) == Return(transport_persist_journal(Ok(m), [m.journal EXCEPT !.phase = "failed"]), "failed")

MarkReady(m) == transport_persist_journal(Ok(m), [m.journal EXCEPT !.phase = "ready", !.retries = 0])

RECURSIVE Chunks(_, _, _)
Continue(m, t, budget) ==
    IF m.outcome # "none" THEN m
    ELSE IF ~m.ok THEN MarkFailed(m)
    ELSE Chunks(m, t, budget)
Chunks(m, t, budget) ==
    IF m.journal.offset = Length[t] \/ budget = 0 THEN m
    ELSE Continue(Attempt(m, t, 1), t, budget - 1)

CompleteIf(m) == Return(m, IF m.ok THEN "complete" ELSE "failed")

Finish(m, t) ==
    IF m.outcome # "none" THEN m
    ELSE IF m.journal.offset # Length[t] THEN Return(m, "pending")
    ELSE IF ~verified_target_file(m, m.disk.part[t], t) THEN MarkFailed(m)
    ELSE CompleteIf(MarkReady(m))

\* Mutant: a paused transfer is taken for a complete one.
PausedIsComplete(m, t, budget) ==
    IF ~m.ok THEN Return(m, "failed") ELSE Return(Chunks(m, t, budget), "complete")

Transfer(m, t, budget) ==
    IF ~m.ok THEN Return(m, "failed")
    ELSE IF m.journal.phase = "ready" THEN Return(m, "complete")
    ELSE Finish(Chunks(m, t, budget), t)

transport_transfer(m, t, budget) == Transfer(transport_prepare_target(m, t), t, budget)

transport_commit_finished(m, t) ==
    IF m.journal = NoJournal THEN m
    ELSE IF m.journal.target # t THEN Fail(m)
    ELSE transport_remove_journal(m)

transport_cancel(m) ==
    transport_remove_journal(
        IF transport_journal_target(m) = {} THEN Ok(m) ELSE transport_remove_partial_for_target(Ok(m), m.journal.target))

ResetUnless(m, t) == IF m.ok THEN m ELSE transport_reset_target(m, t)

Recover(m, target) ==
    IF target = {} \/ (\E t \in target : verified_target_file(m, m.disk.final[t], t)) THEN transport_remove_journal(m)
    ELSE LET t == CHOOSE u \in target : TRUE IN ResetUnless(transport_reconcile_active(m, t), t)

transport_initialize(m) ==
    IF ~m.mounted \/ m.disk.journal = NoJournal THEN m
    ELSE IF m.disk.journal = BadJournal THEN sync_metadata(replace_entry(m, [m.disk EXCEPT !.journal = NoJournal]))
    ELSE Recover([m EXCEPT !.journal = m.disk.journal], {t \in Offered(m) : t = m.disk.journal.target})

-----------------------------------------------------------------------------
(* The cache *)

RemoveFinal(m, t) == sync_metadata(replace_entry(m, [m.disk EXCEPT !.final[t] = NoObject]))

Rename(m, t) ==
    IF m.disk.part[t] = NoObject \/ m.disk.final[t] # NoObject THEN Fail(m)
    ELSE replace_entry(Ok(m), [m.disk EXCEPT !.part[t] = NoObject, !.final[t] = m.disk.part[t]])

Settle(m, t) ==
    IF m.ok /\ verified_target_file(m, m.disk.final[t], t) THEN CompleteIf(transport_commit_finished(m, t))
    ELSE Return(transport_reset_target(RemoveFinal(Ok(m), t), t), "failed")

CommitObject(m, t) == IF m.ok THEN Settle(sync_metadata(m), t) ELSE Return(m, "failed")

Deliver(m, t) == IF m.outcome = "complete" THEN CommitObject(Rename(m, t), t) ELSE m

Acquire(m, t, budget) ==
    IF m.ok THEN Deliver(transport_transfer(m, t, budget), t) ELSE Return(m, "failed")

fetch_target_budget(m, t, budget) ==
    IF verified_target_file(m, m.disk.final[t], t)
    THEN CompleteIf(IF m.journal # NoJournal /\ m.journal.target = t THEN transport_commit_finished(m, t) ELSE m)
    ELSE Acquire(IF m.mounted /\ m.disk.final[t] # NoObject THEN RemoveFinal(m, t) ELSE m, t, budget)

\* 0xFFFFFFFF chunks are more than a package has.
fetch_target(m, t) == fetch_target_budget(m, t, Length[t] + 1)

\* Every object of an offered target is whole or a prefix of its source; the journal follows its object.
ObjectsSound(m) ==
    \A t \in Offered(m) :
        /\ m.disk.final[t] \in {NoObject, Whole(t)}
        /\ m.disk.part[t] # NoObject =>
               /\ transport_load_verified_source(m, t)
               /\ m.disk.part[t] \in {Object(Prefix(n)) : n \in 0..Length[t]}

cache_verify(m) ==
    IF m.mounted /\ ~ObjectsSound(m) THEN Fail(m)
    ELSE IF m.journal = NoJournal THEN m
    ELSE IF transport_journal_target(m) = {} THEN Fail(m)
    ELSE transport_reconcile_active(m, m.journal.target)

\* The objects of the offered targets, each removed by one write; one sync at the end.
DropObject(m, kind, t) ==
    IF ~m.ok \/ ~m.mounted \/ m.disk[kind][t] = NoObject THEN m
    ELSE replace_entry(m, [m.disk EXCEPT ![kind][t] = NoObject])

RECURSIVE RemoveObjects(_, _)
RemoveObjects(m, ts) ==
    IF ts = {} THEN m
    ELSE LET t == CHOOSE u \in ts : TRUE
         IN RemoveObjects(DropObject(DropObject(m, "final", t), "part", t), ts \ {t})

SyncAfter(m, before) == IF m.disk = before THEN m ELSE sync_metadata(m)

CleanObjects(m) == SyncAfter(RemoveObjects(m, Offered(m)), m.disk)

cache_clean(m) == CleanObjects(IF m.journal # NoJournal THEN transport_cancel(m) ELSE m)
=============================================================================
