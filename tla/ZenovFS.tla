------------------------------- MODULE ZenovFS -------------------------------
(***************************************************************************)
(* The ZenovFS1 file system of the kernel (kernel/parts/storage_zenovfs_*  *)
(* and storage_tools.inc): a table of EntryCount entries, each owning one  *)
(* payload slot of SlotSectors sectors, mirrored in memory.  Files are     *)
(* replaced copy-on-write through a staging entry; recovery runs at mount, *)
(* in sync and in fsck.                                                    *)
(*                                                                         *)
(* One step is one sector write, or a sector read that fails.  A sector    *)
(* write is atomic; one that reports a failure may or may not have reached *)
(* the medium (a payload sector may also be left as Garbage).  Power can   *)
(* fail between any two steps.                                             *)
(*                                                                         *)
(* Abstractions: a payload is a sequence of whole sectors; size and fnv1a  *)
(* checksum of an entry are the payload they stand for (no collisions);    *)
(* one entry per table sector (the code rewrites the other seven entries   *)
(* of the sector with what it has just read).  Calls that return before    *)
(* touching state are not steps.                                           *)
(***************************************************************************)
EXTENDS Integers, Sequences

CONSTANTS
    EntryCount,     \* zfs_super.entry_count
    SlotSectors,    \* zfs_super.slot_sectors
    Paths,          \* normalised paths: sequences of names, <<>> is "/"
    Sectors,        \* values a payload sector can hold
    Garbage,        \* a payload sector no completed write produced
    NoPath,         \* the empty path of a cleared entry
    MaxGeneration   \* 0xFFFFFFFF, the last superblock generation

Root == << >>

ASSUME EntryCountAssumption == EntryCount \in Nat \ {0}
ASSUME SlotSectorsAssumption == SlotSectors \in Nat \ {0}
ASSUME PathsAssumption == Root \in Paths /\ Paths \subseteq Seq(STRING) /\ NoPath \notin Paths
ASSUME SectorsAssumption == Garbage \notin Sectors
ASSUME GenerationAssumption == MaxGeneration \in Nat

VARIABLES
    entries,        \* medium: entry table
    data,           \* medium: payload slots
    generation,     \* medium: superblock generation
    zfsEntries,     \* memory: zfs_entries
    zfsGeneration,  \* memory: zfs_super.generation
    mounted,        \* memory: zfs_mounted
    pc,             \* what the running call does next
    pos,            \* sectors this call has written so far
    tx,             \* the write in progress
    result          \* what the last write, mkdir, rename or remove returned

disk == <<entries, data, generation>>
memory == <<zfsEntries, zfsGeneration, mounted>>
vars == <<entries, data, generation, zfsEntries, zfsGeneration, mounted,
          pc, pos, tx, result>>

-----------------------------------------------------------------------------
(* Data *)

Slots == 0 .. (EntryCount - 1)

\* 0xFFFFFFFF in the code: any index outside the table.
TransactionNone == EntryCount

Contents == UNION {[1 .. n -> Sectors] : n \in 0 .. SlotSectors}

EntryTypes == {"free", "file", "directory", "transaction"}

Entry == [type      : EntryTypes,
          committed : BOOLEAN,
          path      : Paths \cup {NoPath},
          content   : Contents,
          reserved  : 0 .. EntryCount]

Empty == [type |-> "free", committed |-> FALSE, path |-> NoPath,
          content |-> << >>, reserved |-> 0]

NoTx == [slot |-> 0, old |-> 0, path |-> Root, content |-> << >>]

\* The staging entry of a write, its committed form, and its final form.
Staged(t) == [type |-> "transaction", committed |-> FALSE, path |-> t.path,
              content |-> t.content, reserved |-> t.old]

Committed(t) == [Staged(t) EXCEPT !.type = "file", !.committed = TRUE]

\* Mutant: only the old index is reset.
KeepsCommitFlag(e) == [e EXCEPT !.reserved = 0]

Finalized(e) == [e EXCEPT !.committed = FALSE, !.reserved = 0]

-----------------------------------------------------------------------------
(* Lookups in the memory mirror *)

Parent(p) == SubSeq(p, 1, Len(p) - 1)

Below(d, p) == Len(d) < Len(p) /\ SubSeq(p, 1, Len(d)) = d

Visible(i) == zfsEntries[i].type \in {"file", "directory"}

HasEntry(p) == \E i \in Slots : Visible(i) /\ zfsEntries[i].path = p

\* find_entry: the first visible entry with the path.
FindEntry(p) ==
    CHOOSE i \in Slots :
        /\ Visible(i)
        /\ zfsEntries[i].path = p
        /\ \A j \in Slots : Visible(j) /\ zfsEntries[j].path = p => i <= j

\* free_entry: unused slots other than the excluded one; the code takes the first.
FreeSlots(excluded) == {i \in Slots \ {excluded} : zfsEntries[i].type = "free"}

FreeEntry(excluded) ==
    CHOOSE i \in FreeSlots(excluded) : \A j \in FreeSlots(excluded) : i <= j

IsDirectory(p) == HasEntry(p) /\ zfsEntries[FindEntry(p)].type = "directory"

IsFile(p) == HasEntry(p) /\ zfsEntries[FindEntry(p)].type = "file"

ParentExists(p) == p = Root \/ Parent(p) = Root \/ IsDirectory(Parent(p))

HasChildren(p) == \E i \in Slots : Visible(i) /\ Below(p, zfsEntries[i].path)

\* The payload on the medium is the one the entry's checksum was taken of.
Matches(e, slotData) == \A k \in 1 .. Len(e.content) : slotData[k] = e.content[k]

\* read_file_result succeeds (the sectors being readable).
Readable(p) == IsFile(p) /\ Matches(zfsEntries[FindEntry(p)], data[FindEntry(p)])

-----------------------------------------------------------------------------
Init ==
    /\ entries = [i \in Slots |-> Empty]
    /\ data = [i \in Slots |-> [k \in 1 .. SlotSectors |-> Garbage]]
    /\ generation = 0
    /\ zfsEntries = [i \in Slots |-> Empty]
    /\ zfsGeneration = 0
    /\ mounted = FALSE
    /\ pc = "off"
    /\ pos = 0
    /\ tx = NoTx
    /\ result = "none"

Idle == pc = "idle" /\ mounted

Return(r) == pc' = "idle" /\ pos' = 0 /\ tx' = NoTx /\ result' = r

\* Mutant: a failed access is only reported.
KeepsMount(r) ==
    /\ Return(r)
    /\ UNCHANGED <<mounted, zfsEntries, zfsGeneration, generation>>

\* zfs_block_failure: any failed sector access unmounts; the call returns.
BlockFailure(r) ==
    /\ mounted' = FALSE
    /\ Return(r)
    /\ UNCHANGED <<zfsEntries, zfsGeneration, generation>>

\* replace_entry_result, success: memory and medium both take the new entry.
Replace(i, e) ==
    /\ zfsEntries' = [zfsEntries EXCEPT ![i] = e]
    /\ entries' = [entries EXCEPT ![i] = e]
    /\ UNCHANGED <<data, generation, zfsGeneration, mounted>>

\* replace_entry_result, failure: memory is put back, the medium may have changed.
ReplaceFails(i, e, r) ==
    /\ entries' \in {entries, [entries EXCEPT ![i] = e]}
    /\ UNCHANGED data
    /\ BlockFailure(r)

-----------------------------------------------------------------------------
(* write_file_result *)

\* The old entry of a write, excluded from staging; none for a new file.
OldEntry(p) == IF HasEntry(p) THEN FindEntry(p) ELSE TransactionNone

Stage(p, total) ==
    /\ Idle
    /\ p # Root
    /\ ParentExists(p)
    /\ HasEntry(p) => IsFile(p)
    /\ FreeSlots(OldEntry(p)) # {}
    /\ pc' = "data"
    /\ pos' = 0
    /\ tx' = [slot |-> FreeEntry(OldEntry(p)), old |-> OldEntry(p),
              path |-> p, content |-> total]
    /\ result' = "none"
    /\ UNCHANGED <<disk, memory>>

\* Checks and choice of the staging slot, up to the first sector write; the
\* whole new payload has to fit in a slot.
StartWrite(p, total) == total \in Contents /\ Stage(p, total)

Write(p, c) == StartWrite(p, c)

\* append to a non-empty file reads and verifies the old payload first; append
\* to a missing file is Write.
Append_(p, c) ==
    /\ IsFile(p)
    /\ zfsEntries[FindEntry(p)].content # << >> => Readable(p)
    /\ StartWrite(p, zfsEntries[FindEntry(p)].content \o c)

Touch(p) == ~HasEntry(p) /\ StartWrite(p, << >>)

Copy(p, q) == Readable(p) /\ StartWrite(q, zfsEntries[FindEntry(p)].content)

WriteData ==
    /\ pc = "data"
    /\ pos < Len(tx.content)
    /\ data' = [data EXCEPT ![tx.slot][pos + 1] = tx.content[pos + 1]]
    /\ pos' = pos + 1
    /\ UNCHANGED <<entries, generation, memory, pc, tx, result>>

WriteDataFails ==
    /\ pc = "data"
    /\ pos < Len(tx.content)
    /\ \E v \in {data[tx.slot][pos + 1], tx.content[pos + 1], Garbage} :
           data' = [data EXCEPT ![tx.slot][pos + 1] = v]
    /\ UNCHANGED entries
    /\ BlockFailure("failed")

WriteStage ==
    /\ pc = "data"
    /\ pos = Len(tx.content)
    /\ \/ /\ Replace(tx.slot, Staged(tx))
          /\ pc' = "commit"
          /\ UNCHANGED <<pos, tx, result>>
       \/ ReplaceFails(tx.slot, Staged(tx), "failed")

\* Mutant: a failed commit is reported as pending recovery.
CommitPending ==
    pc = "commit" /\ ReplaceFails(tx.slot, Committed(tx), "recovery_pending")

WriteCommit ==
    /\ pc = "commit"
    /\ \/ /\ Replace(tx.slot, Committed(tx))
          /\ pc' = IF tx.old \in Slots THEN "clear" ELSE "finalize"
          /\ UNCHANGED <<pos, tx, result>>
       \/ ReplaceFails(tx.slot, Committed(tx), "failed")

WriteClearOld ==
    /\ pc = "clear"
    /\ \/ /\ Replace(tx.old, Empty)
          /\ pc' = "finalize"
          /\ UNCHANGED <<pos, tx, result>>
       \/ ReplaceFails(tx.old, Empty, "recovery_pending")

WriteFinalize ==
    /\ pc = "finalize"
    /\ \/ Replace(tx.slot, Finalized(Committed(tx))) /\ Return("ok")
       \/ ReplaceFails(tx.slot, Finalized(Committed(tx)), "recovery_pending")

-----------------------------------------------------------------------------
(* Operations of one sector write *)

ReplaceOnce(i, e) ==
    \/ Replace(i, e) /\ Return("ok")
    \/ ReplaceFails(i, e, "failed")

MakeDirectory(p) ==
    /\ Idle
    /\ p # Root
    /\ ~HasEntry(p)
    /\ ParentExists(p)
    /\ FreeSlots(TransactionNone) # {}
    /\ ReplaceOnce(FreeEntry(TransactionNone),
                   [Empty EXCEPT !.type = "directory", !.path = p])

Remove(p) ==
    /\ Idle
    /\ p # Root
    /\ HasEntry(p)
    /\ IsDirectory(p) => ~HasChildren(p)
    /\ ReplaceOnce(FindEntry(p), Empty)

\* guarded_rename_entry_result: allow_persistent_transfer reads the source, so
\* only readable files get as far as rename_entry_result.
Rename(p, q) ==
    /\ Idle
    /\ Readable(p)
    /\ p # Root
    /\ ~HasEntry(q)
    /\ ParentExists(q)
    /\ IsDirectory(p) => ~HasChildren(p)
    /\ ReplaceOnce(FindEntry(p), [zfsEntries[FindEntry(p)] EXCEPT !.path = q])

\* A sector read fails in read_file_result, copy, append, fsck or flush_entry.
ReadFails ==
    /\ Idle
    /\ \E i \in Slots : Visible(i)
    /\ UNCHANGED <<entries, data>>
    /\ BlockFailure("none")

-----------------------------------------------------------------------------
(* recover_transactions_result, called from mount, sync and fsck *)

Recovering == pc \in {"recover_mount", "recover_sync", "recover_fsck"}

StagedSlots == {i \in Slots : zfsEntries[i].type = "transaction"}

CommittedSlots ==
    {i \in Slots : zfsEntries[i].type = "file" /\ zfsEntries[i].committed}

First(S) == CHOOSE i \in S : \A j \in S : i <= j

\* The table entry recovery rewrites next, and its new value.
RecoveryTarget ==
    IF StagedSlots # {} THEN First(StagedSlots)
    ELSE LET i == First(CommittedSlots)
             old == zfsEntries[i].reserved
         IN  IF old \in Slots /\ old # i /\ zfsEntries[old].type # "free"
             THEN old ELSE i

RecoveryEntry ==
    IF StagedSlots = {} /\ RecoveryTarget = First(CommittedSlots)
    THEN Finalized(zfsEntries[RecoveryTarget])
    ELSE Empty

Recover ==
    /\ Recovering
    /\ StagedSlots # {} \/ CommittedSlots # {}
    /\ \/ /\ Replace(RecoveryTarget, RecoveryEntry)
          /\ UNCHANGED <<pc, pos, tx, result>>
       \/ ReplaceFails(RecoveryTarget, RecoveryEntry, "none")

Recovered == Recovering /\ StagedSlots = {} /\ CommittedSlots = {}

-----------------------------------------------------------------------------
(* mount_result, sync_metadata_result, check_integrity_result *)

\* Superblock and entry table are read; a failed read leaves the volume unmounted.
Boot ==
    /\ pc = "off"
    /\ pos' = 0
    /\ tx' = NoTx
    /\ result' = "none"
    /\ mounted' = FALSE
    /\ zfsGeneration' = generation
    /\ \/ zfsEntries' = entries /\ pc' = "recover_mount"
       \/ zfsEntries' = [i \in Slots |-> Empty] /\ pc' = "idle"
    /\ UNCHANGED disk

MountDone ==
    /\ pc = "recover_mount"
    /\ Recovered
    /\ mounted' = TRUE
    /\ Return("none")
    /\ UNCHANGED <<disk, zfsEntries, zfsGeneration>>

Sync ==
    /\ Idle
    /\ pc' = "recover_sync"
    /\ result' = "none"
    /\ UNCHANGED <<disk, memory, pos, tx>>

SyncRecovered ==
    /\ pc = "recover_sync"
    /\ Recovered
    /\ pc' = IF zfsGeneration = MaxGeneration THEN "idle" ELSE "sync"
    /\ UNCHANGED <<disk, memory, pos, tx, result>>

\* The whole table is written from memory, sector by sector.
SyncEntry ==
    /\ pc = "sync"
    /\ pos \in Slots
    /\ \/ /\ entries' = [entries EXCEPT ![pos] = zfsEntries[pos]]
          /\ pos' = pos + 1
          /\ UNCHANGED <<data, generation, memory, pc, tx, result>>
       \/ ReplaceFails(pos, zfsEntries[pos], "none")

NextGeneration == (zfsGeneration + 1) % (MaxGeneration + 1)

SyncSuperblock ==
    /\ pc = "sync"
    /\ pos = EntryCount
    /\ \/ /\ generation' = NextGeneration
          /\ zfsGeneration' = NextGeneration
          /\ Return("none")
          /\ UNCHANGED <<entries, data, zfsEntries, mounted>>
       \/ /\ generation' \in {generation, NextGeneration}
          /\ mounted' = FALSE
          /\ Return("none")
          /\ UNCHANGED <<entries, data, zfsEntries, zfsGeneration>>

Fsck ==
    /\ Idle
    /\ pc' = "recover_fsck"
    /\ result' = "none"
    /\ UNCHANGED <<disk, memory, pos, tx>>

FsckDone ==
    /\ pc = "recover_fsck"
    /\ Recovered
    /\ Return("none")
    /\ UNCHANGED <<disk, memory>>

\* Power loss or reset: memory is gone, the medium stays as it is.
PowerLoss ==
    /\ pc # "off"
    /\ pc' = "off"
    /\ pos' = 0
    /\ tx' = NoTx
    /\ result' = "none"
    /\ mounted' = FALSE
    /\ zfsEntries' = [i \in Slots |-> Empty]
    /\ zfsGeneration' = 0
    /\ UNCHANGED disk

-----------------------------------------------------------------------------
Next ==
    \/ \E p \in Paths, c \in Contents : Write(p, c) \/ Append_(p, c)
    \/ \E p \in Paths : Touch(p) \/ MakeDirectory(p) \/ Remove(p)
    \/ \E p, q \in Paths : Copy(p, q) \/ Rename(p, q)
    \/ WriteData \/ WriteDataFails
    \/ WriteStage \/ WriteCommit \/ WriteClearOld \/ WriteFinalize
    \/ ReadFails
    \/ Recover
    \/ Boot \/ MountDone
    \/ Sync \/ SyncRecovered \/ SyncEntry \/ SyncSuperblock
    \/ Fsck \/ FsckDone
    \/ PowerLoss

Spec == Init /\ [][Next]_vars
-----------------------------------------------------------------------------
(* What the medium holds once recovery has run over it *)

\* A committed entry that has not been finalised supersedes the slot it names.
Superseded(i) ==
    \E j \in Slots \ {i} :
        entries[j].type = "file" /\ entries[j].committed /\ entries[j].reserved = i

Live(i) == entries[i].type \in {"file", "directory"} /\ ~Superseded(i)

CONSTANTS Absent, Directory, Corrupt, NoGoal

\* The durable contents of a path, read from the medium alone.
Durable(p) ==
    IF \E i \in Slots : Live(i) /\ entries[i].path = p
    THEN LET i == CHOOSE i \in Slots : Live(i) /\ entries[i].path = p
         IN  IF entries[i].type = "directory" THEN Directory
             ELSE IF Matches(entries[i], data[i]) THEN entries[i].content
             ELSE Corrupt
    ELSE Absent

DurableStore == [p \in Paths |-> Durable(p)]

InWrite == pc \in {"data", "commit", "clear", "finalize"}

Goal == IF InWrite THEN [DurableStore EXCEPT ![tx.path] = tx.content] ELSE NoGoal

Abstract == INSTANCE AtomicFileStore WITH store <- DurableStore, goal <- Goal

-----------------------------------------------------------------------------
(* Properties *)

\* Whenever an operation may use the memory mirror (mounted, or recovering during
\* mount), it is exactly the entry table on the medium: replace_entry_result puts
\* memory back on failure, and a failure whose effect on the medium is unknown
\* unmounts.
MirrorExact == mounted \/ Recovering => zfsEntries = entries

\* At any instant, power lost or not, an unfinalised commit names either no used
\* entry or the previous version of the same file: recovery never clears the
\* entry of another file.
OldIndexIsPredecessor ==
    \A j \in Slots :
        entries[j].type = "file" /\ entries[j].committed /\ entries[j].reserved \in Slots =>
            LET old == entries[entries[j].reserved]
            IN  old.type # "free" => old.type = "file" /\ old.path = entries[j].path

\* Across every prefix of sector writes, failed writes and power losses, the
\* durable store changes only by whole updates, and a write reports success only
\* when its update is durable (docs/ZENOVFS1_TRANSACTIONS.md, old or new content).
AtomicUpdates == Abstract!ASpec

\* fsck accepts every stored path (valid_stored_path): no operation stores "/".
StoredPathsValid == \A i \in Slots : Live(i) => entries[i].path # Root
=============================================================================
