------------------------------ MODULE VolumeBoot ------------------------------
(***************************************************************************)
(* The boot of kernel/kernel.cpp on a data image: what kernel_main does in *)
(* order, each stage with the files it reads and writes; a stage that      *)
(* fails panics and leaves the image as the stages before it left it.      *)
(* The package manager, whose initialisation cannot stop a boot, is left   *)
(* out, as are the probes of protected paths, which are refused before any *)
(* write.  The boot also stops when the power does: after as many writes   *)
(* of metadata sectors as it lasts for, so that a file write may be cut    *)
(* short between any two of its own.  The next mount completes it or takes *)
(* it back; the host tools read the table as they find it.                 *)
(***************************************************************************)
EXTENDS VolumeImage

\* More writes of metadata sectors than a boot makes.
FullPower == 64

\* The machine: the mounted image, the writes of metadata sectors the power lasts for, whether
\* the boot goes on.  A write of a data sector goes to the slot of a free entry.
Mounted(img, power) == [generation |-> img.generation, entries |-> img.entries, power |-> power, ok |-> TRUE]
OnDisk(m) == [generation |-> m.generation, entries |-> m.entries]

Panic(m) == [m EXCEPT !.ok = FALSE]

ParentExists(m, p) == Has(m, Front(p)) /\ Entry(m, Front(p)).type = "directory"

-----------------------------------------------------------------------------
(* storage: one sector of the entry table, or the superblock, at a time *)

FlushEntries(m, entries) ==
    IF ~m.ok \/ m.power = 0 THEN Panic(m) ELSE [m EXCEPT !.power = @ - 1, !.entries = entries]

replace_entry(m, i, e) == FlushEntries(m, (i :> e) @@ m.entries)
clear_entry(m, i) == FlushEntries(m, [k \in DOMAIN m.entries \ {i} |-> m.entries[k]])

TransactionNone == TableSize

\* storage::write_file: a staging entry, its commit, the old entry cleared, the new one final.
write_file(m, p, c) ==
    LET new == Min(Free(m))
        old == At(m, p)
        stage == [NewEntry("transaction", p, c) EXCEPT !.reserved = IF old = {} THEN TransactionNone ELSE Min(old)]
        committed == replace_entry(replace_entry(m, new, stage), new, [stage EXCEPT !.type = "file", !.committed = TRUE])
        cleared == IF old = {} THEN committed ELSE clear_entry(committed, Min(old))
    IN IF ~m.ok \/ ~ParentExists(m, p) \/ Free(m) = {} THEN Panic(m)
       ELSE replace_entry(cleared, new, FileEntry(p, c))

\* The sector writes after which a write of a file has taken effect.
CommitWrites == 2

\* Mutant: the entry a committed one replaces is not cleared.
FinalizeOnly(m, i) ==
    IF i \notin DOMAIN m.entries THEN m
    ELSE replace_entry(m, i, [m.entries[i] EXCEPT !.committed = FALSE, !.reserved = 0])

\* One committed entry of recover_transactions: its predecessor goes, then it is final.
recover_committed(m, i) ==
    IF i \notin DOMAIN m.entries THEN m
    ELSE LET old == m.entries[i].reserved
             cleared == IF old # i /\ old \in DOMAIN m.entries THEN clear_entry(m, old) ELSE m
         IN replace_entry(cleared, i, [m.entries[i] EXCEPT !.committed = FALSE, !.reserved = 0])

Staging(m) == {i \in DOMAIN m.entries : m.entries[i].type = "transaction"}
Committed(m) == {i \in DOMAIN m.entries : m.entries[i].committed}
InOrder(indices) == SetToSortSeq(indices, <)

recover_transactions(m) ==
    LET cleared == FoldLeft(clear_entry, m, InOrder(Staging(m)))
    IN FoldLeft(recover_committed, cleared, InOrder(Committed(cleared)))

mount(img, power) == recover_transactions(Mounted(img, power))

\* The image a mount makes of img; img itself when no write of it is unfinished.
Recovered(img) == OnDisk(mount(img, FullPower))
Unfinished(img) == Staging(img) \cup Committed(img) # {}

\* storage::sync_metadata
sync_metadata(m) ==
    IF ~m.ok \/ m.generation = MaxGeneration \/ m.power = 0 THEN Panic(m)
    ELSE [m EXCEPT !.power = @ - 1, !.generation = @ + 1]

read_ok(m, p) == ImageReadable(m, p)

-----------------------------------------------------------------------------
(* security_policy_transaction::recover_pending *)

clear_journal(m) == sync_metadata(write_file(m, PolicyJournalPath, NoBytes))

\* Mutant: the auxiliary file is not restored.
RestoreWithoutAudit(m) ==
    LET j == ImageRead(m, PolicyJournalPath)
        policy == write_file(m, Live("zmid"), j.policy)
        version == write_file(policy, Version("zmid"), j.version)
    IN IF j.kind # "zptj" \/ j.bad THEN Panic(m) ELSE clear_journal(sync_metadata(version))

restore_hot_journal(m) ==
    LET j == ImageRead(m, PolicyJournalPath)
        policy == write_file(m, Live("zmid"), j.policy)
        version == write_file(policy, Version("zmid"), j.version)
        auxiliary == write_file(version, AuditPath, j.audit)
    IN IF j.kind # "zptj" \/ j.bad THEN Panic(m) ELSE clear_journal(sync_metadata(auxiliary))

recover_pending(m) ==
    IF ~m.ok \/ ~read_ok(m, PolicyJournalPath) THEN Panic(m)
    ELSE IF ImageRead(m, PolicyJournalPath).size = 0 THEN m
    ELSE restore_hot_journal(m)

-----------------------------------------------------------------------------
(* Stages; one that is reached after a panic changes nothing. *)

audit_init(m) ==
    IF ~m.ok THEN m
    ELSE IF ~HasFile(m, AuditPath) THEN write_file(m, AuditPath, AuditBytes(initialize_empty))
    ELSE LET c == ImageRead(m, AuditPath)
         IN IF read_ok(m, AuditPath) /\ c.kind = "audit" /\ ~c.bad /\ verify(c.journal) THEN m ELSE Panic(m)

\* ZGDB, ZCAP and ZMID sync the version file; ZRWP and ZVRT do not.
Advance(m, d, v) ==
    LET written == write_file(m, Version(d), VersionText(v))
    IN IF d \in {"zgdb", "zcap", "zmid"} THEN sync_metadata(written) ELSE written

\* Mutant: the signature of the object is not checked.
UnsignedInit(m, d) ==
    IF ~m.ok \/ ~read_ok(m, Version(d)) \/ ~read_ok(m, Live(d)) THEN Panic(m)
    ELSE LET minimum == ImageRead(m, Version(d)).v
             object == ImageRead(m, Live(d))
         IN IF object.kind # d \/ object.v < minimum THEN Panic(m)
            ELSE IF minimum < object.v THEN Advance(m, d, object.v)
            ELSE m

\* <domain>::init: a genuine object no older than the version file, which it may advance.
policy_init(m, d) ==
    IF ~m.ok \/ ~read_ok(m, Version(d)) \/ ~read_ok(m, Live(d)) THEN Panic(m)
    ELSE LET minimum == ImageRead(m, Version(d)).v
             object == ImageRead(m, Live(d))
         IN IF object.kind # d \/ object.bad \/ object.v < minimum THEN Panic(m)
            ELSE IF minimum < object.v THEN Advance(m, d, object.v)
            ELSE m

\* verify_trusted_baseline
Trusted(m) == read_ok(m, Hello) /\ ImageRead(m, Hello) = Object("zex", 1)

BootEvent == <<"boot", FALSE>>

\* security_guard::init: an untrusted baseline locks enforcement but the boot goes on.
guard_init(m) ==
    IF ~m.ok \/ ~Trusted(m) THEN m
    ELSE LET j == ImageRead(m, AuditPath).journal
         IN IF j.next_sequence = MaxSequence THEN Panic(m)
            ELSE write_file(m, AuditPath, AuditBytes(append_to(j, BootEvent)))

persist_state(m, v) == sync_metadata(write_file(m, RepositoryState, Content("state", v, 1)))

load_state(m) ==
    IF ~m.ok THEN m
    ELSE IF ~Has(m, RepositoryState) THEN persist_state(m, 0)
    ELSE IF read_ok(m, RepositoryState) THEN m
    ELSE Panic(m)

refresh(m) ==
    IF m.ok /\ read_ok(m, Metadata) /\ ImageRead(m, Metadata).v >= ImageRead(m, RepositoryState).v
    THEN persist_state(m, ImageRead(m, Metadata).v) ELSE Panic(m)

\* package_repository::init
repository_init(m) == refresh(load_state(m))

\* security_audit::verify_active, the last read of the boot.
verify_active(m) ==
    IF m.ok /\ read_ok(m, AuditPath) /\ verify(ImageRead(m, AuditPath).journal) THEN m ELSE Panic(m)

\* kernel_main up to security_guard::init, and all of it.
Policies(img, power) == FoldLeft(policy_init, audit_init(recover_pending(mount(img, power))), Domains)

Guarded(img, power) == guard_init(Policies(img, power))

Boot(img, power) == verify_active(repository_init(Guarded(img, power)))

\* Whether the boot of img got as far as to log itself: the write of the journal took effect.
BootLogged(img, power) ==
    LET m == Policies(img, power)
    IN /\ m.ok /\ Trusted(m) /\ ImageRead(m, AuditPath).journal.next_sequence # MaxSequence
       /\ Free(m) # {} /\ m.power >= CommitWrites

Boots(img) == Boot(img, FullPower).ok
=============================================================================
