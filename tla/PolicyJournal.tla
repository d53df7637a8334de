---------------------------- MODULE PolicyJournal ----------------------------
(***************************************************************************)
(* Updates of the signed policies (ZGDB, ZCAP, ZMID) under the ZPTJ1       *)
(* journal (security_policy_transaction.inc, the update and init functions *)
(* of the domains, the boot order of kernel.cpp).  An update changes       *)
(* several files; the journal holds their previous contents from before    *)
(* the first change until the last, and is replayed on failure and at boot.*)
(*                                                                         *)
(* The files live on ZenovFS, used here through what AtomicFileStore says  *)
(* of it: a write takes effect entirely or not at all; it is refused when  *)
(* the directory table has no free entry, and a device failure unmounts    *)
(* the volume with the old or the new contents.  A step is one file write  *)
(* with its readback, or one metadata sync.                                *)
(*                                                                         *)
(* Abstractions: a signed object is its version number, as is the content  *)
(* of its version file; candidates are validly signed successors (others   *)
(* are rejected before any change); the audit file exists and is the       *)
(* number of its records.                                                  *)
(***************************************************************************)
EXTENDS Integers

CONSTANTS
    Domains,        \* trust domains with a runtime update
    Audited,        \* those whose descriptor has an auxiliary (audit) file: ZMID
    SeedVersion,    \* version of the objects of the installed image
    MaxVersion,     \* 0xFFFFFFFF, the terminal version
    MaxEvents,      \* bound on audit records other than those of updates
    LastGeneration, \* may the superblock generation reach 0xFFFFFFFF, its last value?
    NoDomain

ASSUME DomainsAssumption ==
    /\ Audited \subseteq Domains
    /\ \A d, e \in Audited : d = e
    /\ NoDomain \notin Domains
ASSUME VersionAssumption ==
    /\ SeedVersion \in Nat \ {0}
    /\ MaxVersion \in Nat
    /\ SeedVersion <= MaxVersion
    /\ MaxEvents \in Nat
    /\ LastGeneration \in BOOLEAN

VARIABLES
    policy,     \* medium: version of each live policy object
    version,    \* medium: each version file
    audit,      \* medium: records in the audit file
    journal,    \* medium: the journal file, empty when domain is NoDomain
    space,      \* medium: the directory table has a free entry
    events,     \* history: audit records made outside updates
    spent,      \* medium: the superblock generation has its last value
    mounted,    \* zfs_mounted
    auditReady, \* security_audit::ready
    busy,       \* security_policy_transaction::busy
    ready,      \* <domain>::ready
    active,     \* <domain>::active_policy_version
    pc,         \* next step of the running update or boot
    mode,       \* why the journal is being cleared or replayed
    dom         \* domain being updated

medium == <<policy, version, audit, journal>>
others == <<space, events, auditReady>>
device == <<mounted, spent>>
vars == <<medium, others, device, busy, ready, active, pc, mode, dom>>

Versions == 1 .. MaxVersion

Journal == [domain : Domains \cup {NoDomain}, policy : Versions, version : Versions, audit : Nat]

Empty == [domain |-> NoDomain, policy |-> 1, version |-> 1, audit |-> 0]

Hot == journal.domain # NoDomain

Init ==
    /\ policy = [d \in Domains |-> SeedVersion]
    /\ version \in [Domains -> 1 .. SeedVersion]
    /\ audit = 0
    /\ journal = Empty
    /\ space \in BOOLEAN
    /\ events = 0
    /\ spent \in {FALSE, LastGeneration}
    /\ mounted = FALSE
    /\ auditReady = FALSE
    /\ busy = FALSE
    /\ ready = [d \in Domains |-> FALSE]
    /\ active = [d \in Domains |-> SeedVersion]
    /\ pc = "off"
    /\ mode = "none"
    /\ dom = NoDomain

-----------------------------------------------------------------------------
(* Steps on the medium *)

\* A file write with its readback: change is the write, keep its absence.
Attempt(change, keep, done, failed) ==
    /\ \/ mounted /\ space /\ change /\ pc' = done /\ UNCHANGED mounted
       \/ ~(mounted /\ space) /\ keep /\ pc' = failed /\ UNCHANGED mounted
       \/ mounted /\ space /\ (change \/ keep) /\ pc' = failed /\ mounted' = FALSE
    /\ UNCHANGED spent

\* sync_metadata: a device failure unmounts, an exhausted generation does not.
AttemptSync(done, failed) ==
    \/ mounted /\ ~spent /\ pc' = done /\ UNCHANGED mounted /\ spent' \in {FALSE, LastGeneration}
    \/ (mounted => spent) /\ pc' = failed /\ UNCHANGED <<mounted, spent>>
    \/ mounted /\ ~spent /\ pc' = failed /\ mounted' = FALSE /\ spent' \in {FALSE, LastGeneration}

-----------------------------------------------------------------------------
(* <domain>::update *)

\* Mutant of Next_: a candidate two versions ahead is accepted.
NextSkips(d) == active[d] + 2

Next_(d) == active[d] + 1

\* The candidate is the checked successor; acquire takes the journal.
Update(d) ==
    /\ pc = "idle"
    /\ mounted
    /\ ready[d]
    /\ active[d] < MaxVersion
    /\ ~busy
    /\ busy' = TRUE
    /\ dom' = d
    /\ pc' = "prepare"
    /\ UNCHANGED <<medium, others, device, ready, active, mode>>

\* acquire refuses while a transaction is unresolved; prepare_uncertain then
\* locks this domain too.
UpdateWhileBusy(d) ==
    /\ pc = "idle"
    /\ mounted
    /\ ready[d]
    /\ active[d] < MaxVersion
    /\ busy
    /\ ready' = [ready EXCEPT ![d] = FALSE]
    /\ UNCHANGED <<medium, others, device, busy, active, pc, mode, dom>>

Backup == [domain |-> dom, policy |-> policy[dom], version |-> version[dom],
           audit |-> IF dom \in Audited THEN audit ELSE 0]

\* persist_journal
Prepare ==
    /\ pc = "prepare"
    /\ Attempt(journal' = Backup, UNCHANGED journal, "prepare_sync", "clear")
    /\ mode' = "undo"
    /\ UNCHANGED <<policy, version, audit, others, busy, ready, active, dom>>

PrepareSync ==
    /\ pc = "prepare_sync"
    /\ AttemptSync("reread", "clear")
    /\ UNCHANGED <<medium, others, busy, ready, active, mode, dom>>

\* Mutant of Reread: a changed candidate is refused without discarding the journal.
RereadLeavesJournal ==
    /\ pc = "reread"
    /\ \/ pc' = "policy" /\ UNCHANGED mode
       \/ pc' = "finished" /\ mode' = "discard"
    /\ UNCHANGED <<medium, others, device, busy, ready, active, dom>>

\* The candidate is read and validated again; if it is unreadable or has changed
\* the prepared journal is discarded.
Reread ==
    /\ pc = "reread"
    /\ \/ pc' = "policy" /\ UNCHANGED <<mounted, mode>>
       \/ pc' = "clear" /\ mode' = "discard" /\ mounted' \in {mounted, FALSE}
    /\ UNCHANGED <<medium, others, spent, busy, ready, active, dom>>

WritePolicy ==
    /\ pc = "policy"
    /\ Attempt(policy' = [policy EXCEPT ![dom] = Next_(dom)], UNCHANGED policy,
               "version", "restore_policy")
    /\ mode' = "rollback"
    /\ UNCHANGED <<version, audit, journal, others, busy, ready, active, dom>>

WriteVersion ==
    /\ pc = "version"
    /\ Attempt(version' = [version EXCEPT ![dom] = Next_(dom)], UNCHANGED version,
               "sync", "restore_policy")
    /\ UNCHANGED <<policy, audit, journal, others, busy, ready, active, mode, dom>>

Sync ==
    /\ pc = "sync"
    /\ AttemptSync(IF dom \in Audited THEN "audit" ELSE "commit", "restore_policy")
    /\ UNCHANGED <<medium, others, busy, ready, active, mode, dom>>

\* security_guard::record of the intelligence update.  A journal of records that
\* failed before refuses it.  There is no readback: a write that failed after its
\* commit point (recovery_pending) counts as done.
RecordUpdate ==
    /\ pc = "audit"
    /\ \/ /\ ~auditReady
          /\ pc' = "restore_policy"
          /\ UNCHANGED <<audit, device>>
       \/ auditReady /\ Attempt(audit' = audit + 1, UNCHANGED audit, "commit", "restore_policy")
       \/ /\ auditReady /\ mounted /\ space
          /\ audit' = audit + 1
          /\ pc' = "commit"
          /\ mounted' = FALSE
          /\ UNCHANGED spent
    /\ auditReady' = (pc' = "commit")
    /\ UNCHANGED <<policy, version, journal, space, events, busy, ready, active, mode, dom>>

\* Mutant of Commit: the new policy is activated before the journal is cleared.
CommitActivates ==
    /\ pc = "commit"
    /\ pc' = "clear"
    /\ mode' = "commit"
    /\ active' = [active EXCEPT ![dom] = Next_(dom)]
    /\ UNCHANGED <<medium, others, device, busy, ready, dom>>

Commit ==
    /\ pc = "commit"
    /\ pc' = "clear"
    /\ mode' = "commit"
    /\ UNCHANGED <<medium, others, device, busy, ready, active, dom>>

-----------------------------------------------------------------------------
(* restore_hot_journal: the backed up files are written back in turn *)

\* Mutant of RestorePolicy: the version file is not restored.
RestorePolicyOnly ==
    /\ pc = "restore_policy"
    /\ Attempt(policy' = [policy EXCEPT ![journal.domain] = journal.policy], UNCHANGED policy,
               "restore_sync", "failed")
    /\ UNCHANGED <<version, audit, journal, others, busy, ready, active, mode, dom>>

RestorePolicy ==
    /\ pc = "restore_policy"
    /\ Attempt(policy' = [policy EXCEPT ![journal.domain] = journal.policy], UNCHANGED policy,
               "restore_version", "failed")
    /\ UNCHANGED <<version, audit, journal, others, busy, ready, active, mode, dom>>

\* Mutant of RestoreVersion: the audit file is not restored.
RestoreKeepsAudit ==
    /\ pc = "restore_version"
    /\ Attempt(version' = [version EXCEPT ![journal.domain] = journal.version],
               UNCHANGED version, "restore_sync", "failed")
    /\ UNCHANGED <<policy, audit, journal, others, busy, ready, active, mode, dom>>

RestoreVersion ==
    /\ pc = "restore_version"
    /\ Attempt(version' = [version EXCEPT ![journal.domain] = journal.version],
               UNCHANGED version,
               IF journal.domain \in Audited THEN "restore_audit" ELSE "restore_sync", "failed")
    /\ UNCHANGED <<policy, audit, journal, others, busy, ready, active, mode, dom>>

RestoreAudit ==
    /\ pc = "restore_audit"
    /\ Attempt(audit' = journal.audit, UNCHANGED audit, "restore_sync", "failed")
    /\ UNCHANGED <<policy, version, journal, others, busy, ready, active, mode, dom>>

RestoreSync ==
    /\ pc = "restore_sync"
    /\ AttemptSync("clear", "failed")
    /\ UNCHANGED <<medium, others, busy, ready, active, mode, dom>>

\* clear_journal, its sync, and what its caller does on success.
Clear ==
    /\ pc = "clear"
    /\ Attempt(journal' = Empty, UNCHANGED journal, "clear_sync", "failed")
    /\ UNCHANGED <<policy, version, audit, others, busy, ready, active, mode, dom>>

ClearSync ==
    /\ pc = "clear_sync"
    /\ AttemptSync("finished", "failed")
    /\ UNCHANGED <<medium, others, busy, ready, active, mode, dom>>

Finish ==
    /\ pc = "finished"
    /\ pc' = IF mode = "boot" THEN "init" ELSE "idle"
    /\ active' = IF mode = "commit" THEN [active EXCEPT ![dom] = Next_(dom)] ELSE active
    /\ busy' = FALSE
    /\ mode' = "none"
    /\ dom' = NoDomain
    /\ UNCHANGED <<medium, others, device, ready>>

\* Mutant of Fail: the domain stays ready.
FailStaysReady ==
    /\ pc = "failed"
    /\ pc' = IF mode = "boot" THEN "halted" ELSE "idle"
    /\ mode' = "none"
    /\ dom' = NoDomain
    /\ UNCHANGED <<medium, others, device, busy, ready, active>>

\* Mutant of Fail: the rollback is tried again and again.
FailRetries ==
    /\ pc = "failed"
    /\ pc' = IF mode = "boot" THEN "halted" ELSE IF mode = "rollback" THEN "restore_policy" ELSE "idle"
    /\ ready' = IF mode = "boot" THEN ready ELSE [ready EXCEPT ![dom] = FALSE]
    /\ IF mode = "rollback" THEN UNCHANGED <<mode, dom>> ELSE mode' = "none" /\ dom' = NoDomain
    /\ UNCHANGED <<medium, others, device, busy, active>>

\* A step of prepare, rollback, discard or commit could not be proven: the domain
\* is locked and the transaction stays unresolved; a boot stops.
Fail ==
    /\ pc = "failed"
    /\ pc' = IF mode = "boot" THEN "halted" ELSE "idle"
    /\ ready' = IF mode = "boot" THEN ready ELSE [ready EXCEPT ![dom] = FALSE]
    /\ mode' = "none"
    /\ dom' = NoDomain
    /\ UNCHANGED <<medium, others, device, busy, active>>

-----------------------------------------------------------------------------
(* Boot: mount, recover_pending, then the init function of every domain *)

Boot ==
    /\ pc = "off"
    /\ mounted' \in BOOLEAN
    /\ pc' = IF ~mounted' THEN "halted" ELSE IF Hot THEN "restore_policy" ELSE "init"
    /\ mode' = IF mounted' /\ Hot THEN "boot" ELSE "none"
    /\ auditReady' = mounted'
    /\ UNCHANGED <<medium, space, events, spent, busy, ready, active, dom>>

\* The policy is as new as its version file.
InitDomain(d) ==
    /\ pc = "init"
    /\ ~ready[d]
    /\ policy[d] = version[d]
    /\ active' = [active EXCEPT ![d] = policy[d]]
    /\ ready' = [ready EXCEPT ![d] = TRUE]
    /\ UNCHANGED <<medium, others, device, busy, pc, mode, dom>>

\* A newer policy moves its version file forward.
InitForward(d) ==
    /\ pc = "init"
    /\ ~ready[d]
    /\ policy[d] > version[d]
    /\ Attempt(version' = [version EXCEPT ![d] = policy[d]], UNCHANGED version,
               "init_sync", "halted")
    /\ active' = [active EXCEPT ![d] = policy[d]]
    /\ dom' = d
    /\ UNCHANGED <<policy, audit, journal, others, busy, ready, mode>>

InitSync ==
    /\ pc = "init_sync"
    /\ AttemptSync("init", "halted")
    /\ ready' = [ready EXCEPT ![dom] = pc' = "init"]
    /\ dom' = NoDomain
    /\ UNCHANGED <<medium, others, busy, active, mode>>

\* A policy older than its version file is a rollback and stops the boot; so does
\* a file that cannot be read.
InitFails ==
    /\ pc = "init"
    /\ mounted' \in IF \E d \in Domains : ~ready[d] /\ policy[d] < version[d]
                   THEN {mounted, FALSE} ELSE {FALSE}
    /\ pc' = "halted"
    /\ UNCHANGED <<medium, others, spent, busy, ready, active, mode, dom>>

InitDone ==
    /\ pc = "init"
    /\ \A d \in Domains : ready[d]
    /\ pc' = "idle"
    /\ UNCHANGED <<medium, others, device, busy, ready, active, mode, dom>>

-----------------------------------------------------------------------------
(* The rest of the system *)

RecordTaken == audit' = audit + 1 /\ events' = events + 1

\* Another event is recorded in the audit file; an append that fails or is refused
\* ends the recording, one that failed after its commit point does not.
RecordEvent ==
    /\ pc = "idle"
    /\ auditReady
    /\ events < MaxEvents
    /\ \/ mounted /\ space /\ RecordTaken /\ UNCHANGED <<mounted, auditReady>>
       \/ /\ ~(mounted /\ space)
          /\ auditReady' = FALSE
          /\ UNCHANGED <<audit, events, mounted>>
       \/ /\ mounted /\ space
          /\ mounted' = FALSE
          /\ \/ RecordTaken /\ auditReady' \in BOOLEAN
             \/ auditReady' = FALSE /\ UNCHANGED <<audit, events>>
    /\ UNCHANGED <<policy, version, journal, space, spent, busy, ready, active, pc, mode, dom>>

\* Other files come and go, metadata is synced, and the device may fail, while no
\* update runs.
OtherFiles ==
    /\ pc = "idle"
    /\ mounted
    /\ space' \in BOOLEAN
    /\ mounted' \in BOOLEAN
    /\ spent' \in {spent, spent \/ LastGeneration}
    /\ UNCHANGED <<medium, events, auditReady, busy, ready, active, pc, mode, dom>>

PowerLoss ==
    /\ pc # "off"
    /\ pc' = "off"
    /\ mounted' = FALSE
    /\ auditReady' = FALSE
    /\ busy' = FALSE
    /\ ready' = [d \in Domains |-> FALSE]
    /\ active' = [d \in Domains |-> SeedVersion]
    /\ mode' = "none"
    /\ dom' = NoDomain
    /\ UNCHANGED <<medium, space, events, spent>>

\* The steps of the function that runs.
Step ==
    \/ \E d \in Domains : InitDomain(d) \/ InitForward(d)
    \/ InitSync \/ InitFails \/ InitDone
    \/ Prepare \/ PrepareSync \/ Reread \/ WritePolicy \/ WriteVersion \/ Sync
    \/ RecordUpdate \/ Commit
    \/ RestorePolicy \/ RestoreVersion \/ RestoreAudit \/ RestoreSync
    \/ Clear \/ ClearSync \/ Finish \/ Fail

Next ==
    \/ Step
    \/ \E d \in Domains : Update(d) \/ UpdateWhileBusy(d)
    \/ Boot \/ RecordEvent \/ OtherFiles \/ PowerLoss

\* A running function is never suspended: updates are not preempted.
Spec == Init /\ [][Next]_vars /\ WF_vars(Step)

-----------------------------------------------------------------------------
(* What a power loss now would leave: the medium with a hot journal replayed *)

Replayed(d) == Hot /\ journal.domain = d

RecoveredPolicy(d) == IF Replayed(d) THEN journal.policy ELSE policy[d]

RecoveredVersion(d) == IF Replayed(d) THEN journal.version ELSE version[d]

RecoveredAudit == IF Hot /\ journal.domain \in Audited THEN journal.audit ELSE audit

Steps == {"off", "init", "init_sync", "idle", "prepare", "prepare_sync", "reread", "policy", "version", "sync",
          "audit", "commit", "restore_policy", "restore_version", "restore_audit",
          "restore_sync", "clear", "clear_sync", "finished", "failed", "halted"}

Modes == {"none", "undo", "discard", "rollback", "commit", "boot"}

\* Every file, the journal and the memory of the domains stay in their types; no
\* version passes the terminal one.
TypeOK ==
    /\ policy \in [Domains -> Versions]
    /\ version \in [Domains -> Versions]
    /\ audit \in Nat
    /\ journal \in Journal
    /\ space \in BOOLEAN
    /\ events \in 0 .. MaxEvents
    /\ spent \in {FALSE, LastGeneration}
    /\ mounted \in BOOLEAN
    /\ auditReady \in BOOLEAN
    /\ busy \in BOOLEAN
    /\ ready \in [Domains -> BOOLEAN]
    /\ active \in [Domains -> Versions]
    /\ pc \in Steps
    /\ mode \in Modes
    /\ dom \in Domains \cup {NoDomain}

\* Wherever the power fails, no boot afterwards finds a policy older than its
\* version file: no interrupted update makes an init function refuse the volume.
Bootable == \A d \in Domains : RecoveredVersion(d) <= RecoveredPolicy(d)

\* Between updates, a domain that is ready enforces exactly the generation on the
\* medium: policy, version file and memory agree and no journal would undo them.
ReadyMeansWhole ==
    pc = "idle" => \A d \in Domains : ready[d] =>
        /\ ~Replayed(d)
        /\ active[d] = policy[d]
        /\ active[d] = version[d]

\* A ready domain never enforces a generation that a power loss would take back.
EnforcedIsDurable == \A d \in Domains : ready[d] => active[d] <= RecoveredPolicy(d)

\* A policy generation is durable exactly when its audit record is, and replaying
\* the journal loses none of the records made by other events; until the superblock
\* generation runs out.
AuditExact ==
    ~spent => \A d \in Audited : RecoveredAudit = events + (RecoveredPolicy(d) - SeedVersion)

\* An unresolved transaction with a hot journal leaves the volume unmounted, so
\* nothing is written that the replay at the next boot would undo; and the replay
\* has the free entry its writes need; until the superblock generation runs out.
HotJournalIsolated == ~spent /\ Hot => space /\ (pc = "idle" => ~mounted)

\* The generation a boot would find only ever moves to its direct successor:
\* updates, rollbacks and recovery never lose one and never skip one.
GenerationSteps ==
    [][\A d \in Domains : RecoveredPolicy(d)' \in {RecoveredPolicy(d), RecoveredPolicy(d) + 1}]_vars

\* An update, its rollback and a boot all come to an end.
UpdateEnds == pc \notin {"idle", "off", "halted"} ~> pc \in {"idle", "off", "halted"}
=============================================================================
