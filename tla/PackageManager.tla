---------------------------- MODULE PackageManager ----------------------------
(***************************************************************************)
(* The kernel's package manager on a volume that may fail: the repository  *)
(* floor (package_repository/runtime.inc, format_state.inc), the installed *)
(* packages (package_manager/transactions.inc, state.inc, policy.inc,      *)
(* init.inc, commands_lifecycle.inc) over the cache and transport          *)
(* of PackageCache.  A shell command runs to its end before the next one;  *)
(* the device may fail at any write of it, and the machine may be turned   *)
(* off between any two.                                                    *)
(***************************************************************************)
EXTENDS PackageCache

CONSTANTS
    Depends,        \* [Targets -> SUBSET Targets], exact dependencies
    Conflicts,      \* [Targets -> sets of package names]
    MaxPackages,    \* maximum_packages
    NoRecord, BadDatabase,
    Fragile,        \* the targets whose files may be damaged
    FaultAt,        \* the writes of a command at which a device failure is tried
    Misreads,       \* the sets of reads of a partial object that may go wrong in a command
    MaxFaults, MaxDamage, MaxSeeds, MaxChores   \* bounds of a run

VARIABLES
    disk,       \* the volume as a mount finds it
    memory,     \* what the kernel holds: journal, database, initialized, mounted; or PowerOff
    budget      \* what is left of the bounds

vars == <<disk, memory, budget>>

Names == {Name[t] : t \in Targets}
Empty == [n \in Names |-> NoRecord]
PowerOff == [journal |-> NoJournal, database |-> Empty, initialized |-> FALSE, mounted |-> FALSE]

NoFault == [left |-> 0, how |-> "old", misreads |-> {}]
Faults == {[left |-> k, how |-> h, misreads |-> {}] : k \in FaultAt, h \in {"old", "new", "pending"}}
Glitches == {[left |-> 0, how |-> "old", misreads |-> r] : r \in Misreads}

Machine(d, mem, fault) ==
    [disk |-> d, journal |-> mem.journal, database |-> mem.database, initialized |-> mem.initialized,
     mounted |-> mem.mounted, left |-> fault.left, how |-> fault.how, misreads |-> fault.misreads,
     reads |-> 0, ok |-> TRUE, outcome |-> "none"]
MemoryOf(m) == [journal |-> m.journal, database |-> m.database, initialized |-> m.initialized, mounted |-> m.mounted]

-----------------------------------------------------------------------------
(* The database of installed packages *)

Record(m, n) == m.database[n]
Installed(m) == {n \in Names : Record(m, n) # NoRecord}

References(r) == {r.active, r.previous} \ {NoObject}

\* The payload of a reference is on the volume and the repository still signs it.
reference_payload_valid(m, t) == m.mounted /\ t \in Offered(m) /\ m.disk.payload[t] = "good"

active_payloads_valid(m) ==
    \A n \in Installed(m) : \A t \in References(Record(m, n)) : reference_payload_valid(m, t)

load_database(m) ==
    IF ~m.ok \/ ~m.mounted \/ m.disk.database \in {NoDatabase, BadDatabase} THEN Fail(m)
    ELSE [m EXCEPT !.database = m.disk.database]

Adopted(m, next) == IF m.ok THEN [m EXCEPT !.database = next] ELSE m

\* A failed sync leaves the volume unmounted, so the code's second look at the file finds nothing.
persist_database(m, next) == Adopted(sync_metadata(write_file(m, [m.disk EXCEPT !.database = next])), next)

requirements_satisfied(m, t) ==
    /\ \A d \in Depends[t] : Record(m, Name[d]) # NoRecord /\ Record(m, Name[d]).active = d
    /\ Conflicts[t] \cap Installed(m) = {}

\* A payload file that is already there is used: its table entry is compared, not its bytes.
MountedStill(m) == Test(m, m.mounted)
payload_committed(m, t) ==
    IF m.mounted /\ m.disk.payload[t] # NoObject THEN m
    ELSE MountedStill(write_file(m, [m.disk EXCEPT !.payload[t] = "good"]))

RemovePayload(m, t) ==
    IF ~m.mounted \/ m.disk.payload[t] = NoObject THEN m ELSE replace_entry(Ok(m), [m.disk EXCEPT !.payload[t] = NoObject])

\* A payload no reference names any more is removed once the database is committed.
CollectObsolete(m, obsolete, record) ==
    IF m.ok /\ obsolete \notin {NoObject, record.active, record.previous}
    THEN Ok(sync_metadata(Ok(RemovePayload(m, obsolete))))
    ELSE m

Activate(m, t, record, obsolete) ==
    CollectObsolete(persist_database(payload_committed(Ok(m), t), [m.database EXCEPT ![Name[t]] = record]),
                    obsolete, record)

\* install of a verified package file: a new record, an upgrade, or nothing to do.
install(m, t) ==
    LET old == Record(m, Name[t])
    IN IF ~m.initialized \/ ~m.mounted \/ t \notin Offered(m) \/ ~requirements_satisfied(m, t) THEN Fail(m)
       ELSE IF old = NoRecord
       THEN IF Cardinality(Installed(m)) = MaxPackages THEN Fail(m)
            ELSE Activate(m, t, [active |-> t, previous |-> NoObject], NoObject)
       ELSE IF Version[t] = Version[old.active] THEN Ok(m)
       ELSE IF Version[t] < Version[old.active] THEN Fail(m)
       ELSE Activate(m, t, [active |-> t, previous |-> old.active], old.previous)

\* pkg install of a file: the package is verified where it is, in the offline repository.
InstallPath(m, t) == IF transport_load_verified_source(m, t) THEN install(m, t) ELSE Fail(m)

InstallCached(m, t) ==
    IF m.outcome = "complete" /\ verified_target_file(m, m.disk.final[t], t) THEN install(Ok(m), t) ELSE Fail(m)

install_latest(m, n) ==
    IF Latest(m, n) = {} THEN Fail(m)
    ELSE LET t == CHOOSE u \in Latest(m, n) : TRUE IN InstallCached(fetch_target(m, t), t)

upgrade_one(m, n) ==
    LET latest == Latest(m, n)
    IN IF latest = {} \/ Record(m, n) = NoRecord THEN Fail(m)
       ELSE IF \A t \in latest : Version[t] <= Version[Record(m, n).active]
       THEN Test(m, \A t \in latest : Version[t] = Version[Record(m, n).active])
       ELSE install_latest(m, n)

\* Mutant: the payloads go before the record does.
PayloadsFirst(m, n) ==
    LET gone == RemovePayload(Ok(m), Record(m, n).active)
    IN IF Record(m, n) = NoRecord THEN Fail(m)
       ELSE IF ~gone.ok THEN gone ELSE persist_database(gone, [m.database EXCEPT ![n] = NoRecord])

RemovePayloads(m, old) ==
    IF ~m.ok THEN m
    ELSE IF old.previous \in {NoObject, old.active} THEN Ok(sync_metadata(Ok(RemovePayload(m, old.active))))
    ELSE Ok(sync_metadata(Ok(RemovePayload(RemovePayload(m, old.active), old.previous))))

remove_package(m, n) ==
    IF Record(m, n) = NoRecord THEN Fail(m)
    ELSE RemovePayloads(persist_database(Ok(m), [m.database EXCEPT ![n] = NoRecord]), Record(m, n))

rollback(m, n) ==
    LET old == Record(m, n)
    IN IF old = NoRecord \/ old.previous = NoObject THEN Fail(m)
       ELSE IF ~reference_payload_valid(m, old.previous) THEN Fail(m)
       ELSE persist_database(Ok(m), [m.database EXCEPT ![n] = [active |-> old.previous, previous |-> old.active]])

repair_one(m, n) ==
    IF Record(m, n) = NoRecord THEN Fail(m)
    ELSE IF reference_payload_valid(m, Record(m, n).active) THEN m
    ELSE rollback(m, n)

-----------------------------------------------------------------------------
(* Boot *)

\* package_repository::persist_state
persist_state(m, floor) == sync_metadata(write_file(m, [m.disk EXCEPT !.floor = floor]))

\* package_repository::init: no release older than one that was accepted; the floor is written at every boot.
Refresh(m) == IF ~m.ok \/ m.disk.release < m.disk.floor THEN Fail(m) ELSE persist_state(m, m.disk.release)
RepositoryInit(m) == Refresh(IF m.disk.floor = -1 THEN persist_state(m, 0) ELSE m)

\* The seeded image has the other directories that init looks for.
CacheDirectories == <<"/var/cache", "/var/cache/zp">>

ensure_directory(m, name) == IF m.mounted /\ name \in m.disk.directories THEN m ELSE make_directory(m, name)
EnsureDirectories(m) == ensure_directory(ensure_directory(m, CacheDirectories[1]), CacheDirectories[2])

\* package_manager::init; initialized stays false at the first step that fails.
OpenDatabase(m) ==
    IF m.ok /\ m.mounted /\ m.disk.database = NoDatabase
    THEN load_database(sync_metadata(write_file(m, [m.disk EXCEPT !.database = Empty])))
    ELSE load_database(m)
StartTransport(m) == IF m.ok /\ active_payloads_valid(m) THEN transport_initialize(m) ELSE Fail(m)
VerifyCache(m) == IF m.ok THEN cache_verify(m) ELSE m
Initialized(m) == [m EXCEPT !.initialized = m.ok]
init(m) == Initialized(VerifyCache(StartTransport(OpenDatabase(EnsureDirectories(m)))))

InitUnlessPanic(m) == IF m.ok THEN init(m) ELSE [m EXCEPT !.mounted = FALSE]
Booted(d, fault) == InitUnlessPanic(RepositoryInit(Machine(d, [PowerOff EXCEPT !.mounted = TRUE], fault)))

-----------------------------------------------------------------------------
(* The system *)

Init ==
    /\ disk = [journal |-> NoJournal, database |-> NoDatabase, floor |-> -1, release |-> 1, sources |-> Targets,
               part |-> [t \in Targets |-> NoObject], final |-> [t \in Targets |-> NoObject],
               payload |-> [t \in Targets |-> NoObject], directories |-> {}]
    /\ memory = PowerOff
    /\ budget = [faults |-> MaxFaults, damage |-> MaxDamage, seeds |-> MaxSeeds, chores |-> MaxChores]

Running == memory # PowerOff

\* A command that changes nothing costs nothing.
Changes(m) == m.disk # disk \/ MemoryOf(m) # memory

Command(m, fault, chores) ==
    /\ fault # NoFault => budget.faults > 0
    /\ budget.chores >= chores
    /\ \E after \in {m} :
           /\ disk' = after.disk
           /\ memory' = MemoryOf(after)
           /\ budget' = IF Changes(after)
                        THEN [budget EXCEPT !.chores = @ - chores, !.faults = IF fault = NoFault THEN @ ELSE @ - 1]
                        ELSE budget

\* A kernel that panics is as good as off.
Boot(fault) == ~Running /\ Command(Booted(disk, fault), fault, 0)

TurnOff == Running /\ memory' = PowerOff /\ UNCHANGED <<disk, budget>>

Now(fault) == Machine(disk, memory, fault)

\* pkg fetch / pkg transport resume, and pkg transport step.
Fetch(n, fault) ==
    Running /\ \E t \in Latest(Now(fault), n) : Command(fetch_target(Now(fault), t), fault, 0)

FetchStep(n, fault) ==
    Running /\ \E t \in Latest(Now(fault), n) : Command(fetch_target_budget(Now(fault), t, 1), fault, 0)

\* The other commands, of which a run has a bounded number.
Chore(m, fault) == Running /\ Command(m, fault, 1)

Cancel(fault) == Chore(transport_cancel(Now(fault)), fault)
Clean(fault) == Chore(cache_clean(Now(fault)), fault)
Verify(fault) == Chore(cache_verify(Now(fault)), fault)
Install(t, fault) == Chore(InstallPath(Now(fault), t), fault)
InstallLatest(n, fault) == Chore(install_latest(Now(fault), n), fault)
Upgrade(n, fault) == Chore(upgrade_one(Now(fault), n), fault)
Remove(n, fault) == Chore(remove_package(Now(fault), n), fault)
Rollback(n, fault) == Chore(rollback(Now(fault), n), fault)
Repair(n, fault) == Chore(repair_one(Now(fault), n), fault)

\* A sector of a cache object, a payload, the journal or the database goes bad.
Damage ==
    /\ budget.damage > 0
    /\ budget' = [budget EXCEPT !.damage = @ - 1]
    /\ \/ \E t \in Fragile : disk.part[t] # NoObject /\ disk' = [disk EXCEPT !.part[t].bad = TRUE]
       \/ \E t \in Fragile : disk.final[t] # NoObject /\ disk' = [disk EXCEPT !.final[t].bad = TRUE]
       \/ \E t \in Fragile : disk.payload[t] = "good" /\ disk' = [disk EXCEPT !.payload[t] = "bad"]
       \/ disk.journal \notin {NoJournal, BadJournal} /\ disk' = [disk EXCEPT !.journal = BadJournal]
       \/ disk.database \notin {NoDatabase, BadDatabase} /\ disk' = [disk EXCEPT !.database = BadDatabase]
       \/ \E t \in Fragile \cap disk.sources : disk' = [disk EXCEPT !.sources = @ \ {t}]
    /\ UNCHANGED memory

\* zenovfs_package_seed puts another release of the repository and its packages on the image, from which the
\* host took the release before: the tool refuses a path that is there.
Seed ==
    /\ ~Running
    /\ budget.seeds > 0
    /\ budget' = [budget EXCEPT !.seeds = @ - 1]
    /\ \E r \in DOMAIN Releases \ {disk.release} :
           disk' = [disk EXCEPT !.release = r, !.sources = @ \cup Releases[r]]
    /\ UNCHANGED memory

AnyFault == {NoFault} \cup Faults
AnyTransferFault == AnyFault \cup Glitches

Next ==
    \/ \E fault \in AnyFault :
           \/ Boot(fault) \/ Cancel(fault) \/ Clean(fault) \/ Verify(fault)
           \/ \E t \in Targets : Install(t, fault)
           \/ \E n \in Names : Upgrade(n, fault) \/ Remove(n, fault) \/ Rollback(n, fault) \/ Repair(n, fault)
    \/ \E fault \in AnyTransferFault, n \in Names :
           Fetch(n, fault) \/ FetchStep(n, fault) \/ InstallLatest(n, fault)
    \/ TurnOff \/ Damage \/ Seed

\* ENABLED <<...>>_vars of the two commands, written out.
BootEnabled == ~Running /\ Changes(Booted(disk, NoFault))
StepEnabled(n) ==
    Running /\ \E t \in Latest(Now(NoFault), n) : Changes(fetch_target_budget(Now(NoFault), t, 1))

\* A machine that lost its volume is turned off; it is turned on again, and a transfer is asked for again,
\* without a device failure: strong fairness of every FetchStep(n, NoFault), weak fairness of the others.
Fairness ==
    /\ WF_vars(TurnOff /\ ~memory.mounted)
    /\ []<><<Boot(NoFault)>>_vars \/ []<>~BootEnabled
    /\ \A n \in Names : []<><<FetchStep(n, NoFault)>>_vars \/ <>[]~StepEnabled(n)

Spec == Init /\ [][Next]_vars /\ Fairness

-----------------------------------------------------------------------------
(* Properties *)

\* Wherever a fetch is cut, what is on the volume under a final name (fetch_target_budget) is the whole
\* package, and what is under a partial name (transport_transfer) is a prefix of it.
ObjectsAreCopies ==
    \A t \in Targets :
        /\ disk.final[t] # NoObject => disk.final[t].chunks = Prefix(Length[t])
        /\ disk.part[t] # NoObject => disk.part[t].chunks \in {Prefix(n) : n \in 1..Length[t]}

Undamaged == budget.damage = MaxDamage

Durable == IF disk.database \in {NoDatabase, BadDatabase} THEN Empty ELSE disk.database

\* The entries a boot needs: those it makes when they are missing, and one to stage a write in.
Missing(d) ==
    Cardinality({f \in {"floor"} : d.floor = -1} \cup {f \in {"database"} : d.database = NoDatabase})
    + Len(CacheDirectories) - Cardinality(d.directories)
HasRoom(d) == Cardinality(Files(d)) + Missing(d) < Entries

\* Whatever write a fetch, an installation, a removal or a boot was cut at, package_manager::init succeeds at
\* the next boot, provided no file was damaged, the repository still offers what is installed, and the table
\* has an entry to stage a write in (without one, persist_state fails and the boot panics).
StartsAgain ==
    Undamaged /\ HasRoom(disk) /\ disk.release >= disk.floor /\ (\A n \in Names :
        Durable[n] # NoRecord => References(Durable[n]) \subseteq Releases[disk.release])
    => Booted(disk, NoFault).initialized

JournalSpent == \E j \in {disk.journal, memory.journal} \ {NoJournal, BadJournal} : j.generation = MaxGeneration

\* The good chunks of an offered package whose source is sound are gone, and not because they are cached.
LosesChunks(t) ==
    /\ t \in disk.sources \cap Releases[disk.release]
    /\ disk.part[t] # NoObject /\ ~disk.part[t].bad
    /\ disk'.final[t] = NoObject
    /\ disk'.part[t] = NoObject \/ Len(disk'.part[t].chunks) < Len(disk.part[t].chunks)

Glitched == \E g \in Glitches, n \in Names : Fetch(n, g) \/ FetchStep(n, g) \/ InstallLatest(n, g)

\* What was transferred is not transferred again: only cancelling, cleaning, a misread, a journal whose
\* generation is spent and a full table discard chunks, never a device failure, a reboot or another command.
\* In a full table the journal cannot be rewritten: transport_reconcile_active fails and the partial object,
\* whose bytes are sound, is removed to start over.
ProgressKept ==
    [][(\E t \in Targets : LosesChunks(t)) =>
           JournalSpent \/ Full(disk) \/ Glitched \/ \E fault \in AnyFault : Cancel(fault) \/ Clean(fault)]_vars

Cached(n) == \A t \in Latest(Now(NoFault), n) : disk.final[t] = Whole(t)
SourceGone(n) == Latest(Now(NoFault), n) \cap disk.sources = {}
\* The journal is of a version that is still offered and no longer the latest: no command resumes it.
Superseded ==
    \E t \in Releases[disk.release] : memory.journal # NoJournal /\ memory.journal.target = t
                                      /\ t \notin Latest(Now(NoFault), Name[t])

\* A fetch that is asked for often enough caches the latest version, through device failures, reboots and
\* damage; unless its source is gone, the release is refused, a superseded transfer holds the journal, or the
\* table fills up again and again (journal and partial object take the last entries, each resume starts over).
FetchCompletes ==
    \A n \in Names :
        []<>(Cached(n) \/ SourceGone(n) \/ Superseded \/ disk.release < disk.floor \/ Full(disk))
=============================================================================
