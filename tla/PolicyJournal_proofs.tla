------------------------ MODULE PolicyJournal_proofs ------------------------
(***************************************************************************)
(* Proofs about PolicyJournal.tla for every set of domains, every version  *)
(* bound, and whether or not the superblock generation can run out.        *)
(*                                                                         *)
(* The inductive invariant IInv says, for every step of an update, a       *)
(* rollback or a boot, what the journal and the two files of its domain    *)
(* hold.  The properties of the runs speak only of the state between       *)
(* updates or after a power loss, and are not inductive by themselves.     *)
(***************************************************************************)
EXTENDS PolicyJournal, TLAPS

\* Steps with the journal on the medium, from the prepared journal to the commit.
Changing == {"prepare_sync", "reread", "policy", "version", "sync", "audit", "commit"}

Restoring == {"restore_policy", "restore_version", "restore_audit", "restore_sync"}

\* A domain is being updated, its rollback included.
Updating == pc = "prepare" \/ mode \in {"undo", "discard", "rollback", "commit"}

\* What the steps say of the mode, and of the domain being updated.
Control ==
    /\ pc \in {"off", "idle", "init", "init_sync", "halted", "prepare"} => mode = "none"
    /\ pc \in {"prepare_sync", "reread", "policy"} => mode = "undo"
    /\ pc \in {"version", "sync", "audit", "commit"} => mode = "rollback"
    /\ pc \in Restoring => mode \in {"rollback", "boot"}
    /\ pc \in {"clear", "clear_sync", "finished", "failed"} => mode # "none"
    /\ Updating => dom \in Domains /\ ready[dom] /\ busy /\ active[dom] < MaxVersion
    /\ mode = "boot" \/ pc = "off" => \A d \in Domains : ~ready[d]
    /\ pc = "init_sync" => dom \in Domains

\* What the journal holds: the old generation of the domain being updated.
JournalSound ==
    /\ Hot => journal.policy = journal.version
    /\ pc \in {"init", "init_sync", "prepare", "clear_sync", "finished"} => ~Hot
    /\ pc \in Changing \cup Restoring => Hot
    /\ pc = "idle" /\ Hot => busy
    /\ Updating /\ Hot => journal.domain = dom /\ journal.policy = active[dom]

\* Policy and version file of a domain are both of generation v.
At(d, v) == policy[d] = v /\ version[d] = v

\* What the files hold at every step.
FilesSound ==
    /\ \A d \in Domains : ready[d] /\ ~(Updating /\ d = dom) => At(d, active[d]) /\ ~Replayed(d)
    /\ \A d \in Domains : ~Replayed(d) => version[d] <= policy[d]
    /\ pc \in {"init_sync", "prepare", "prepare_sync", "reread", "policy"} => At(dom, active[dom])
    /\ pc = "version" => policy[dom] = active[dom] + 1
    /\ pc \in {"sync", "audit", "commit"} => At(dom, active[dom] + 1)
    /\ pc \in {"restore_version", "restore_audit", "restore_sync"} => policy[journal.domain] = journal.policy
    /\ pc \in {"restore_audit", "restore_sync"} => version[journal.domain] = journal.policy
    /\ pc = "clear" /\ Hot => LET d == journal.domain IN
          At(d, IF mode = "commit" THEN active[d] + 1 ELSE journal.policy)
    /\ pc \in {"clear", "clear_sync", "finished"} /\ Updating /\ ~Hot =>
          At(dom, IF mode = "commit" THEN active[dom] + 1 ELSE active[dom])
    /\ Updating /\ ~Hot => policy[dom] >= active[dom]

IInv == TypeOK /\ Control /\ JournalSound /\ FilesSound

-----------------------------------------------------------------------------
(* The invariant *)

USE DomainsAssumption, VersionAssumption

\* The volume of an installed image, before its first boot, satisfies the invariant.
LEMMA InitIInv == Init => IInv
<1> SUFFICES ASSUME Init PROVE IInv
  OBVIOUS
<1> USE DEF Init
<1>1. TypeOK
  <2>1. SeedVersion \in Versions /\ 1 .. SeedVersion \subseteq Versions
    BY DEF Versions
  <2>2. journal \in Journal
    BY <2>1 DEF Journal, Empty, Versions
  <2>3. policy \in [Domains -> Versions] /\ version \in [Domains -> Versions]
    BY <2>1
  <2>4. active \in [Domains -> Versions] /\ ready \in [Domains -> BOOLEAN]
    BY <2>1
  <2>5. audit \in Nat /\ events \in 0 .. MaxEvents
    OBVIOUS
  <2> QED
    BY <2>2, <2>3, <2>4, <2>5 DEF TypeOK, Steps, Modes
<1>2. Control
  BY DEF Control, Updating, Restoring
<1>3. JournalSound
  BY DEF JournalSound, Hot, Empty, Updating, Changing, Restoring
<1>4. FilesSound
  BY DEF FilesSound, Replayed, Hot, Empty, Updating, At
<1> QED
  BY <1>1, <1>2, <1>3, <1>4 DEF IInv

\* Every step of the updates, of the boot and of the rest preserves the invariant.
LEMMA NextIInv == IInv /\ [Next]_vars => IInv'
<1> SUFFICES ASSUME IInv, [Next]_vars PROVE IInv'
  OBVIOUS
<1> USE DEF IInv, medium, others, device
<1>1. ASSUME NEW d \in Domains, Update(d) PROVE IInv'
  <2> USE <1>1 DEF Update
  <2>1. TypeOK'
    BY DEF TypeOK, Control, Updating, Steps, Modes
  <2>2. Control'
    BY DEF TypeOK, Control, Updating, Changing, Restoring, Hot
  <2>3. JournalSound'
    BY DEF TypeOK, Control, JournalSound, FilesSound, At, Updating, Changing, Restoring, Hot, Replayed, Journal, Modes
  <2>4. FilesSound'
    BY DEF TypeOK, Control, JournalSound, FilesSound, At, Updating, Changing, Restoring, Hot, Replayed, Versions, Journal
  <2> QED
    BY <2>1, <2>2, <2>3, <2>4
<1>2. ASSUME NEW d \in Domains, UpdateWhileBusy(d) PROVE IInv'
  <2> USE <1>2 DEF UpdateWhileBusy
  <2>1. TypeOK'
    BY DEF TypeOK, Control, Updating, Steps, Modes
  <2>2. Control'
    BY DEF TypeOK, Control, Updating, Changing, Restoring, Hot
  <2>3. JournalSound'
    BY DEF TypeOK, Control, JournalSound, FilesSound, At, Updating, Changing, Restoring, Hot, Replayed, Journal, Modes
  <2>4. FilesSound'
    BY DEF TypeOK, Control, JournalSound, FilesSound, At, Updating, Changing, Restoring, Hot, Replayed, Versions, Journal
  <2> QED
    BY <2>1, <2>2, <2>3, <2>4
<1>3. CASE Prepare
  <2> USE <1>3 DEF Prepare, Attempt, Backup
  <2>1. TypeOK'
    <3>1. journal' \in Journal
      BY DEF TypeOK, Control, Updating, Journal
    <3> QED
      BY <3>1 DEF TypeOK, Control, Updating, Steps, Modes
  <2>2. Control'
    BY DEF TypeOK, Control, Updating, Changing, Restoring, Hot
  <2>3. JournalSound'
    BY DEF TypeOK, Control, JournalSound, FilesSound, At, Updating, Changing, Restoring, Hot, Replayed, Journal, Modes
  <2>4. FilesSound'
    BY DEF TypeOK, Control, JournalSound, FilesSound, At, Updating, Changing, Restoring, Hot, Replayed, Versions, Journal
  <2> QED
    BY <2>1, <2>2, <2>3, <2>4
<1>4. CASE PrepareSync
  <2> USE <1>4 DEF PrepareSync, AttemptSync
  <2>1. TypeOK'
    BY DEF TypeOK, Control, Updating, Steps, Modes
  <2>2. Control'
    BY DEF TypeOK, Control, Updating, Changing, Restoring, Hot
  <2>3. JournalSound'
    BY DEF TypeOK, Control, JournalSound, FilesSound, At, Updating, Changing, Restoring, Hot, Replayed, Journal, Modes
  <2>4. FilesSound'
    BY DEF TypeOK, Control, JournalSound, FilesSound, At, Updating, Changing, Restoring, Hot, Replayed, Versions, Journal
  <2> QED
    BY <2>1, <2>2, <2>3, <2>4
<1>5. CASE Reread
  <2> USE <1>5 DEF Reread
  <2>1. TypeOK'
    BY DEF TypeOK, Control, Updating, Steps, Modes
  <2>2. Control'
    BY DEF TypeOK, Control, Updating, Changing, Restoring, Hot
  <2>3. JournalSound'
    BY DEF TypeOK, Control, JournalSound, FilesSound, At, Updating, Changing, Restoring, Hot, Replayed, Journal, Modes
  <2>4. FilesSound'
    BY DEF TypeOK, Control, JournalSound, FilesSound, At, Updating, Changing, Restoring, Hot, Replayed, Versions, Journal
  <2> QED
    BY <2>1, <2>2, <2>3, <2>4
<1>6. CASE WritePolicy
  <2> USE <1>6 DEF WritePolicy, Attempt, Next_
  <2>1. TypeOK'
    <3>1. policy' \in [Domains -> Versions]
      BY DEF TypeOK, Control, Updating, Versions
    <3> QED
      BY <3>1 DEF TypeOK, Control, Updating, Steps, Modes
  <2>2. Control'
    BY DEF TypeOK, Control, Updating, Changing, Restoring, Hot
  <2>3. JournalSound'
    BY DEF TypeOK, Control, JournalSound, FilesSound, At, Updating, Changing, Restoring, Hot, Replayed, Journal, Modes
  <2>4. FilesSound'
    BY DEF TypeOK, Control, JournalSound, FilesSound, At, Updating, Changing, Restoring, Hot, Replayed, Versions, Journal
  <2> QED
    BY <2>1, <2>2, <2>3, <2>4
<1>7. CASE WriteVersion
  <2> USE <1>7 DEF WriteVersion, Attempt, Next_
  <2>1. TypeOK'
    <3>1. version' \in [Domains -> Versions]
      BY DEF TypeOK, Control, Updating, Versions
    <3> QED
      BY <3>1 DEF TypeOK, Control, Updating, Steps, Modes
  <2>2. Control'
    BY DEF TypeOK, Control, Updating, Changing, Restoring, Hot
  <2>3. JournalSound'
    BY DEF TypeOK, Control, JournalSound, FilesSound, At, Updating, Changing, Restoring, Hot, Replayed, Journal, Modes
  <2>4. FilesSound'
    BY DEF TypeOK, Control, JournalSound, FilesSound, At, Updating, Changing, Restoring, Hot, Replayed, Versions, Journal
  <2> QED
    BY <2>1, <2>2, <2>3, <2>4
<1>8. CASE Sync
  <2> USE <1>8 DEF Sync, AttemptSync
  <2>1. TypeOK'
    BY DEF TypeOK, Control, Updating, Steps, Modes
  <2>2. Control'
    BY DEF TypeOK, Control, Updating, Changing, Restoring, Hot
  <2>3. JournalSound'
    BY DEF TypeOK, Control, JournalSound, FilesSound, At, Updating, Changing, Restoring, Hot, Replayed, Journal, Modes
  <2>4. FilesSound'
    BY DEF TypeOK, Control, JournalSound, FilesSound, At, Updating, Changing, Restoring, Hot, Replayed, Versions, Journal
  <2> QED
    BY <2>1, <2>2, <2>3, <2>4
<1>9. CASE RecordUpdate
  <2> USE <1>9 DEF RecordUpdate, Attempt
  <2>1. TypeOK'
    <3>1. audit' \in Nat
      BY DEF TypeOK
    <3>2. auditReady' \in BOOLEAN
      OBVIOUS
    <3> QED
      BY <3>1, <3>2 DEF TypeOK, Control, Updating, Steps, Modes
  <2>2. Control'
    BY DEF TypeOK, Control, Updating, Changing, Restoring, Hot
  <2>3. JournalSound'
    BY DEF TypeOK, Control, JournalSound, FilesSound, At, Updating, Changing, Restoring, Hot, Replayed, Journal, Modes
  <2>4. FilesSound'
    BY DEF TypeOK, Control, JournalSound, FilesSound, At, Updating, Changing, Restoring, Hot, Replayed, Versions, Journal
  <2> QED
    BY <2>1, <2>2, <2>3, <2>4
<1>10. CASE Commit
  <2> USE <1>10 DEF Commit
  <2>1. TypeOK'
    BY DEF TypeOK, Control, Updating, Steps, Modes
  <2>2. Control'
    BY DEF TypeOK, Control, Updating, Changing, Restoring, Hot
  <2>3. JournalSound'
    BY DEF TypeOK, Control, JournalSound, FilesSound, At, Updating, Changing, Restoring, Hot, Replayed, Journal, Modes
  <2>4. FilesSound'
    BY DEF TypeOK, Control, JournalSound, FilesSound, At, Updating, Changing, Restoring, Hot, Replayed, Versions, Journal
  <2> QED
    BY <2>1, <2>2, <2>3, <2>4
<1>11. CASE RestorePolicy
  <2> USE <1>11 DEF RestorePolicy, Attempt
  <2>1. TypeOK'
    BY DEF TypeOK, JournalSound, Hot, Restoring, Journal, Versions, Steps
  <2>2. Control'
    BY DEF TypeOK, Control, Updating, Changing, Restoring, Hot
  <2>3. JournalSound'
    BY DEF TypeOK, Control, JournalSound, FilesSound, At, Updating, Changing, Restoring, Hot, Replayed, Journal, Modes
  <2>4. FilesSound'
    BY DEF TypeOK, Control, JournalSound, FilesSound, At, Updating, Changing, Restoring, Hot, Replayed, Versions, Journal
  <2> QED
    BY <2>1, <2>2, <2>3, <2>4
<1>12. CASE RestoreVersion
  <2> USE <1>12 DEF RestoreVersion, Attempt
  <2>1. TypeOK'
    BY DEF TypeOK, JournalSound, Hot, Restoring, Journal, Versions, Steps
  <2>2. Control'
    BY DEF TypeOK, Control, Updating, Changing, Restoring, Hot
  <2>3. JournalSound'
    BY DEF TypeOK, Control, JournalSound, FilesSound, At, Updating, Changing, Restoring, Hot, Replayed, Journal, Modes
  <2>4. FilesSound'
    BY DEF TypeOK, Control, JournalSound, FilesSound, At, Updating, Changing, Restoring, Hot, Replayed, Versions, Journal
  <2> QED
    BY <2>1, <2>2, <2>3, <2>4
<1>13. CASE RestoreAudit
  <2> USE <1>13 DEF RestoreAudit, Attempt
  <2>1. TypeOK'
    BY DEF TypeOK, JournalSound, Hot, Restoring, Journal, Versions, Steps
  <2>2. Control'
    BY DEF TypeOK, Control, Updating, Changing, Restoring, Hot
  <2>3. JournalSound'
    BY DEF TypeOK, Control, JournalSound, FilesSound, At, Updating, Changing, Restoring, Hot, Replayed, Journal, Modes
  <2>4. FilesSound'
    BY DEF TypeOK, Control, JournalSound, FilesSound, At, Updating, Changing, Restoring, Hot, Replayed, Versions, Journal
  <2> QED
    BY <2>1, <2>2, <2>3, <2>4
<1>14. CASE RestoreSync
  <2> USE <1>14 DEF RestoreSync, AttemptSync
  <2>1. TypeOK'
    BY DEF TypeOK, Control, Updating, Steps, Modes
  <2>2. Control'
    BY DEF TypeOK, Control, Updating, Changing, Restoring, Hot
  <2>3. JournalSound'
    BY DEF TypeOK, Control, JournalSound, FilesSound, At, Updating, Changing, Restoring, Hot, Replayed, Journal, Modes
  <2>4. FilesSound'
    BY DEF TypeOK, Control, JournalSound, FilesSound, At, Updating, Changing, Restoring, Hot, Replayed, Versions, Journal
  <2> QED
    BY <2>1, <2>2, <2>3, <2>4
<1>15. CASE Clear
  <2> USE <1>15 DEF Clear, Attempt, Empty
  <2>1. TypeOK'
    <3>1. journal' \in Journal
      BY DEF TypeOK, Journal, Versions
    <3> QED
      BY <3>1 DEF TypeOK, Control, Updating, Steps, Modes
  <2>2. Control'
    BY DEF TypeOK, Control, Updating, Changing, Restoring, Hot
  <2>3. JournalSound'
    BY DEF TypeOK, Control, JournalSound, FilesSound, At, Updating, Changing, Restoring, Hot, Replayed, Journal, Modes
  <2>4. FilesSound'
    BY DEF TypeOK, Control, JournalSound, FilesSound, At, Updating, Changing, Restoring, Hot, Replayed, Versions, Journal
  <2> QED
    BY <2>1, <2>2, <2>3, <2>4
<1>16. CASE ClearSync
  <2> USE <1>16 DEF ClearSync, AttemptSync
  <2>1. TypeOK'
    BY DEF TypeOK, Control, Updating, Steps, Modes
  <2>2. Control'
    BY DEF TypeOK, Control, Updating, Changing, Restoring, Hot
  <2>3. JournalSound'
    BY DEF TypeOK, Control, JournalSound, FilesSound, At, Updating, Changing, Restoring, Hot, Replayed, Journal, Modes
  <2>4. FilesSound'
    BY DEF TypeOK, Control, JournalSound, FilesSound, At, Updating, Changing, Restoring, Hot, Replayed, Versions, Journal
  <2> QED
    BY <2>1, <2>2, <2>3, <2>4
<1>17. CASE Finish
  <2> USE <1>17 DEF Finish, Next_
  <2>1. TypeOK'
    <3>1. active' \in [Domains -> Versions]
      BY DEF TypeOK, Control, Updating, Versions
    <3> QED
      BY <3>1 DEF TypeOK, Control, Updating, Steps, Modes
  <2>2. Control'
    BY DEF TypeOK, Control, Updating, Changing, Restoring, Hot
  <2>3. JournalSound'
    BY DEF TypeOK, Control, JournalSound, FilesSound, At, Updating, Changing, Restoring, Hot, Replayed, Journal, Modes
  <2>4. FilesSound'
    BY DEF TypeOK, Control, JournalSound, FilesSound, At, Updating, Changing, Restoring, Hot, Replayed, Versions, Journal
  <2> QED
    BY <2>1, <2>2, <2>3, <2>4
<1>18. CASE Fail
  <2> USE <1>18 DEF Fail
  <2>1. TypeOK'
    BY DEF TypeOK, Control, Updating, Steps, Modes
  <2>2. Control'
    BY DEF TypeOK, Control, Updating, Changing, Restoring, Hot
  <2>3. JournalSound'
    BY DEF TypeOK, Control, JournalSound, FilesSound, At, Updating, Changing, Restoring, Hot, Replayed, Journal, Modes
  <2>4. FilesSound'
    BY DEF TypeOK, Control, JournalSound, FilesSound, At, Updating, Changing, Restoring, Hot, Replayed, Versions, Journal
  <2> QED
    BY <2>1, <2>2, <2>3, <2>4
<1>19. CASE Boot
  <2> USE <1>19 DEF Boot
  <2>1. TypeOK'
    BY DEF TypeOK, Control, Updating, Steps, Modes
  <2>2. Control'
    BY DEF TypeOK, Control, Updating, Changing, Restoring, Hot
  <2>3. JournalSound'
    BY DEF TypeOK, Control, JournalSound, FilesSound, At, Updating, Changing, Restoring, Hot, Replayed, Journal, Modes
  <2>4. FilesSound'
    BY DEF TypeOK, Control, JournalSound, FilesSound, At, Updating, Changing, Restoring, Hot, Replayed, Versions, Journal
  <2> QED
    BY <2>1, <2>2, <2>3, <2>4
<1>20. ASSUME NEW d \in Domains, InitDomain(d) PROVE IInv'
  <2> USE <1>20 DEF InitDomain
  <2>1. TypeOK'
    BY DEF TypeOK, Control, Updating, Steps, Modes
  <2>2. Control'
    BY DEF TypeOK, Control, Updating, Changing, Restoring, Hot
  <2>3. JournalSound'
    BY DEF TypeOK, Control, JournalSound, FilesSound, At, Updating, Changing, Restoring, Hot, Replayed, Journal, Modes
  <2>4. FilesSound'
    BY DEF TypeOK, Control, JournalSound, FilesSound, At, Updating, Changing, Restoring, Hot, Replayed, Versions, Journal
  <2> QED
    BY <2>1, <2>2, <2>3, <2>4
<1>21. ASSUME NEW d \in Domains, InitForward(d) PROVE IInv'
  <2> USE <1>21 DEF InitForward, Attempt
  <2>1. TypeOK'
    <3>1. version' \in [Domains -> Versions] /\ active' \in [Domains -> Versions]
      BY DEF TypeOK
    <3> QED
      BY <3>1 DEF TypeOK, Control, Updating, Steps, Modes
  <2>2. Control'
    BY DEF TypeOK, Control, Updating, Changing, Restoring, Hot
  <2>3. JournalSound'
    BY DEF TypeOK, Control, JournalSound, FilesSound, At, Updating, Changing, Restoring, Hot, Replayed, Journal, Modes
  <2>4. FilesSound'
    BY DEF TypeOK, Control, JournalSound, FilesSound, At, Updating, Changing, Restoring, Hot, Replayed, Versions, Journal
  <2> QED
    BY <2>1, <2>2, <2>3, <2>4
<1>22. CASE InitSync
  <2> USE <1>22 DEF InitSync, AttemptSync
  <2>1. TypeOK'
    <3>1. ready' \in [Domains -> BOOLEAN]
      BY DEF TypeOK
    <3> QED
      BY <3>1 DEF TypeOK, Control, Updating, Steps, Modes
  <2>2. Control'
    BY DEF TypeOK, Control, Updating, Changing, Restoring, Hot
  <2>3. JournalSound'
    BY DEF TypeOK, Control, JournalSound, FilesSound, At, Updating, Changing, Restoring, Hot, Replayed, Journal, Modes
  <2>4. FilesSound'
    BY DEF TypeOK, Control, JournalSound, FilesSound, At, Updating, Changing, Restoring, Hot, Replayed, Versions, Journal
  <2> QED
    BY <2>1, <2>2, <2>3, <2>4
<1>23. CASE InitFails
  <2> USE <1>23 DEF InitFails
  <2>1. TypeOK'
    BY DEF TypeOK, Control, Updating, Steps, Modes
  <2>2. Control'
    BY DEF TypeOK, Control, Updating, Changing, Restoring, Hot
  <2>3. JournalSound'
    BY DEF TypeOK, Control, JournalSound, FilesSound, At, Updating, Changing, Restoring, Hot, Replayed, Journal, Modes
  <2>4. FilesSound'
    BY DEF TypeOK, Control, JournalSound, FilesSound, At, Updating, Changing, Restoring, Hot, Replayed, Versions, Journal
  <2> QED
    BY <2>1, <2>2, <2>3, <2>4
<1>24. CASE InitDone
  <2> USE <1>24 DEF InitDone
  <2>1. TypeOK'
    BY DEF TypeOK, Control, Updating, Steps, Modes
  <2>2. Control'
    BY DEF TypeOK, Control, Updating, Changing, Restoring, Hot
  <2>3. JournalSound'
    BY DEF TypeOK, Control, JournalSound, FilesSound, At, Updating, Changing, Restoring, Hot, Replayed, Journal, Modes
  <2>4. FilesSound'
    BY DEF TypeOK, Control, JournalSound, FilesSound, At, Updating, Changing, Restoring, Hot, Replayed, Versions, Journal
  <2> QED
    BY <2>1, <2>2, <2>3, <2>4
<1>25. CASE RecordEvent
  <2> USE <1>25 DEF RecordEvent, RecordTaken
  <2>1. TypeOK'
    <3>1. audit' = audit \/ audit' = audit + 1
      OBVIOUS
    <3>2. events' = events \/ events' = events + 1
      OBVIOUS
    <3>3. audit' \in Nat
      BY <3>1 DEF TypeOK
    <3>4. events' \in 0 .. MaxEvents
      BY <3>2 DEF TypeOK
    <3>5. auditReady' \in BOOLEAN /\ mounted' \in BOOLEAN
      BY DEF TypeOK
    <3> QED
      BY <3>1, <3>2, <3>3, <3>4, <3>5 DEF TypeOK, Control, Updating, Steps, Modes
  <2>2. Control'
    BY DEF TypeOK, Control, Updating, Changing, Restoring, Hot
  <2>3. JournalSound'
    BY DEF TypeOK, Control, JournalSound, FilesSound, At, Updating, Changing, Restoring, Hot, Replayed, Journal, Modes
  <2>4. FilesSound'
    BY DEF TypeOK, Control, JournalSound, FilesSound, At, Updating, Changing, Restoring, Hot, Replayed, Versions, Journal
  <2> QED
    BY <2>1, <2>2, <2>3, <2>4
<1>26. CASE OtherFiles
  <2> USE <1>26 DEF OtherFiles
  <2>1. TypeOK'
    BY DEF TypeOK, Control, Updating, Steps, Modes
  <2>2. Control'
    BY DEF TypeOK, Control, Updating, Changing, Restoring, Hot
  <2>3. JournalSound'
    BY DEF TypeOK, Control, JournalSound, FilesSound, At, Updating, Changing, Restoring, Hot, Replayed, Journal, Modes
  <2>4. FilesSound'
    BY DEF TypeOK, Control, JournalSound, FilesSound, At, Updating, Changing, Restoring, Hot, Replayed, Versions, Journal
  <2> QED
    BY <2>1, <2>2, <2>3, <2>4
<1>27. CASE PowerLoss
  <2> USE <1>27 DEF PowerLoss
  <2>1. TypeOK'
    <3>1. active' \in [Domains -> Versions]
      BY DEF Versions
    <3> QED
      BY <3>1 DEF TypeOK, Control, Updating, Steps, Modes
  <2>2. Control'
    BY DEF TypeOK, Control, Updating, Changing, Restoring, Hot
  <2>3. JournalSound'
    BY DEF TypeOK, Control, JournalSound, FilesSound, At, Updating, Changing, Restoring, Hot, Replayed, Journal, Modes
  <2>4. FilesSound'
    BY DEF TypeOK, Control, JournalSound, FilesSound, At, Updating, Changing, Restoring, Hot, Replayed, Versions, Journal
  <2> QED
    BY <2>1, <2>2, <2>3, <2>4
<1>28. CASE UNCHANGED vars
  <2> USE <1>28 DEF vars
  <2>1. TypeOK'
    BY DEF TypeOK
  <2>2. Control'
    BY DEF Control, Updating
  <2>3. JournalSound'
    BY DEF JournalSound, Updating, Hot
  <2>4. FilesSound'
    BY DEF FilesSound, At, Updating, Hot, Replayed
  <2> QED
    BY <2>1, <2>2, <2>3, <2>4
<1> QED
  BY <1>1, <1>2, <1>3, <1>4, <1>5, <1>6, <1>7, <1>8, <1>9, <1>10, <1>11, <1>12, <1>13, <1>14, <1>15, <1>16, <1>17, <1>18, <1>19, <1>20, <1>21, <1>22, <1>23, <1>24, <1>25, <1>26, <1>27, <1>28 DEF Next, Step

\* The invariant holds at every step of every behaviour.
THEOREM Invariance == Spec => []IInv
<1>1. Init => IInv
  BY InitIInv
<1>2. IInv /\ [Next]_vars => IInv'
  BY NextIInv
<1> QED
  BY <1>1, <1>2, PTL DEF Spec

-----------------------------------------------------------------------------
(* The properties *)

\* Type correctness; in particular no version passes the terminal one.
THEOREM TypeCorrect == Spec => []TypeOK
<1>1. IInv => TypeOK
  BY DEF IInv
<1> QED
  BY <1>1, Invariance, PTL

\* Wherever the power fails, no later boot finds a policy older than its version
\* file (the check of <domain>::init that stops a boot).
THEOREM AlwaysBootable == Spec => []Bootable
<1>1. IInv => Bootable
  <2> SUFFICES ASSUME IInv, NEW d \in Domains
               PROVE RecoveredVersion(d) <= RecoveredPolicy(d)
    BY DEF Bootable
  <2>1. CASE Replayed(d)
    BY <2>1 DEF IInv, TypeOK, JournalSound, Replayed, RecoveredPolicy, RecoveredVersion, Journal, Versions
  <2>2. CASE ~Replayed(d)
    BY <2>2 DEF IInv, FilesSound, RecoveredPolicy, RecoveredVersion
  <2> QED
    BY <2>1, <2>2
<1> QED
  BY <1>1, Invariance, PTL

\* Between updates a ready domain enforces exactly the generation on the medium.
THEOREM ReadyIsWhole == Spec => []ReadyMeansWhole
<1>1. IInv => ReadyMeansWhole
  BY DEF IInv, Control, FilesSound, Updating, At, ReadyMeansWhole
<1> QED
  BY <1>1, Invariance, PTL

\* What a ready domain enforces survives a power loss at any step.
THEOREM EnforcedDurable == Spec => []EnforcedIsDurable
<1>1. IInv => EnforcedIsDurable
  <2> SUFFICES ASSUME IInv, NEW d \in Domains, ready[d]
               PROVE active[d] <= RecoveredPolicy(d)
    BY DEF EnforcedIsDurable
  <2>1. CASE Updating /\ d = dom
    BY <2>1 DEF IInv, TypeOK, JournalSound, FilesSound, Replayed, RecoveredPolicy, Hot, Versions
  <2>2. CASE ~(Updating /\ d = dom)
    BY <2>2 DEF IInv, TypeOK, FilesSound, At, RecoveredPolicy, Versions
  <2> QED
    BY <2>1, <2>2
<1> QED
  BY <1>1, Invariance, PTL

\* Every step leaves the generation a boot would find of a policy, or advances it
\* by one; only clear_journal of a commit advances it.
LEMMA StepGeneration ==
    ASSUME IInv, [Next]_vars, NEW d \in Domains
    PROVE RecoveredPolicy(d)' \in {RecoveredPolicy(d), RecoveredPolicy(d) + 1}
<1> USE DEF medium, others, device
<1>1. CASE Prepare
  BY <1>1 DEF Prepare, Attempt, Backup, IInv, Control, JournalSound, Updating, RecoveredPolicy, Replayed, Hot
<1>2. CASE WritePolicy
  BY <1>2 DEF WritePolicy, Attempt, IInv, TypeOK, Control, JournalSound, Changing, Updating, RecoveredPolicy, Replayed, Hot
<1>3. CASE RestorePolicy
  BY <1>3 DEF RestorePolicy, Attempt, IInv, TypeOK, JournalSound, Restoring, RecoveredPolicy, Replayed, Hot
<1>4. CASE Clear
  BY <1>4 DEF Clear, Attempt, Empty, IInv, TypeOK, Control, JournalSound, FilesSound, At, Updating, Modes,
              RecoveredPolicy, Replayed, Hot
<1>5. CASE UNCHANGED <<policy, journal>>
  BY <1>5 DEF RecoveredPolicy, Replayed, Hot
<1>6. CASE ~(Prepare \/ WritePolicy \/ RestorePolicy \/ Clear)
  <2>1. UNCHANGED <<policy, journal>>
    BY <1>6 DEF Next, Step, vars, Update, UpdateWhileBusy, PrepareSync, Reread, WriteVersion, Sync, RecordUpdate,
                Commit, RestoreVersion, RestoreAudit, RestoreSync, ClearSync, Finish, Fail, Boot, InitDomain,
                InitForward, InitSync, InitFails, InitDone, RecordEvent, OtherFiles, PowerLoss
  <2> QED
    BY <2>1, <1>5
<1> QED
  BY <1>1, <1>2, <1>3, <1>4, <1>6

\* No update, rollback, recovery or power loss loses a durable generation or skips
\* one.
THEOREM GenerationsStep == Spec => GenerationSteps
<1>1. IInv /\ [Next]_vars =>
        [\A d \in Domains : RecoveredPolicy(d)' \in {RecoveredPolicy(d), RecoveredPolicy(d) + 1}]_vars
  BY StepGeneration
<1> QED
  BY <1>1, Invariance, PTL DEF Spec, GenerationSteps

-----------------------------------------------------------------------------
(* Volumes whose superblock generation has not run out *)

\* The superblock generation never comes back.
LEMMA SpentStays ==
    ASSUME IInv, [Next]_vars, ~spent'
    PROVE ~spent
<1> USE DEF device
<1>1. CASE PrepareSync \/ Sync \/ RestoreSync \/ ClearSync \/ InitSync
  BY <1>1 DEF PrepareSync, Sync, RestoreSync, ClearSync, InitSync, AttemptSync
<1>2. CASE OtherFiles
  BY <1>2 DEF OtherFiles, IInv, TypeOK
<1>3. CASE ~(PrepareSync \/ Sync \/ RestoreSync \/ ClearSync \/ InitSync \/ OtherFiles)
  <2>1. UNCHANGED spent
    BY <1>3 DEF Next, Step, vars, Update, UpdateWhileBusy, Prepare, Reread, WritePolicy, WriteVersion,
                RecordUpdate, Commit, RestorePolicy, RestoreVersion, RestoreAudit, Clear, Finish, Fail, Boot,
                InitDomain, InitForward, InitFails, InitDone, RecordEvent, PowerLoss, Attempt
  <2> QED
    BY <2>1
<1> QED
  BY <1>1, <1>2, <1>3

\* A transaction that failed with a hot journal has lost its volume.
Isolated ==
    ~spent =>
        /\ Hot => space
        /\ pc \in {"idle", "failed"} /\ Hot => ~mounted

\* Until the generation runs out, nothing is written over a hot journal.
LEMMA NextIsolated ==
    ASSUME IInv, Isolated, [Next]_vars
    PROVE Isolated'
<1> SUFFICES ASSUME ~spent'
             PROVE Isolated'
  BY DEF Isolated
<1>1. ~spent
  BY SpentStays
<1> USE <1>1 DEF IInv, Isolated, medium, others, device
<1>2. CASE Prepare \/ WritePolicy \/ WriteVersion \/ RestorePolicy \/ RestoreVersion \/ RestoreAudit \/ Clear
  BY <1>2 DEF Prepare, WritePolicy, WriteVersion, RestorePolicy, RestoreVersion, RestoreAudit, Clear,
              Attempt, Empty, Hot
<1>3. CASE PrepareSync \/ Sync \/ RestoreSync \/ ClearSync \/ InitSync
  <2>1. UNCHANGED <<journal, space>>
    BY <1>3 DEF PrepareSync, Sync, RestoreSync, ClearSync, InitSync
  <2>2. pc' \in {"idle", "failed"} => ~mounted'
    BY <1>1, <1>3 DEF PrepareSync, Sync, RestoreSync, ClearSync, InitSync, AttemptSync
  <2> QED
    BY <2>1, <2>2 DEF Hot
<1>4. CASE Reread \/ RecordUpdate \/ Commit \/ Finish \/ Fail \/ InitFails \/ InitDone
  <2>1. UNCHANGED <<journal, space>>
    BY <1>4 DEF Reread, RecordUpdate, Commit, Finish, Fail, InitFails, InitDone
  <2>2. CASE Reread \/ RecordUpdate \/ Commit \/ InitFails
    BY <2>1, <2>2 DEF Reread, RecordUpdate, Attempt, Commit, InitFails, Hot
  <2>3. CASE Finish \/ InitDone
    BY <2>1, <2>3 DEF Finish, InitDone, JournalSound, Hot
  <2>4. CASE Fail
    BY <2>1, <2>4 DEF Fail, Hot
  <2> QED
    BY <1>4, <2>2, <2>3, <2>4
<1>5. CASE \E d \in Domains : InitDomain(d) \/ InitForward(d) \/ Update(d) \/ UpdateWhileBusy(d)
  BY <1>5 DEF InitDomain, InitForward, Attempt, Update, UpdateWhileBusy, Hot
<1>6. CASE Boot \/ RecordEvent \/ OtherFiles \/ PowerLoss
  BY <1>6 DEF Boot, RecordEvent, OtherFiles, PowerLoss, Hot
<1>7. CASE UNCHANGED vars
  BY <1>7 DEF vars, Hot
<1> QED
  BY <1>2, <1>3, <1>4, <1>5, <1>6, <1>7 DEF Next, Step

\* An unresolved transaction leaves the volume unmounted and the replay possible,
\* until the superblock generation runs out.
THEOREM JournalIsolated == Spec => []HotJournalIsolated
<1>1. Init => Isolated
  BY DEF Init, Isolated, Hot, Empty
<1>2. IInv /\ Isolated /\ [Next]_vars => Isolated'
  BY NextIsolated
<1>3. Isolated => HotJournalIsolated
  BY DEF Isolated, HotJournalIsolated
<1> QED
  BY <1>1, <1>2, <1>3, Invariance, PTL DEF Spec

\* The audit file against the copy in the journal, while an audited domain changes.
AuditSound ==
    /\ pc = "audit" => dom \in Audited
    /\ pc = "restore_audit" => journal.domain \in Audited
    /\ Hot /\ journal.domain \in Audited =>
        /\ pc \in {"prepare_sync", "reread", "policy", "version", "sync", "audit", "restore_sync"} =>
              audit = journal.audit
        /\ pc = "commit" => audit = journal.audit + 1
        /\ pc = "clear" => audit = journal.audit + (IF mode = "commit" THEN 1 ELSE 0)

\* Every step of an update and of a replay keeps the audit file in step with the
\* copy in the journal.
LEMMA NextAuditSound ==
    ASSUME IInv, AuditSound, [Next]_vars
    PROVE AuditSound'
<1> USE DEF IInv, AuditSound, medium, others, device
<1>1. CASE Prepare
  BY <1>1 DEF Prepare, Attempt, Backup, Hot, TypeOK, Control, JournalSound, Updating
<1>2. CASE PrepareSync \/ Reread
  <2>1. /\ UNCHANGED <<audit, journal, dom>> /\ pc' \in {"reread", "policy", "clear"}
        /\ mode' \in {mode, "discard"} /\ pc \in {"prepare_sync", "reread"}
    BY <1>2 DEF PrepareSync, Reread, AttemptSync
  <2>2. mode' # "commit"
    BY <2>1 DEF Control
  <2> QED
    BY <2>1, <2>2 DEF Hot, TypeOK, Journal
<1>3. CASE WritePolicy \/ WriteVersion
  BY <1>3 DEF WritePolicy, WriteVersion, Attempt, Hot, TypeOK
<1>4. CASE Sync
  BY <1>4 DEF Sync, AttemptSync, Hot, TypeOK, Control, JournalSound, Updating, Changing
<1>5. CASE RecordUpdate
  BY <1>5 DEF RecordUpdate, Attempt, Hot, TypeOK
<1>6. CASE Commit
  BY <1>6 DEF Commit, Hot
<1>7. CASE RestorePolicy \/ RestoreVersion
  BY <1>7 DEF RestorePolicy, RestoreVersion, Attempt, Hot, TypeOK
<1>8. CASE RestoreAudit
  BY <1>8 DEF RestoreAudit, Attempt, Hot, TypeOK, Journal
<1>9. CASE RestoreSync
  <2>1. UNCHANGED <<audit, journal, dom>> /\ pc = "restore_sync" /\ pc' \in {"clear", "failed"} /\ mode' = mode
    BY <1>9 DEF RestoreSync, AttemptSync
  <2>2. mode' # "commit"
    BY <2>1 DEF Control, Restoring
  <2> QED
    BY <2>1, <2>2 DEF Hot, TypeOK, Journal
<1>10. CASE Clear \/ ClearSync \/ Finish \/ Fail
  BY <1>10 DEF Clear, ClearSync, Finish, Fail, Attempt, AttemptSync, Empty, Hot
<1>11. CASE InitSync \/ InitFails \/ InitDone
  BY <1>11 DEF InitSync, InitFails, InitDone, AttemptSync, Hot
<1>12. CASE \E d \in Domains : InitDomain(d) \/ InitForward(d) \/ Update(d) \/ UpdateWhileBusy(d)
  BY <1>12 DEF InitDomain, InitForward, Attempt, Update, UpdateWhileBusy, Hot
<1>13. CASE Boot \/ RecordEvent \/ OtherFiles \/ PowerLoss
  BY <1>13 DEF Boot, RecordEvent, OtherFiles, PowerLoss, Hot
<1>14. CASE UNCHANGED vars
  BY <1>14 DEF vars, Hot
<1> QED
  BY <1>1, <1>2, <1>3, <1>4, <1>5, <1>6, <1>7, <1>8, <1>9, <1>10, <1>11, <1>12, <1>13, <1>14 DEF Next, Step

\* A step changes the records and the generation a boot would find together.
LEMMA NextAuditExact ==
    ASSUME IInv, Isolated, ~spent, AuditSound, [Next]_vars, NEW d \in Audited,
           RecoveredAudit = events + (RecoveredPolicy(d) - SeedVersion)
    PROVE (RecoveredAudit = events + (RecoveredPolicy(d) - SeedVersion))'
<1> USE DEF IInv, medium, others, device
<1>0. d \in Domains /\ \A e \in Audited : e = d
  OBVIOUS
<1>1. CASE Prepare
  BY <1>0, <1>1 DEF Prepare, Attempt, Backup, Hot, Control, JournalSound, Updating, RecoveredAudit,
                    RecoveredPolicy, Replayed
<1>2. CASE WritePolicy
  BY <1>0, <1>2 DEF WritePolicy, Attempt, Hot, TypeOK, Control, JournalSound, Changing, Updating,
                    RecoveredAudit, RecoveredPolicy, Replayed
<1>3. CASE RecordUpdate
  <2>1. Hot /\ journal.domain \in Audited /\ UNCHANGED <<policy, journal, events>>
    BY <1>3 DEF RecordUpdate, AuditSound, Control, JournalSound, Changing, Updating
  <2> QED
    BY <1>0, <2>1 DEF Hot, RecoveredAudit, RecoveredPolicy, Replayed
<1>4. CASE RestorePolicy
  BY <1>0, <1>4 DEF RestorePolicy, Attempt, Hot, TypeOK, JournalSound, Restoring, RecoveredAudit,
                    RecoveredPolicy, Replayed
<1>5. CASE RestoreAudit
  <2>1. Hot /\ journal.domain \in Audited /\ UNCHANGED <<policy, journal, events>>
    BY <1>5 DEF RestoreAudit, AuditSound, JournalSound, Restoring
  <2> QED
    BY <1>0, <2>1 DEF Hot, RecoveredAudit, RecoveredPolicy, Replayed
<1>6. CASE Clear
  <2>1. CASE UNCHANGED journal
    BY <1>6, <2>1 DEF Clear, Hot, RecoveredAudit, RecoveredPolicy, Replayed
  <2>2. CASE journal' = Empty
    <3>1. CASE Replayed(d)
      <4>1. policy[d] = journal.policy + (IF mode = "commit" THEN 1 ELSE 0)
        BY <1>0, <1>6, <3>1 DEF Clear, Replayed, TypeOK, JournalSound, FilesSound, At, Updating, Journal, Versions
      <4>2. audit = journal.audit + (IF mode = "commit" THEN 1 ELSE 0)
        BY <1>6, <3>1 DEF Clear, Replayed, AuditSound
      <4>3. RecoveredAudit' = audit /\ RecoveredPolicy(d)' = policy[d] /\ events' = events
        BY <1>6, <2>2 DEF Clear, Empty, Hot, RecoveredAudit, RecoveredPolicy, Replayed
      <4>4. RecoveredAudit = journal.audit /\ RecoveredPolicy(d) = journal.policy
        BY <3>1 DEF RecoveredAudit, RecoveredPolicy, Replayed
      <4> QED
        BY <4>1, <4>2, <4>3, <4>4 DEF TypeOK, Journal, Versions
    <3>2. CASE ~Replayed(d)
      BY <1>0, <1>6, <2>2, <3>2 DEF Clear, Empty, Hot, RecoveredAudit, RecoveredPolicy, Replayed
    <3> QED
      BY <3>1, <3>2
  <2> QED
    BY <1>6, <2>1, <2>2 DEF Clear, Attempt
<1>7. CASE RecordEvent
  <2>1. CASE RecordTaken
    <3>1. ~Hot /\ UNCHANGED <<policy, journal>>
      <4>1. pc = "idle" /\ UNCHANGED <<policy, journal>>
        BY <1>7 DEF RecordEvent
      <4>2. events' # events
        BY <2>1 DEF RecordTaken, TypeOK
      <4>3. mounted
        BY <1>7, <4>2 DEF RecordEvent
      <4> QED
        BY <4>1, <4>3 DEF Isolated
    <3> QED
      BY <1>0, <2>1, <3>1 DEF RecordTaken, TypeOK, Versions, Hot, RecoveredAudit, RecoveredPolicy, Replayed
  <2>2. CASE UNCHANGED <<audit, events>>
    BY <1>7, <2>2 DEF RecordEvent, Hot, RecoveredAudit, RecoveredPolicy, Replayed
  <2> QED
    BY <1>7, <2>1, <2>2 DEF RecordEvent
<1>8. CASE ~(Prepare \/ WritePolicy \/ RecordUpdate \/ RestorePolicy \/ RestoreAudit \/ Clear \/ RecordEvent)
  <2>1. UNCHANGED <<policy, journal, audit, events>>
    BY <1>8 DEF Next, Step, vars, Update, UpdateWhileBusy, PrepareSync, Reread, WriteVersion, Sync,
                Commit, RestoreVersion, RestoreSync, ClearSync, Finish, Fail, Boot, InitDomain,
                InitForward, InitSync, InitFails, InitDone, OtherFiles, PowerLoss
  <2> QED
    BY <2>1 DEF Hot, RecoveredAudit, RecoveredPolicy, Replayed
<1> QED
  BY <1>1, <1>2, <1>3, <1>4, <1>5, <1>6, <1>7, <1>8

\* One audit record for every durable generation and every other event, whatever
\* is written, undone or lost, until the superblock generation runs out.
THEOREM AuditIsExact == Spec => []AuditExact
<1> DEFINE AInv == Isolated /\ AuditSound /\ AuditExact
<1>1. Init => AInv
  BY DEF Init, Isolated, AuditSound, AuditExact, Hot, Empty, RecoveredAudit, RecoveredPolicy, Replayed
<1>2. IInv /\ AInv /\ [Next]_vars => AInv'
  <2> SUFFICES ASSUME IInv, AInv, [Next]_vars PROVE AInv'
    OBVIOUS
  <2>1. Isolated'
    BY NextIsolated
  <2>2. AuditSound'
    BY NextAuditSound
  <2>3. ASSUME ~spent', NEW d \in Audited
        PROVE (RecoveredAudit = events + (RecoveredPolicy(d) - SeedVersion))'
    BY <2>3, NextAuditExact, SpentStays DEF AuditExact
  <2> QED
    BY <2>1, <2>2, <2>3 DEF AuditExact
<1>3. AInv => AuditExact
  OBVIOUS
<1> QED
  BY <1>1, <1>2, <1>3, Invariance, PTL DEF Spec
=============================================================================
