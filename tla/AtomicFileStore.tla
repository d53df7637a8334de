--------------------------- MODULE AtomicFileStore ---------------------------
(***************************************************************************)
(* What the file system promises its callers across power loss: a map from *)
(* paths to files and directories that changes only by whole updates.  An  *)
(* update that was opened takes effect at most once, all at once, before   *)
(* it is closed; success is reported only for an update that took effect;  *)
(* a failed or interrupted one leaves either the old or the new store.     *)
(***************************************************************************)
EXTENDS Integers, Sequences

CONSTANTS Paths, Contents, Absent, Directory, NoGoal

VARIABLES
    store,      \* [Paths -> Contents, Absent or Directory]
    goal,       \* the store an open update is to produce, or NoGoal
    result      \* what the last update reported

ParentOf(p) == SubSeq(p, 1, Len(p) - 1)

Under(d, p) == Len(d) < Len(p) /\ SubSeq(p, 1, Len(d)) = d

CanHold(p) == p = << >> \/ ParentOf(p) = << >> \/ store[ParentOf(p)] = Directory

\* The stores one update may lead to.
Put(g) ==
    \E p \in Paths \ {<< >>}, c \in Contents :
        /\ CanHold(p)
        /\ store[p] # Directory
        /\ g = [store EXCEPT ![p] = c]

Mkdir(g) ==
    \E p \in Paths \ {<< >>} :
        /\ CanHold(p)
        /\ store[p] = Absent
        /\ g = [store EXCEPT ![p] = Directory]

Delete(g) ==
    \E p \in Paths \ {<< >>} :
        /\ store[p] # Absent
        /\ store[p] = Directory =>
               \A q \in Paths : Under(p, q) => store[q] = Absent
        /\ g = [store EXCEPT ![p] = Absent]

Move(g) ==
    \E p, q \in Paths :
        /\ store[p] \in Contents
        /\ store[q] = Absent
        /\ CanHold(q)
        /\ g = [store EXCEPT ![p] = Absent, ![q] = store[p]]

Update(g) == Put(g) \/ Mkdir(g) \/ Delete(g) \/ Move(g)

AInit ==
    /\ store = [p \in Paths |-> Absent]
    /\ goal = NoGoal
    /\ result = "none"

Open ==
    /\ goal = NoGoal
    /\ Put(goal')
    /\ result' = "none"
    /\ UNCHANGED store

TakeEffect == goal # NoGoal /\ store' = goal /\ UNCHANGED <<goal, result>>

\* The update is over: reported as done only if the store is the new one.
Close ==
    /\ goal # NoGoal
    /\ store' \in {store, goal}
    /\ goal' = NoGoal
    /\ result' \in {"ok", "recovery_pending", "failed"}
    /\ result' # "failed" => store' = goal

\* An update of one sector write opens, takes effect and closes at once.
Whole ==
    /\ goal = NoGoal
    /\ Update(store') \/ UNCHANGED store
    /\ result' \in {"ok", "failed"}
    /\ result' = "ok" => Update(store')
    /\ UNCHANGED goal

Interrupt == goal' = NoGoal /\ result' = "none" /\ UNCHANGED store

ANext == Open \/ TakeEffect \/ Close \/ Whole \/ Interrupt

ASpec == AInit /\ [][ANext]_<<store, goal, result>>
=============================================================================
